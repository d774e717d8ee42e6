CONSTANTS
    MAX_PID_COUNT = 2
    TERMINAL_NUM = 3
    Env = {"startup", "rootexit", "tick", "badimage", "bgfault", "ustack"}
SPECIFICATION Spec
CHECK_DEADLOCK FALSE
INVARIANTS
    TypeOK
    RunningPrefix
