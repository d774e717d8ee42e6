CONSTANTS
    MAX_PID_COUNT = 3
    TERMINAL_NUM = 2
    Env = {"rootexit"}
SPECIFICATION Spec
CHECK_DEADLOCK FALSE
INVARIANT
    FamilyTree
