CONSTANTS
    MAX_PID_COUNT = 3
    TERMINAL_NUM = 3
    Env = {}
SPECIFICATION FairSpec
PROPERTIES
    ImplementsStacks
    NoStarvation
    ShellArrives
