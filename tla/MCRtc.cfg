CONSTANTS
    TERMINAL_NUM = 2
    PID_COUNT = 3
    REAL_FREQ = 4
    RTC_DEFAULT_VIRT_FREQ = 2
    Requests = {0, 1, 3, 4, 8}
    MAX_COUNT = 5
    Env = {}
SPECIFICATION FairSpec
INVARIANTS
    TypeOK
PROPERTIES
    NotEarly
    ReadReturns
