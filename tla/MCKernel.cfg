CONSTANTS
    MAX_PID_COUNT = 4
    TERMINAL_NUM = 3
    Env = {}
SPECIFICATION Spec
INVARIANTS
    FamilyTree
    Attributed
    Reachable
    Coherent
PROPERTIES
    HaltReturnsToParent
