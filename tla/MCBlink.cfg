CONSTANTS
    SLOTS = 3
    SCREEN = 3
    WORD = 4
    Requests <- MCRequests
SPECIFICATION FairSpec
INVARIANTS
    NoLeak
PROPERTIES
    ImplementsList
    Blinks
