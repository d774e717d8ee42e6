CONSTANTS
    TERMINAL_NUM = 2
    LINE_BUFFER_SIZE = 3
    Newline = 1
    Letters = {2, 3}
    Sizes = {2}
    MAX_HELD = 2
    Env = {}
SPECIFICATION Spec
INVARIANTS
    TypeOK
    Contiguous
PROPERTIES
    NoOverflow
    ImplementsEditor
