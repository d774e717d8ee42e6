CONSTANTS
    TERMINAL_NUM = 2
    LINE_BUFFER_SIZE = 2
    Newline = 1
    Letters = {}
    Sizes = {1}
    MAX_HELD = 2
    Env = {"bump"}
SPECIFICATION FairSpec
PROPERTIES
    LineArrives
    KeyboardReleased
