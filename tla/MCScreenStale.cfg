SPECIFICATION Spec
CONSTANTS
    MAX_PID_COUNT = 3
    TERMINAL_NUM = 2
    NUM_ROWS = 2
    NUM_COLS = 2
    Chars = {a}
    Blank = blank
    Env = {"bgcall"}
    MaxOutput = 1
INVARIANTS Mapped
