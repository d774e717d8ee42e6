SPECIFICATION Spec
CONSTANTS
    Size = 10
    Fill = 100
    WIDTH = 2
    RADIX = 16
    ARGS_SIZE = 8
    BUFSIZE = 3
    Alphabet = {97, 98}
    MaxCommand = 6
    MaxFile = 6
    MaxFrame = 3
    MaxItems = 2
    Others = {28}
INVARIANTS
    MemoryRight
    NumbersRight
    FormatRight
    CommandRight
    GrepRight
    FramesRight
    KeysRight
