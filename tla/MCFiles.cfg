CONSTANTS
    Pids = {1, 2}
    Tester = 1
    FD_CNT = 4
    FS_MAX_DIR_ENTRIES = 5
    FS_FNAME_LEN = 2
    FS_BLK_SIZE = 2
    direntries <- MCDirentries
    inodes <- MCInodes
    datablks <- MCDatablks
    fs_stats <- MCStats
    Calls <- MCCalls
    Dot <- MCDot
    Longer <- MCLonger
    Shorter <- MCShorter
    MAX_READS = 6
SPECIFICATION SysSpec
INVARIANTS
    TypeOK
    CleanTable
    SequentialRead
    ListingComplete
    SyserrPasses
PROPERTIES
    ReadsAll
