SPECIFICATION StorageSpec
CONSTANTS
    na = na
    nb = nb
    p1 = p1
    p2 = p2
    b1 = b1
    b2 = b2
    nested = nested
    Names = {na, nb}
    Nodes = {1, 2, 3}
    Supers = {1, 2}
    Paths <- MCPaths
    NULL = NULL
    MAX_CHILDREN = 1
    MAX_MOUNTS = 2
    MAX_OPEN = 1
    ThroughFiles = FALSE
    MaxPins = 1
    FdProcs <- MCProcs
    FdNone = FdNone
    MAX_FILES = 3
    MAX_SOCKS = 2
    MAX_FD = 4
    Inodes = {1}
    Pids = {11, 12, 13}
    FLOCK_MAX = 3
    OFF_MAX = 3
    NoLock = NoLock
    WATCH_MAX = 2
    EVENT_MAX = 2
    Watched <- MCWatched
    Changed <- MCChanged
    Masks = {1}
    NoWatch = NoWatch
    MaxWd = 2
    MaxLog = 3
    Handles = {1, 2}
    FirstCap = 1
    MaxSize = 4
    MaxCount = 2
    MaxWrites = 3
    FatBits = {16, 32}
    Clusters = 3
    SPC = 1
    DirSlots = 2
    FileNames = {"f", "g"}
    FatNodes = {1, 2}
    MaxSectors = 2
    MaxFaults = 1
    MaxCrashes = 1
    QSize = 7
    PEND_MAX = 2
    Bios <- MCBios
    Nested = nested
    MaxCalls = 4
    FsFormats = {"ext2", "ext4", "ntfs", "exfat", "udf", "iso9660", "resident"}
    NDIR = 1
    EPB = 2
    BlockBytes = 2
    Blocks = 6
    Gaps <- MCGaps
    Cuts = {0, 2, 5}
    ReadSizes = {1, 3, 5}
    DirFormats = {"ext", "fat", "exfat", "ntfs", "udf", "iso9660"}
    Units = 4
    DirEntries <- MCDirEntries
    MaxEntries = 3
    Limits = {0, 1, 2, 4}
INVARIANTS
     FdsSound LocksExclude NewestInOrder
    ReadsBack ChainsSound Durable RequestsSound ReadsFile ListsAll
CHECK_DEADLOCK FALSE
