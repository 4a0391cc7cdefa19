SPECIFICATION DesktopSpec
CONSTANTS
    t1 = t1
    t2 = t2
    t3 = t3
    pa = pa
    pb = pb
    wa = wa
    Threads <- MCThreads
    NoThread = NoThread
    WM_MAX_WINDOWS = 3
    Width = 3
    MaxAsked = 4
    Frames <- MCFrames
    Kinds <- MCKinds
    Base = 3
    End = 17
    Sizes <- MCSizes
    Aligns <- MCAligns
    Apps = {1, 2}
    NoApp = NoApp
    Running = {1}
    Home <- MCHome
    Desk = 0
    NoPoint = NoPoint
    KBD_QSIZE = 2
    MOUSE_EVQ = 2
    WM_KEYBUF_SIZE = 2
    MaxInput = 5
    Programs <- MCPrograms
    Watchers <- MCWatchers
    FRESH = 2
    MaxNow = 3
    MaxChanges = 4
    Builds <- MCBuilds
    Libs <- MCLibs
    Kmods <- MCKmods
    Search <- MCSearch
    Files <- MCFiles
    InitrdBuilds = {3}
    Commands = {"a", "c"}
    DYNLIB_MAX = 2
    MODULE_MAX = 2
    DRIVER_MAX = 2
    PROCS = 2
    p1 = p1
    p2 = p2
    p3 = p3
    p4 = p4
    NULL = NULL
    Structs <- FourStructs
    PROC_MAX = 3
    PROC_THREADS_MAX = 3
    MaxPid = 4
    Smp = TRUE
    Console = FALSE
INVARIANTS
    MutualExclusion NoStuckLocker NotifyAllReachesAll 
    HeapSound KeysHeard SnapshotTells   NoSurvivor NoStuckJoiner
PROPERTY ImplementsAllocator
CHECK_DEADLOCK FALSE
