SPECIFICATION FairLifecycleSpec
CONSTANTS
    p1 = p1
    p2 = p2
    p3 = p3
    p4 = p4
    NULL = NULL
    Structs <- ThreeStructs
    PROC_MAX = 3
    PROC_THREADS_MAX = 3
    MaxPid = 3
    Smp = TRUE
    Console = TRUE
PROPERTY
    KillArrives
CHECK_DEADLOCK FALSE
