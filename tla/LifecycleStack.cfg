SPECIFICATION LifecycleSpec
CONSTANTS
    p1 = p1
    p2 = p2
    p3 = p3
    p4 = p4
    NULL = NULL
    Structs <- ThreeStructs
    PROC_MAX = 4
    PROC_THREADS_MAX = 3
    MaxPid = 4
    Smp = TRUE
    Console = TRUE
PROPERTY
    StackKept
CHECK_DEADLOCK FALSE
