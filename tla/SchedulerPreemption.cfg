SPECIFICATION FairSpec
CONSTANTS
    NCPU = 1
    PROC_MAX = 3
    IdleCpu <- MCIdleCpu
    Pinned <- MCPinned
    TIMESLICE = 1
    MaxHalts = 2
PROPERTY
    Preemption
CHECK_DEADLOCK FALSE
