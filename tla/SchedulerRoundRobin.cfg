SPECIFICATION CooperativeSpec
CONSTANTS
    NCPU = 1
    PROC_MAX = 4
    IdleCpu <- MCIdleCpu
    Pinned <- MCPinned
    TIMESLICE = 2
    MaxHalts = 2
PROPERTY
    RoundRobin
CHECK_DEADLOCK FALSE
