SPECIFICATION Spec
CONSTANTS
    NCPU = 2
    PROC_MAX = 5
    IdleCpu <- MCIdleCpu
    Pinned <- MCPinned
    TIMESLICE = 2
    MaxHalts = 2
INVARIANTS
    StackExclusive
    SwitchSound
CHECK_DEADLOCK FALSE
