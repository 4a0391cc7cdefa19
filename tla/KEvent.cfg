SPECIFICATION TimerSpec
CONSTANTS
    t1 = t1
    t2 = t2
    t3 = t3
    NoThread = NoThread
    KEVENT_MAX = 2
    Threads <- MCThreads
    Leader <- MCLeader
    Timeouts <- MCTimeouts
    TIMEOUT_CLAMP = 1
    MaxTick = 1
    
PROPERTIES    TimedWaitEnds
CHECK_DEADLOCK FALSE
