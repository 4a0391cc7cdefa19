SPECIFICATION FatSpec
CONSTANTS
    FatBits = {16}
    Clusters = 3
    SPC = 1
    DirSlots = 2
    FileNames = {"f", "g"}
    FatNodes = {1, 2}
    MaxSectors = 2
    MaxFaults = 0
    MaxCrashes = 0
INVARIANT Extends
CHECK_DEADLOCK FALSE
