SPECIFICATION DirectoriesSpec
CONSTANTS
    DirFormats = {"fat"}
    Units = 4
    DirEntries <- MCDirEntries
    MaxEntries = 2
    Limits = {4}
INVARIANT
    LongNames
CHECK_DEADLOCK FALSE
