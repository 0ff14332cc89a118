SPECIFICATION Spec
CONSTANTS
    Archives <- SmallArchives
    NameLen <- MCNameLen
    Cut <- MCCut
    RAMFS_MAX_CHILDREN = 3
    FIRST_CAPACITY = 1
    MAX_FILES_PER_PROCESS = 5
    MAX_FD = 4
    Procs = {p1}
    Paths <- MCPaths
    Writes <- MCWrites
    ReadSizes = {1, 2}
    MaxPos = 6
INVARIANT OpenFindsFile
CHECK_DEADLOCK FALSE
