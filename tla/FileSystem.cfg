SPECIFICATION Spec
CONSTANTS
    Archives <- MCArchives
    NameLen <- MCNameLen
    Cut <- MCCut
    RAMFS_MAX_CHILDREN = 3
    FIRST_CAPACITY = 1
    MAX_FILES_PER_PROCESS = 5
    MAX_FD = 4
    Procs = {p1}
    Paths <- MCPaths
    Writes <- MCWrites
    ReadSizes = {1, 2}
    MaxPos = 7
INVARIANTS TreeSound ArchiveUnpacked ElfImageWhole
PROPERTY WriteExact
CHECK_DEADLOCK FALSE
