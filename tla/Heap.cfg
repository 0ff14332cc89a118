SPECIFICATION Spec
CONSTANTS
    KERNEL_HEAP_START = 4096
    HEAP_INIT_PAGES = 1
    Sizes <- MCSizes
    MaxFrames = 5
    MaxBlocks = 5
INVARIANTS BlocksTile FreeListExact
PROPERTY ImplementsAllocator
CHECK_DEADLOCK FALSE
