SPECIFICATION Spec
CONSTANTS
    PAGE_SIZE = 4
    UINT32 = 16
    BITS = 8
    ENTRIES = 8
    MemMaps <- MCMemMaps
    Procs = {p1, p2}
    Segments <- MCSegments
    USR_HEAP_BASE = 4
    USR_STACK_BASE = 60
    num_stack_pages = 3
    nb_stack_page = 2
    StackPages = 4
    MmapPages = {2, 5, 17}
    MaxHeapPages = 6
    MaxKheap = 1
SYMMETRY ProcSymmetry
INVARIANTS FramesDisjoint KernelStackOwn BitmapOverlapOnlyTail
PROPERTY MappingStable
CHECK_DEADLOCK FALSE
