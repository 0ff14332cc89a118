------------------------------- MODULE Memory --------------------------------
(***************************************************************************)
(* Physical frames and address spaces: init_bitmap, pmm_alloc, map_page,   *)
(* the memory of a new process (create_elf_process), SC_MMAP, SC_MUNMAP    *)
(* and the growth of the user stack in the page fault handler.             *)
(*                                                                         *)
(* A frame is named by its number and a user page by its virtual page      *)
(* number.  All of this runs with interrupts off, or in kmain before there *)
(* is a second thread that allocates, so a call is one step.  Nothing      *)
(* calls pmm_free: frames are only ever taken.                             *)
(***************************************************************************)
EXTENDS Integers, Sequences, FiniteSetsExt

CONSTANTS
    PAGE_SIZE,          \* bytes in a page
    UINT32,             \* the values of a uint32_t: 2^32
    BITS,               \* bits in a byte of the bitmap
    ENTRIES,            \* entries of a page table
    MemMaps,            \* memory maps: sequences of [base, length, type]
    Procs,
    Segments,           \* the pages of the two PT_LOAD segments of a program
    USR_HEAP_BASE, USR_STACK_BASE,              \* page numbers
    num_stack_pages, nb_stack_page,             \* 6 and 4 in create_elf_process
    StackPages,         \* pages below USR_STACK_BASE the stack may grow to: 16
    MmapPages,          \* what SC_MMAP is called with in rsi
    MaxHeapPages,       \* bound: pages SC_MMAP reaches above USR_HEAP_BASE
    MaxKheap            \* bound: frames of the kernel heap

VARIABLES
    memmap,             \* what the boot loader reported
    total_pages,        \* counted by init_bitmap, the search bound of pmm_alloc
    bitmap,             \* frames whose bit is set
    procs,              \* memory of the processes created so far
    heap_end,           \* process_t.heap_end
    mmapped,            \* ghost: the pages SC_MMAP has returned to each process
    overflowed,         \* ghost: processes that got more bytes than a uint32_t counts
    kheap,              \* frames the kernel took for its heap and its tables
    status              \* "run", or why the machine stopped

heapVars == <<heap_end, mmapped, overflowed>>
vars == <<memmap, total_pages, bitmap, procs, heapVars, kheap, status>>

-----------------------------------------------------------------------------
(* init_bitmap.                                                            *)

get_highest_phys_addr(mm) ==
    Max({0} \cup {mm[i].base + mm[i].length : i \in {j \in DOMAIN mm : mm[j].type # "reserved"}})

bitmap_size(mm) == (get_highest_phys_addr(mm) \div PAGE_SIZE) \div BITS

\* The entry that the bitmap is put at the start of.
Host(mm) == Min({i \in DOMAIN mm : mm[i].type = "usable" /\ mm[i].length >= bitmap_size(mm)})

\* Faulty variant: the bitmap's bytes are left in the map.
AfterBitmap_forgotten(mm) == mm

\* The map without the bytes of the bitmap.
AfterBitmap(mm) ==
    [mm EXCEPT ![Host(mm)].base = @ + bitmap_size(mm),
               ![Host(mm)].length = @ - bitmap_size(mm)]

\* The frames of an entry whose bit is cleared, one for every page of its length.
FramesOf(e) == {(e.base + k * PAGE_SIZE) \div PAGE_SIZE :
                    k \in {j \in 0 .. e.length : j * PAGE_SIZE < e.length}}

UsableIn(mm) == {i \in DOMAIN mm : mm[i].type = "usable"}

\* Faulty variant: every entry is cleared.
FreeAtBoot_all(mm) == UNION {FramesOf(AfterBitmap(mm)[i]) : i \in DOMAIN mm}

FreeAtBoot(mm) == UNION {FramesOf(AfterBitmap(mm)[i]) : i \in UsableIn(mm)}

\* One for every bit cleared.
usable_pages(mm) ==
    Cardinality(UNION {{i} \X FramesOf(AfterBitmap(mm)[i]) : i \in UsableIn(mm)})

\* The frames that hold bytes of the bitmap, and the one it only fills in part.
BitmapFrames(mm) ==
    LET at == mm[Host(mm)].base IN
    {b \div PAGE_SIZE : b \in at .. (at + bitmap_size(mm) - 1)}

TailFrame(mm) ==
    LET end == mm[Host(mm)].base + bitmap_size(mm) IN
    IF end % PAGE_SIZE = 0 THEN {} ELSE {end \div PAGE_SIZE}

MemMapEntries == [base : Nat, length : Nat, type : {"usable", "reserved", "other"}]

\* Entries begin and end on page boundaries, usable ones do not overlap (the boot
\* loader sees to that), and the bitmap has room.  The bits of the frames pmm_alloc
\* looks at fit into the whole pages of the bitmap: on a PC the frame buffer lies far
\* above the usable memory.
ASSUME MapAssumption == \A mm \in MemMaps :
    /\ mm \in Seq(MemMapEntries)
    /\ \A i \in DOMAIN mm : mm[i].base % PAGE_SIZE = 0 /\ mm[i].length % PAGE_SIZE = 0
    /\ \A i, j \in UsableIn(mm) : i # j =>
        \/ mm[i].base + mm[i].length <= mm[j].base
        \/ mm[j].base + mm[j].length <= mm[i].base
    /\ \E i \in DOMAIN mm : mm[i].type = "usable" /\ mm[i].length >= bitmap_size(mm)
    /\ usable_pages(mm) <= (bitmap_size(mm) \div PAGE_SIZE) * PAGE_SIZE * BITS

-----------------------------------------------------------------------------
(* Frames and page tables.  A process at work on its memory is a record of *)
(* the bitmap, its top table, the lower tables by level and virtual        *)
(* prefix, its pages, its kernel stack and how the work goes.              *)

\* The stack has the pages its top is computed from; the heap stays below the stack;
\* 2^32 bytes are whole pages.
ASSUME LayoutAssumption ==
    /\ PAGE_SIZE \in Nat \ {0} /\ UINT32 \in Nat \ {0} /\ UINT32 % PAGE_SIZE = 0
    /\ num_stack_pages \in Nat \ {0} /\ nb_stack_page \in 1 .. num_stack_pages
    /\ Segments \in Seq(Int) /\ MmapPages \subseteq Nat
    /\ USR_HEAP_BASE \in Int /\ USR_STACK_BASE \in Int /\ StackPages \in Int /\ MaxHeapPages \in Int
    /\ USR_HEAP_BASE + MaxHeapPages <= USR_STACK_BASE - StackPages

FreeFrames(b) == (1 .. (total_pages - 1)) \ b

NULL == 0

\* pmm_alloc: the first frame whose bit is clear, or NULL.
pmm_alloc(b) == IF FreeFrames(b) = {} THEN NULL ELSE Min(FreeFrames(b))

\* The bitmap after pmm_alloc returned f.
Taken(b, f) == b \cup {f}

\* f with x mapped to y.
With(f, x, y) == [z \in DOMAIN f \cup {x} |-> IF z = x THEN y ELSE f[z]]

\* alloc_page_table for the entry of page v in the table of the given level.
AddTable(m, level, v) ==
    LET at == <<level, v \div (ENTRIES ^ level)>>
        f == pmm_alloc(m.bitmap)
    IN  IF m.status # "run" \/ at \in DOMAIN m.tables THEN m
        ELSE IF f = NULL THEN [m EXCEPT !.status = "panic"]
        ELSE [m EXCEPT !.bitmap = Taken(@, f), !.tables = With(@, at, f)]

map_page(m, v, f) ==
    LET t == AddTable(AddTable(AddTable(m, 3, v), 2, v), 1, v) IN
    IF t.status = "run" THEN [t EXCEPT !.pages = With(@, v, f)] ELSE t

\* pmm_alloc and map_page, as the loops of load_elf_binary, create_elf_process and
\* sys_alloc_pages do for each page.
MapNew(m, v) ==
    LET f == pmm_alloc(m.bitmap) IN
    IF m.status # "run" THEN m
    ELSE IF f = NULL THEN [m EXCEPT !.status = "oom"]
    ELSE map_page([m EXCEPT !.bitmap = Taken(@, f)], v, f)

\* The loop over the pages vs.
MapAll(m, vs) ==
    LET done[i \in 0 .. Len(vs)] == IF i = 0 THEN m ELSE MapNew(done[i - 1], vs[i])
    IN  done[Len(vs)]

\* Faulty variant: a frame is taken between two stack pages, as map_page would.
AddKernelStack_mapped(m) ==
    LET g == pmm_alloc(m.bitmap)
        f == pmm_alloc(Taken(m.bitmap, g))
    IN  IF m.status # "run" THEN m
        ELSE IF f = NULL THEN [m EXCEPT !.status = "oom"]
        ELSE [m EXCEPT !.bitmap = Taken(Taken(@, g), f), !.kstack = Append(@, f)]

AddKernelStack(m) ==
    LET f == pmm_alloc(m.bitmap) IN
    IF m.status # "run" THEN m
    ELSE IF f = NULL THEN [m EXCEPT !.status = "oom"]
    ELSE [m EXCEPT !.bitmap = Taken(@, f), !.kstack = Append(@, f)]

KernelStack(m) ==
    LET done[i \in 0 .. num_stack_pages] == IF i = 0 THEN m ELSE AddKernelStack(done[i - 1])
    IN  done[num_stack_pages]

UserStack == [i \in 1 .. num_stack_pages |-> USR_STACK_BASE - (i - 1)]

NoMap == [x \in {} |-> NULL]

\* load_elf_binary does not look at the result of its first pmm_alloc.
NewSpace ==
    LET f == pmm_alloc(bitmap) IN
    [bitmap |-> Taken(bitmap, f), pml4 |-> f, tables |-> NoMap, pages |-> NoMap,
     kstack |-> <<>>, status |-> "run"]

create_elf_process == KernelStack(MapAll(NewSpace, Segments \o UserStack))

\* What the process keeps of the record.
Saved(m) == [pml4 |-> m.pml4, tables |-> m.tables, pages |-> m.pages, kstack |-> m.kstack]

-----------------------------------------------------------------------------
Frames(mm) == 0 .. ((get_highest_phys_addr(mm) \div PAGE_SIZE) - 1)

Init ==
    /\ memmap \in MemMaps
    /\ total_pages = usable_pages(memmap)
    /\ bitmap = Frames(memmap) \ FreeAtBoot(memmap)
    /\ procs = NoMap
    /\ heap_end = NoMap
    /\ mmapped = NoMap
    /\ overflowed = {}
    /\ kheap = {}
    /\ status = "run"

\* execute_elf: a process, or -1 with the frames taken so far lost, or a panic in
\* map_page.
ExecuteElf(p) ==
    LET m == create_elf_process IN
    /\ status = "run"
    /\ p \notin DOMAIN procs
    /\ bitmap' = m.bitmap
    /\ IF m.status = "run"
       THEN /\ procs' = With(procs, p, Saved(m))
            /\ heap_end' = With(heap_end, p, USR_HEAP_BASE)
            /\ mmapped' = With(mmapped, p, {})
       ELSE UNCHANGED <<procs, heap_end, mmapped>>
    /\ status' = IF m.status = "panic" THEN "panic" ELSE "run"
    /\ UNCHANGED <<memmap, total_pages, overflowed, kheap>>

\* Process p as map_page sees it, and what becomes of it.
Space(p) == [bitmap |-> bitmap, pml4 |-> procs[p].pml4, tables |-> procs[p].tables,
             pages |-> procs[p].pages, kstack |-> procs[p].kstack, status |-> "run"]

Store(p, m) ==
    /\ bitmap' = m.bitmap
    /\ procs' = [procs EXCEPT ![p] = Saved(m)]

\* pages * PAGE_SIZE, in 32 bits.
ByteCount(n) == (n * PAGE_SIZE) % UINT32

\* The loop counts in 64 bits, what heap_end grows by is counted in 32.  Pages mapped
\* before memory ran out stay mapped above heap_end.
sys_alloc_pages(p, n) ==
    LET m == MapAll(Space(p), [i \in 1 .. n |-> heap_end[p] + i - 1]) IN
    /\ Store(p, m)
    /\ IF m.status = "run"
       THEN /\ heap_end' = [heap_end EXCEPT ![p] = @ + (ByteCount(n) \div PAGE_SIZE)]
            /\ mmapped' = [mmapped EXCEPT ![p] = @ \cup (heap_end[p] .. (heap_end[p] + n - 1))]
            /\ overflowed' = IF n * PAGE_SIZE < UINT32 THEN overflowed ELSE overflowed \cup {p}
       ELSE UNCHANGED heapVars
    /\ status' = IF m.status = "panic" THEN "panic" ELSE "run"

\* The parameter of sys_alloc_pages is a uint32_t; with 0 pages nothing happens.
SysAllocPages(p) ==
    /\ status = "run"
    /\ \E rsi \in MmapPages :
        LET pages == rsi % UINT32 IN
        /\ heap_end[p] + pages <= USR_HEAP_BASE + MaxHeapPages
        /\ sys_alloc_pages(p, pages)
    /\ UNCHANGED <<memmap, total_pages, kheap>>

\* sys_free_pages calls kfree on page v: the header it looks at is in the page
\* below.  If that is not mapped the kernel faults; if the byte for is_free is not
\* zero nothing happens; else user memory joins the kernel's free list, after which
\* nothing more is modelled.
SysFreePages(p) == \E v \in mmapped[p] :
    /\ status = "run"
    /\ status' \in IF (v - 1) \in DOMAIN procs[p].pages THEN {"run", "foreign"} ELSE {"fault"}
    /\ UNCHANGED <<memmap, total_pages, bitmap, procs, heapVars, kheap>>

\* Faulty variant: a page that is present is replaced.
StackFault_present(p, v) ==
    USR_STACK_BASE - StackPages <= v /\ v < USR_STACK_BASE

\* The faults page_fault_handler_c repairs.
StackFault(p, v) ==
    /\ v \notin DOMAIN procs[p].pages
    /\ USR_STACK_BASE - StackPages <= v /\ v < USR_STACK_BASE

PageFault(p) == \E v \in (USR_STACK_BASE - StackPages) .. USR_STACK_BASE :
    LET m == MapNew(Space(p), v) IN
    /\ status = "run"
    /\ StackFault(p, v)
    /\ Store(p, m)
    /\ status' = CASE m.status = "oom" -> "fault" [] OTHER -> m.status
    /\ UNCHANGED <<memmap, total_pages, heapVars, kheap>>

\* Any other fault, also one of the kernel itself on a stack page that is not there
\* yet, ends in unhandled_page_fault.
UnhandledFault(p) == \E v \in (USR_STACK_BASE - StackPages) .. USR_STACK_BASE :
    /\ status = "run"
    /\ v \notin DOMAIN procs[p].pages
    /\ status' = "fault"
    /\ UNCHANGED <<memmap, total_pages, bitmap, procs, heapVars, kheap>>

\* heap_expand takes a frame for the kernel heap, or kmalloc panics.
HeapExpand ==
    LET f == pmm_alloc(bitmap) IN
    /\ status = "run"
    /\ Cardinality(kheap) < MaxKheap
    /\ IF f = NULL
       THEN status' = "panic" /\ UNCHANGED <<bitmap, kheap>>
       ELSE /\ bitmap' = Taken(bitmap, f)
            /\ kheap' = kheap \cup {f}
            /\ UNCHANGED status
    /\ UNCHANGED <<memmap, total_pages, procs, heapVars>>

Next ==
    \/ HeapExpand
    \/ \E p \in Procs : ExecuteElf(p)
    \/ \E p \in DOMAIN procs : SysAllocPages(p) \/ SysFreePages(p) \/ PageFault(p)
                               \/ UnhandledFault(p)

Spec == Init /\ [][Next]_vars

-----------------------------------------------------------------------------
(* Properties.                                                             *)

\* The frames that lie in an entry the boot loader called usable.
UsableFrames(mm) == {f \in Frames(mm) : \E i \in UsableIn(mm) :
    mm[i].base <= f * PAGE_SIZE /\ (f + 1) * PAGE_SIZE <= mm[i].base + mm[i].length}

OwnedBy(s) == {s.pml4} \cup Range(s.tables) \cup Range(s.pages) \cup Range(s.kstack)

FramesOwned(p) == OwnedBy(procs[p])

\* No two of the top table, the lower tables, the pages and the stack share a frame.
OneUse(s) ==
    /\ IsInjective(s.tables) /\ IsInjective(s.pages) /\ IsInjective(s.kstack)
    /\ s.pml4 \notin Range(s.tables) \cup Range(s.pages) \cup Range(s.kstack)
    /\ Range(s.tables) \cap Range(s.pages) = {}
    /\ Range(s.kstack) \cap (Range(s.tables) \cup Range(s.pages)) = {}

\* A frame that pmm_alloc returned has one use: a page, a page table or a stack page
\* of one process, or the kernel heap.  No use gets memory the map does not call
\* usable.
FramesDisjoint ==
    /\ \A p \in DOMAIN procs :
        /\ OneUse(procs[p])
        /\ FramesOwned(p) \cap kheap = {}
        /\ FramesOwned(p) \subseteq UsableFrames(memmap)
        /\ \A q \in DOMAIN procs \ {p} : FramesOwned(p) \cap FramesOwned(q) = {}
    /\ kheap \subseteq UsableFrames(memmap)

\* create_elf_process takes the frame below one it was given for part of the same
\* kernel stack.  The nb_stack_page frames below kernel_stack_top are the process's
\* own, or frames pmm_alloc never hands out (no memory, or the bitmap): never another
\* process's.
KernelStackOwn == \A p \in DOMAIN procs : \A i \in 0 .. (nb_stack_page - 1) :
    LET f == procs[p].kstack[nb_stack_page] - i IN
    f \in Range(procs[p].kstack) \/ f \notin FreeAtBoot(memmap)

\* init_bitmap lets pmm_alloc hand out a frame with bytes of the bitmap in it only if
\* the bitmap ends in the middle of that frame.
BitmapOverlapOnlyTail ==
    ((UNION {FramesOwned(p) : p \in DOMAIN procs}) \cup kheap) \cap BitmapFrames(memmap)
        \subseteq TailFrame(memmap)

\* The pages SC_MMAP returned to a process are mapped.
MmappedThere == \A p \in DOMAIN procs : mmapped[p] \subseteq DOMAIN procs[p].pages

\* Memory does not change under a process: the pages SC_MMAP returned are mapped after
\* every step, and a page keeps its frame, unless it is one between heap_end and the
\* stack that a failed SC_MMAP left behind.  A page that SC_MMAP returned lies there, and
\* loses its contents to a later SC_MMAP, only after a request of 2^32 bytes or more,
\* which moves heap_end by what is left of the product in 32 bits (syscall.c:187).
MappingStable == [][
    /\ MmappedThere'
    /\ \A p \in DOMAIN procs : \A v \in DOMAIN procs[p].pages :
        \/ procs'[p].pages[v] = procs[p].pages[v]
        \/ /\ heap_end[p] <= v /\ v < USR_STACK_BASE - StackPages
           /\ v \in mmapped[p] => p \in overflowed]_vars

=============================================================================
