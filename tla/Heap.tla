-------------------------------- MODULE Heap ---------------------------------
(***************************************************************************)
(* The kernel heap: kmalloc, kfree, krealloc and heap_expand.              *)
(*                                                                         *)
(* A block is named by the address of its header; size[b] counts the bytes *)
(* after the header, as in the code.  heap_free_list is the sequence the   *)
(* next pointers spell, head first.  safe_lock disables interrupts and     *)
(* there is one processor, so a call is one step; krealloc is two, because *)
(* it releases the lock between its kmalloc and its kfree.                 *)
(***************************************************************************)
EXTENDS Integers, Sequences, FiniteSets

CONSTANTS
    KERNEL_HEAP_START,
    HEAP_INIT_PAGES,
    Sizes,              \* the sizes callers ask for
    MaxFrames,          \* bound: physical frames left after heap_init
    MaxBlocks           \* bound: blocks, after which kmalloc is not called

ASSUME HeapAssumption ==
    /\ KERNEL_HEAP_START \in Nat
    /\ HEAP_INIT_PAGES \in Nat
    /\ Sizes \subseteq Nat \ {0}
    /\ MaxFrames \in Nat /\ MaxBlocks \in Nat

PAGE_SIZE == 4096
HEADER == 24            \* sizeof(heap_header_t)
NULL == -1

VARIABLES
    size, is_free,      \* the headers, by block
    heap_free_list,
    heap_current_limit,
    frames,             \* frames pmm_alloc can still find
    held,               \* what callers hold: [ptr |-> , len |-> bytes asked for]
    realloc,            \* the region krealloc copied and has yet to free, if any
    freed,              \* the pointer freed last, while nothing was allocated since
    panicked

heapVars == <<size, is_free, heap_free_list, heap_current_limit, frames>>
vars == <<heapVars, held, realloc, freed, panicked>>

Blocks == DOMAIN size
Region(p, n) == [ptr |-> p, len |-> n]

\* The pages heap_expand(n) maps.
PagesFor(n) == (n + HEADER + PAGE_SIZE - 1) \div PAGE_SIZE

\* heap_init
Init ==
    LET bytes == PagesFor(HEAP_INIT_PAGES * PAGE_SIZE) * PAGE_SIZE IN
    /\ heap_current_limit = KERNEL_HEAP_START + bytes
    /\ size = [b \in {KERNEL_HEAP_START} |-> bytes - HEADER]
    /\ is_free = [b \in {KERNEL_HEAP_START} |-> TRUE]
    /\ heap_free_list = <<KERNEL_HEAP_START>>
    /\ frames \in 0 .. MaxFrames
    /\ held = {} /\ realloc = {} /\ freed = NULL
    /\ panicked = FALSE

-----------------------------------------------------------------------------
\* (n + 15) & ~15
RoundUp(n) == ((n + 15) \div 16) * 16

Without(list, i) == SubSeq(list, 1, i - 1) \o SubSeq(list, i + 1, Len(list))

FirstFit(n, i) ==
    /\ size[heap_free_list[i]] >= n
    /\ \A j \in 1 .. (i - 1) : size[heap_free_list[j]] < n

NoFit(n) == \A i \in 1 .. Len(heap_free_list) : size[heap_free_list[i]] < n

\* Block b is cut at c, which becomes the block of the remaining m bytes.
Cut(b, n, c, m) ==
    /\ size' = [x \in Blocks \cup {b, c} |->
                   CASE x = b -> n [] x = c -> m [] OTHER -> size[x]]
    /\ is_free' = [x \in Blocks \cup {b, c} |->
                      CASE x = b -> FALSE [] x = c -> TRUE [] OTHER -> is_free[x]]

Whole(b, n) ==
    /\ size' = [x \in Blocks \cup {b} |-> IF x = b THEN n ELSE size[x]]
    /\ is_free' = [x \in Blocks \cup {b} |-> IF x = b THEN FALSE ELSE is_free[x]]

\* Faulty variants: the rest's size forgets its header; the rest never gets onto
\* the free list.
Carve_no_header(b, total, n, list) ==
    IF total >= n + HEADER + 16
    THEN /\ Cut(b, n, b + HEADER + n, total - n)
         /\ heap_free_list' = <<b + HEADER + n>> \o list
    ELSE Whole(b, total) /\ heap_free_list' = list

Carve_lost_rest(b, total, n, list) ==
    /\ IF total >= n + HEADER + 16
       THEN Cut(b, n, b + HEADER + n, total - n - HEADER) ELSE Whole(b, total)
    /\ heap_free_list' = list

\* The block at b, with total bytes behind its header, is used for n bytes; what
\* is left becomes a block at the head of the free list if it is worth one.
Carve(b, total, n, list) ==
    IF total >= n + HEADER + 16
    THEN /\ Cut(b, n, b + HEADER + n, total - n - HEADER)
         /\ heap_free_list' = <<b + HEADER + n>> \o list
    ELSE Whole(b, total) /\ heap_free_list' = list

HandOut(b, u) == held' = held \cup {Region(b + HEADER, u)}

\* kmalloc finds a block on the free list.
KmallocReuse(u) == \E i \in 1 .. Len(heap_free_list) :
    LET b == heap_free_list[i] IN
    /\ FirstFit(RoundUp(u), i)
    /\ Carve(b, size[b], RoundUp(u), Without(heap_free_list, i))
    /\ HandOut(b, u)
    /\ UNCHANGED <<heap_current_limit, frames>>

\* kmalloc grows the heap; its block starts at the old limit.
KmallocGrow(u) ==
    LET pages == PagesFor(RoundUp(u) + HEADER) IN
    /\ NoFit(RoundUp(u))
    /\ frames >= pages
    /\ frames' = frames - pages
    /\ heap_current_limit' = heap_current_limit + pages * PAGE_SIZE
    /\ Carve(heap_current_limit, pages * PAGE_SIZE - HEADER, RoundUp(u),
             heap_free_list)
    /\ HandOut(heap_current_limit, u)

kmalloc(u) ==
    /\ Cardinality(Blocks) < MaxBlocks
    /\ KmallocReuse(u) \/ KmallocGrow(u)

\* Faulty variant: a free block is pushed again.
kfree_unguarded(p) ==
    LET header == p - HEADER IN
    /\ is_free' = [is_free EXCEPT ![header] = TRUE]
    /\ heap_free_list' = <<header>> \o heap_free_list
    /\ UNCHANGED <<size, heap_current_limit, frames>>

kfree(p) ==
    LET header == p - HEADER IN
    IF is_free[header]
    THEN UNCHANGED heapVars
    ELSE /\ is_free' = [is_free EXCEPT ![header] = TRUE]
         /\ heap_free_list' = <<header>> \o heap_free_list
         /\ UNCHANGED <<size, heap_current_limit, frames>>

-----------------------------------------------------------------------------
(* Callers.                                                                *)

Kmalloc ==
    /\ ~panicked
    /\ \E u \in Sizes : kmalloc(u)
    /\ freed' = NULL
    /\ UNCHANGED <<realloc, panicked>>

\* heap_expand runs out of frames on its way: the limit has moved, kmalloc stops.
KmallocPanic ==
    /\ ~panicked
    /\ \E u \in Sizes :
         /\ NoFit(RoundUp(u))
         /\ frames < PagesFor(RoundUp(u) + HEADER)
    /\ heap_current_limit' = heap_current_limit + frames * PAGE_SIZE
    /\ frames' = 0
    /\ panicked' = TRUE
    /\ UNCHANGED <<size, is_free, heap_free_list, held, realloc, freed>>

Kfree == \E r \in held :
    /\ ~panicked
    /\ r \notin realloc
    /\ kfree(r.ptr)
    /\ held' = held \ {r}
    /\ freed' = r.ptr
    /\ UNCHANGED <<realloc, panicked>>

\* list_remove_at frees the data of a node twice in a row.
KfreeAgain ==
    /\ ~panicked
    /\ freed # NULL
    /\ kfree(freed)
    /\ UNCHANGED <<held, realloc, freed, panicked>>

\* krealloc up to its memcpy, and its kfree.
Krealloc == \E r \in held, u \in Sizes :
    /\ ~panicked
    /\ realloc = {}
    /\ kmalloc(u)
    /\ realloc' = {r}
    /\ freed' = NULL
    /\ UNCHANGED panicked

KreallocFree == \E r \in realloc :
    /\ ~panicked
    /\ kfree(r.ptr)
    /\ held' = held \ {r}
    /\ freed' = r.ptr
    /\ realloc' = {}
    /\ UNCHANGED panicked

\* pmm_alloc for somebody else.
FrameTaken ==
    /\ ~panicked
    /\ frames > 0
    /\ frames' = frames - 1
    /\ UNCHANGED <<size, is_free, heap_free_list, heap_current_limit, held, realloc,
                   freed, panicked>>

Next == Kmalloc \/ KmallocPanic \/ Kfree \/ KfreeAgain \/ Krealloc \/ KreallocFree
        \/ FrameTaken

Spec == Init /\ [][Next]_vars

-----------------------------------------------------------------------------
(* Properties.                                                             *)

Regions == [ptr : Nat, len : Nat \ {0}]

\* Every variable of kmalloc.c and heap.c has its type: headers are only read at
\* addresses where one was written.
TypeOK ==
    /\ Blocks \subseteq Nat
    /\ size \in [Blocks -> Nat]
    /\ is_free \in [Blocks -> BOOLEAN]
    /\ heap_free_list \in Seq(Blocks)
    /\ heap_current_limit \in Nat
    /\ frames \in Nat
    /\ held \subseteq Regions
    /\ realloc \subseteq held
    /\ freed \in {b + HEADER : b \in Blocks} \cup {NULL}
    /\ panicked \in BOOLEAN

End(b) == b + HEADER + size[b]

\* The blocks cut by kmalloc's two splits and by heap_expand tile the heap: they do
\* not overlap, each ends where another starts or at heap_current_limit, and no byte
\* between KERNEL_HEAP_START and the limit is lost.
BlocksTile ==
    /\ KERNEL_HEAP_START \in Blocks
    /\ \A b \in Blocks :
        /\ KERNEL_HEAP_START <= b
        /\ End(b) <= heap_current_limit
        /\ End(b) \in Blocks \/ End(b) = heap_current_limit \/ panicked
        /\ \A c \in Blocks : b < c => End(b) <= c

\* heap_free_list is a list of exactly the blocks whose header says is_free, each of
\* them once: no block is handed out twice and none is lost to kmalloc, also when
\* list_remove_at frees a pointer twice.
FreeListExact ==
    /\ {heap_free_list[i] : i \in 1 .. Len(heap_free_list)} = {b \in Blocks : is_free[b]}
    /\ \A i, j \in 1 .. Len(heap_free_list) :
        i # j => heap_free_list[i] # heap_free_list[j]

\* kmalloc never hands out bytes that a caller of kmalloc or krealloc still holds.
A == INSTANCE Allocator WITH live <- held, Low <- KERNEL_HEAP_START
ImplementsAllocator == A!Spec
=============================================================================
