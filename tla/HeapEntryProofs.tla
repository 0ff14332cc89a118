--------------------------- MODULE HeapEntryProofs --------------------------
(***************************************************************************)
(* Two parts of the kernel.  The heap: its invariants and its refinement   *)
(* of Allocator, for every request, every heap size and any number of      *)
(* blocks.  The entries into the kernel: what they leave on the stacks and *)
(* in the GS registers, for any number of threads.                         *)
(***************************************************************************)
EXTENDS Heap, Entry, SequenceTheorems, TLAPS

\* l lists the members of S, each once.
Lists(l, S) ==
    /\ l \in Seq(S)
    /\ \A i, j \in 1 .. Len(l) : i # j => l[i] # l[j]
    /\ \A b \in S : \E i \in 1 .. Len(l) : l[i] = b

FreeBlocks == {b \in Blocks : is_free[b]}

\* A caller's region lies in a block of its own that is not free.
HeldBacked ==
    /\ \A r \in held : /\ r.ptr - HEADER \in Blocks
                       /\ ~is_free[r.ptr - HEADER]
                       /\ r.len <= size[r.ptr - HEADER]
    /\ \A r, s \in held : r.ptr = s.ptr => r = s

\* The pointer freed last still names a free block.
FreedIsFree ==
    /\ freed \in Int
    /\ freed # NULL => freed - HEADER \in Blocks /\ is_free[freed - HEADER]

\* TypeOK but for what Lists and FreedIsFree say.
Typed ==
    /\ Blocks \subseteq Nat
    /\ size \in [Blocks -> Nat]
    /\ is_free \in [Blocks -> BOOLEAN]
    /\ heap_current_limit \in Nat
    /\ frames \in Nat
    /\ held \subseteq Regions
    /\ realloc \subseteq held
    /\ panicked \in BOOLEAN

IInv ==
    /\ Typed
    /\ BlocksTile
    /\ Lists(heap_free_list, FreeBlocks)
    /\ HeldBacked
    /\ FreedIsFree

-----------------------------------------------------------------------------
(* Arithmetic and lists.                                                   *)

\* kmalloc rounds a size up, never down.
LEMMA RoundUpGrows ==
    ASSUME NEW u \in Nat \ {0}
    PROVE  RoundUp(u) \in Nat /\ RoundUp(u) >= u
BY SMT DEF RoundUp

\* heap_expand maps room for what is asked and one header more.
LEMMA PagesSuffice ==
    ASSUME NEW n \in Nat
    PROVE  PagesFor(n) \in Nat /\ PagesFor(n) * PAGE_SIZE >= n + HEADER
BY SMT DEF PagesFor, PAGE_SIZE, HEADER

\* Unlinking one element of the free list leaves a list of the others.
LEMMA UnlinkLists ==
    ASSUME NEW S, NEW l, Lists(l, S), NEW i \in 1 .. Len(l)
    PROVE  Lists(Without(l, i), S \ {l[i]})
<1> DEFINE T == S \ {l[i]}
           a == SubSeq(l, 1, i - 1)
           z == SubSeq(l, i + 1, Len(l))
<1>1. /\ l \in Seq(S) /\ Len(l) \in Nat /\ i \in Nat /\ i >= 1 /\ i <= Len(l)
      /\ \A j \in 1 .. Len(l) : l[j] \in S
  BY LenProperties, ElementOfSeq DEF Lists
<1>2. \A j \in 1 .. Len(l) : j # i => l[j] \in T
  <2> SUFFICES ASSUME NEW j \in 1 .. Len(l), j # i PROVE l[j] \in T
    BY Zenon
  <2>1. l[j] # l[i]
    BY Zenon DEF Lists
  <2>2. l[j] \in S
    BY ONLY <1>1, j \in 1 .. Len(l), Zenon
  <2> QED BY ONLY <2>1, <2>2, Zenon DEF T
<1>3. /\ a \in Seq(T) /\ Len(a) = i - 1
      /\ \A j \in 1 .. (i - 1) : a[j] = l[j]
  <2>1. \A j \in 1 .. (i - 1) : l[j] \in T
    BY <1>1, <1>2
  <2>2. i - 1 \in Int /\ 1 \in Int
    BY <1>1
  <2> HIDE DEF T
  <2> QED BY <2>1, <2>2, <1>1, SubSeqProperties
<1>4. /\ z \in Seq(T) /\ Len(z) = Len(l) - i
      /\ \A j \in 1 .. (Len(l) - i) : z[j] = l[i + j]
  <2>1. \A j \in (i + 1) .. Len(l) : l[j] \in T
    BY <1>1, <1>2
  <2>2. i + 1 \in Int /\ Len(l) \in Int
    BY <1>1
  <2> HIDE DEF T
  <2>3. /\ z \in Seq(T) /\ Len(z) = IF i + 1 <= Len(l) THEN Len(l) - (i + 1) + 1 ELSE 0
        /\ \A j \in 1 .. (Len(l) - (i + 1) + 1) : z[j] = l[i + 1 + j - 1]
    BY <2>1, <2>2, SubSeqProperties
  <2> QED BY <2>3, <1>1
<1> HIDE DEF a, z, T
<1>5. /\ a \o z \in Seq(T) /\ Len(a \o z) = Len(l) - 1
      /\ \A j \in 1 .. (Len(l) - 1) : (a \o z)[j] = IF j < i THEN l[j] ELSE l[j + 1]
  <2>1. a \in Seq(T) /\ z \in Seq(T)
    BY <1>3, <1>4
  <2>2. /\ a \o z \in Seq(T) /\ Len(a \o z) = Len(a) + Len(z)
        /\ \A j \in 1 .. Len(a) + Len(z) :
              (a \o z)[j] = IF j <= Len(a) THEN a[j] ELSE z[j - Len(a)]
    BY <2>1, ConcatProperties
  <2>3. Len(a \o z) = Len(l) - 1
    BY <2>2, <1>1, <1>3, <1>4
  <2>4. ASSUME NEW j \in 1 .. (Len(l) - 1)
        PROVE  (a \o z)[j] = IF j < i THEN l[j] ELSE l[j + 1]
    <3>1. (a \o z)[j] = IF j <= i - 1 THEN a[j] ELSE z[j - (i - 1)]
      BY <2>2, <1>1, <1>3, <1>4
    <3>2. CASE j < i
      <4>1. (a \o z)[j] = a[j] /\ j \in 1 .. (i - 1)
        BY <3>1, <3>2, <1>1
      <4> QED BY <4>1, <3>2, <1>3
    <3>3. CASE ~(j < i)
      <4>1. (a \o z)[j] = z[j - (i - 1)] /\ j - (i - 1) \in 1 .. (Len(l) - i)
        BY <3>1, <3>3, <1>1
      <4>2. z[j - (i - 1)] = l[i + (j - (i - 1))] /\ i + (j - (i - 1)) = j + 1
        BY <4>1, <1>1, <1>4
      <4> QED BY <4>1, <4>2, <3>3
    <3> QED BY <3>2, <3>3
  <2> QED BY <2>2, <2>3, <2>4
<1>6. \A b \in T : \E j \in 1 .. (Len(l) - 1) : (a \o z)[j] = b
  <2> SUFFICES ASSUME NEW b \in T PROVE \E j \in 1 .. (Len(l) - 1) : (a \o z)[j] = b
    OBVIOUS
  <2>1. PICK k \in 1 .. Len(l) : l[k] = b /\ k # i
    BY DEF T, Lists
  <2>2. CASE k < i
    <3>1. k \in 1 .. (Len(l) - 1) /\ (a \o z)[k] = b
      BY <2>1, <2>2, <1>1, <1>5
    <3> QED BY <3>1
  <2>3. CASE k > i
    <3>1. (k - 1) \in 1 .. (Len(l) - 1) /\ ~(k - 1 < i) /\ (k - 1) + 1 = k
      BY <2>1, <2>3, <1>1
    <3>2. (a \o z)[k - 1] = l[(k - 1) + 1]
      BY <3>1, <1>5
    <3> QED BY <3>1, <3>2, <2>1
  <2>4. k < i \/ k > i
    BY <2>1, <1>1
  <2> QED BY <2>2, <2>3, <2>4
<1>7. ASSUME NEW j \in 1 .. (Len(l) - 1), NEW k \in 1 .. (Len(l) - 1), j # k
      PROVE  (a \o z)[j] # (a \o z)[k]
  <2> DEFINE at(m) == IF m < i THEN m ELSE m + 1
  <2>1. /\ (a \o z)[j] = l[at(j)] /\ (a \o z)[k] = l[at(k)]
    BY <1>5
  <2>2. at(j) \in 1 .. Len(l) /\ at(k) \in 1 .. Len(l) /\ at(j) # at(k)
    BY <1>1, <1>7
  <2> HIDE DEF at
  <2> QED BY <2>1, <2>2 DEF Lists
<1> QED BY <1>5, <1>6, <1>7 DEF Lists, Without, a, z, T

\* Pushing a new element at the head lists it as well.
LEMMA PushLists ==
    ASSUME NEW S, NEW l, Lists(l, S), NEW c, c \notin S
    PROVE  Lists(<<c>> \o l, S \cup {c})
<1> DEFINE T == S \cup {c}
<1>1. /\ l \in Seq(S) /\ Len(l) \in Nat /\ \A j \in 1 .. Len(l) : l[j] \in S
  BY LenProperties, ElementOfSeq DEF Lists
<1>2. l \in Seq(T) /\ <<c>> \in Seq(T)
  BY <1>1, SeqMonotonic
<1> HIDE DEF T
<1>3. /\ <<c>> \o l \in Seq(T) /\ Len(<<c>> \o l) = Len(l) + 1
      /\ \A j \in 1 .. (Len(l) + 1) :
            (<<c>> \o l)[j] = IF j = 1 THEN c ELSE l[j - 1]
  <2>1. Len(<<c>>) = 1 /\ <<c>>[1] = c
    OBVIOUS
  <2>2. /\ <<c>> \o l \in Seq(T) /\ Len(<<c>> \o l) = 1 + Len(l)
        /\ \A j \in 1 .. (1 + Len(l)) :
            (<<c>> \o l)[j] = IF j <= 1 THEN <<c>>[j] ELSE l[j - 1]
    BY <1>2, <2>1, ConcatProperties
  <2> QED BY <2>1, <2>2, <1>1
<1>4. \A b \in T : \E j \in 1 .. (Len(l) + 1) : (<<c>> \o l)[j] = b
  <2> SUFFICES ASSUME NEW b \in T PROVE \E j \in 1 .. (Len(l) + 1) : (<<c>> \o l)[j] = b
    OBVIOUS
  <2>1. CASE b = c
    BY <2>1, <1>1, <1>3
  <2>2. CASE b \in S
    <3>1. PICK k \in 1 .. Len(l) : l[k] = b
      BY <2>2 DEF Lists
    <3>2. (k + 1) \in 1 .. (Len(l) + 1) /\ (<<c>> \o l)[k + 1] = b
      BY <3>1, <1>1, <1>3
    <3> QED BY <3>2
  <2> QED BY <2>1, <2>2 DEF T
<1>5. ASSUME NEW j \in 1 .. (Len(l) + 1), NEW k \in 1 .. (Len(l) + 1), j # k
      PROVE  (<<c>> \o l)[j] # (<<c>> \o l)[k]
  <2>1. ASSUME NEW m \in 1 .. (Len(l) + 1), m # 1
        PROVE  m - 1 \in 1 .. Len(l) /\ (<<c>> \o l)[m] = l[m - 1] /\ l[m - 1] # c
    <3>1. m - 1 \in 1 .. Len(l)
      BY <2>1, <1>1
    <3> QED BY <3>1, <2>1, <1>1, <1>3
  <2>2. (<<c>> \o l)[1] = c
    BY <1>1, <1>3
  <2>3. CASE j = 1
    BY <2>1, <2>2, <2>3, <1>5
  <2>4. CASE k = 1
    BY <2>1, <2>2, <2>4, <1>5
  <2>5. CASE j # 1 /\ k # 1
    <3>1. j - 1 # k - 1
      BY <1>5, <1>1
    <3>2. l[j - 1] # l[k - 1]
      BY <3>1, <2>1, <2>5 DEF Lists
    <3> QED BY <3>2, <2>1, <2>5
  <2> QED BY <2>3, <2>4, <2>5
<1> QED BY <1>3, <1>4, <1>5 DEF Lists, T

-----------------------------------------------------------------------------
(* Taking a block.                                                         *)

\* The headers after a block was cut in two.
LEMMA CutHeaders ==
    ASSUME NEW b, NEW n, NEW c, NEW m, b # c, Cut(b, n, c, m)
    PROVE  /\ Blocks' = Blocks \cup {b, c} /\ DOMAIN is_free' = Blocks'
           /\ size'[b] = n /\ size'[c] = m
           /\ is_free'[b] = FALSE /\ is_free'[c] = TRUE
           /\ \A x \in Blocks \ {b, c} : size'[x] = size[x] /\ is_free'[x] = is_free[x]
BY DEF Cut, Blocks

\* The same for a block that is used whole.
LEMMA WholeHeaders ==
    ASSUME NEW b, NEW n, Whole(b, n)
    PROVE  /\ Blocks' = Blocks \cup {b} /\ DOMAIN is_free' = Blocks'
           /\ size'[b] = n /\ is_free'[b] = FALSE
           /\ \A x \in Blocks \ {b} : size'[x] = size[x] /\ is_free'[x] = is_free[x]
BY DEF Whole, Blocks

\* Where kmalloc may put a block of total bytes: at a free block, or at the end.
Room(b, total) ==
    /\ b \in Nat /\ total \in Nat /\ KERNEL_HEAP_START <= b
    /\ heap_current_limit' \in Nat
    /\ b + HEADER + total <= heap_current_limit'
    /\ b + HEADER + total \in Blocks \/ b + HEADER + total = heap_current_limit'
    /\ b \in Blocks => is_free[b]
    /\ \A x \in Blocks : x # b =>
        /\ End(x) <= heap_current_limit'
        /\ End(x) \in Blocks \/ End(x) = b \/ End(x) = heap_current_limit'
        /\ x < b => End(x) <= b
        /\ b < x => b + HEADER + total <= x

\* Carving keeps the headers typed and the heap tiled, and lists the free blocks.
LEMMA CarveKeeps ==
    ASSUME Typed, BlocksTile, NEW b, NEW total, Room(b, total),
           NEW n \in Nat, n <= total, NEW list, Lists(list, FreeBlocks \ {b}),
           Carve(b, total, n, list)
    PROVE  /\ Blocks' \subseteq Nat /\ size' \in [Blocks' -> Nat]
           /\ is_free' \in [Blocks' -> BOOLEAN]
           /\ BlocksTile'
           /\ Lists(heap_free_list', FreeBlocks')
           /\ Blocks \cup {b} \subseteq Blocks' /\ n <= size'[b] /\ ~is_free'[b]
           /\ \A x \in Blocks : x # b => size'[x] = size[x] /\ is_free'[x] = is_free[x]
<1> DEFINE c == b + HEADER + n
           m == total - n - HEADER
<1>1. b \in Nat /\ total \in Nat /\ HEADER = 24 /\ c \in Nat /\ b < c
  BY DEF Room, HEADER
<1>2. \A x \in Blocks : x \in Nat /\ size[x] \in Nat /\ is_free[x] \in BOOLEAN
  BY DEF Typed
<1>3. CASE total >= n + HEADER + 16
  <2>1. Cut(b, n, c, m) /\ heap_free_list' = <<c>> \o list
    BY <1>3 DEF Carve
  <2>2. c \notin Blocks
    BY <1>1, <1>2, <1>3 DEF Room
  <2>3. m \in Nat /\ c + HEADER + m = b + HEADER + total
    BY <1>1, <1>3
  <2> HIDE DEF c, m
  <2>4. /\ Blocks' = Blocks \cup {b, c} /\ DOMAIN is_free' = Blocks'
        /\ size'[b] = n /\ size'[c] = m
        /\ is_free'[b] = FALSE /\ is_free'[c] = TRUE
        /\ \A x \in Blocks : x # b => size'[x] = size[x] /\ is_free'[x] = is_free[x]
    <3>1. b # c
      BY <1>1
    <3>2. /\ Blocks' = Blocks \cup {b, c} /\ DOMAIN is_free' = Blocks'
          /\ size'[b] = n /\ size'[c] = m
          /\ is_free'[b] = FALSE /\ is_free'[c] = TRUE
          /\ \A x \in Blocks \ {b, c} : size'[x] = size[x] /\ is_free'[x] = is_free[x]
      BY <2>1, <3>1, CutHeaders
    <3> QED BY <3>2, <2>2
  <2>5. /\ Blocks' \subseteq Nat
        /\ \A x \in Blocks' : size'[x] \in Nat /\ is_free'[x] \in BOOLEAN
    BY <2>3, <2>4, <1>1, <1>2
  <2>6. size' \in [Blocks' -> Nat] /\ is_free' \in [Blocks' -> BOOLEAN]
    <3>1. size' = [x \in Blocks' |-> size'[x]] /\ is_free' = [x \in Blocks' |-> is_free'[x]]
      BY <2>1, <2>4 DEF Cut, Blocks
    <3> QED BY <3>1, <2>5
  <2>7. FreeBlocks' = (FreeBlocks \ {b}) \cup {c}
    BY <2>2, <2>4, <1>1 DEF FreeBlocks
  <2>8. Lists(heap_free_list', FreeBlocks')
    BY <2>1, <2>2, <2>7, PushLists DEF FreeBlocks
  <2>9. BlocksTile'
    <3>1. /\ End(b)' = c /\ End(c)' = b + HEADER + total
          /\ \A x \in Blocks : x # b => End(x)' = End(x)
      BY <2>2, <2>3, <2>4 DEF End, c
    <3>2. \A x \in Blocks : x # b => x < b \/ (b < x /\ c < x)
      BY <1>1, <1>2, <1>3 DEF Room, c
    <3>3. c < b + HEADER + total /\ b < c /\ c \in Nat
      BY <1>1, <1>3, <2>3 DEF c
    <3>4. \A x \in Blocks' : KERNEL_HEAP_START <= x /\ End(x)' <= heap_current_limit'
      BY <3>1, <3>2, <3>3, <2>4, <1>1, <1>2, HeapAssumption DEF Room, BlocksTile
    <3>5. \A x \in Blocks' : End(x)' \in Blocks' \/ End(x)' = heap_current_limit'
      BY <3>1, <2>4 DEF Room
    <3>6. \A x, y \in Blocks' : x < y => End(x)' <= y
      <4> SUFFICES ASSUME NEW x \in Blocks', NEW y \in Blocks', x < y PROVE End(x)' <= y
        OBVIOUS
      <4>1. CASE x = b
        BY <4>1, <3>1, <3>2, <3>3, <2>4, <1>1, <1>2
      <4>2. CASE x = c
        BY <4>2, <3>1, <3>2, <3>3, <2>4, <1>1, <1>2 DEF Room
      <4>3. CASE x \in Blocks /\ x # b
        <5>1. CASE y = b
          BY <4>3, <5>1, <3>1 DEF Room
        <5>2. CASE y = c
          BY <4>3, <5>2, <3>1, <3>2, <3>3, <1>1, <1>2, HEADER = 24 DEF Room, Typed, End
        <5>3. CASE y \in Blocks /\ y # b
          BY <4>3, <5>3, <3>1 DEF BlocksTile
        <5> QED BY <5>1, <5>2, <5>3, <2>4
      <4> QED BY <4>1, <4>2, <4>3, <2>4
    <3> QED BY <3>4, <3>5, <3>6, <2>4 DEF BlocksTile
  <2> QED BY <2>4, <2>5, <2>6, <2>8, <2>9
<1>4. CASE ~(total >= n + HEADER + 16)
  <2>1. Whole(b, total) /\ heap_free_list' = list
    BY <1>4 DEF Carve
  <2>2. /\ Blocks' = Blocks \cup {b} /\ DOMAIN is_free' = Blocks'
        /\ size'[b] = total /\ is_free'[b] = FALSE
        /\ \A x \in Blocks : x # b => size'[x] = size[x] /\ is_free'[x] = is_free[x]
    BY <2>1, WholeHeaders
  <2>3. /\ Blocks' \subseteq Nat
        /\ \A x \in Blocks' : size'[x] \in Nat /\ is_free'[x] \in BOOLEAN
    BY <2>2, <1>1, <1>2
  <2>4. size' \in [Blocks' -> Nat] /\ is_free' \in [Blocks' -> BOOLEAN]
    <3>1. size' = [x \in Blocks' |-> size'[x]] /\ is_free' = [x \in Blocks' |-> is_free'[x]]
      BY <2>1, <2>2 DEF Whole, Blocks
    <3> QED BY <3>1, <2>3
  <2>5. FreeBlocks' = FreeBlocks \ {b}
    BY <2>2 DEF FreeBlocks
  <2>6. BlocksTile'
    <3>1. End(b)' = b + HEADER + total /\ \A x \in Blocks : x # b => End(x)' = End(x)
      BY <2>2 DEF End
    <3>2. \A x \in Blocks' : KERNEL_HEAP_START <= x /\ End(x)' <= heap_current_limit'
      BY <3>1, <2>2 DEF Room, BlocksTile
    <3>3. \A x \in Blocks' : End(x)' \in Blocks' \/ End(x)' = heap_current_limit'
      BY <3>1, <2>2 DEF Room
    <3>4. \A x, y \in Blocks' : x < y => End(x)' <= y
      BY <3>1, <2>2 DEF Room, BlocksTile
    <3> QED BY <3>2, <3>3, <3>4, <2>2 DEF BlocksTile
  <2> QED BY <2>1, <2>2, <2>3, <2>4, <2>5, <2>6
<1> QED BY <1>3, <1>4

\* kmalloc keeps the invariant, but for the caller's bookkeeping of krealloc, and
\* hands out bytes nobody holds.
LEMMA HandOutKeeps ==
    ASSUME IInv, ~panicked, NEW b, NEW total, Room(b, total),
           NEW u \in Nat \ {0}, NEW n \in Nat, u <= n, n <= total,
           NEW list, Lists(list, FreeBlocks \ {b}), Carve(b, total, n, list),
           HandOut(b, u), frames' \in Nat, panicked' = panicked, freed' = NULL,
           realloc' \subseteq held
    PROVE  IInv' /\ A!Malloc(Region(b + HEADER, u))
<1> DEFINE r == Region(b + HEADER, u)
<1>1. /\ Typed /\ BlocksTile /\ HeldBacked
  BY DEF IInv
<1>2. /\ Blocks' \subseteq Nat /\ size' \in [Blocks' -> Nat]
      /\ is_free' \in [Blocks' -> BOOLEAN]
      /\ BlocksTile'
      /\ Lists(heap_free_list', FreeBlocks')
      /\ Blocks \cup {b} \subseteq Blocks' /\ n <= size'[b] /\ ~is_free'[b]
      /\ \A x \in Blocks : x # b => size'[x] = size[x] /\ is_free'[x] = is_free[x]
  BY <1>1, CarveKeeps
<1>3. b \in Nat /\ total \in Nat /\ HEADER = 24 /\ r.ptr = b + HEADER /\ r.len = u
      /\ r \in Regions /\ r.ptr - HEADER = b
  BY DEF Room, HEADER, Region, Regions
<1>4. held' = held \cup {r}
  BY DEF HandOut
<1> HIDE DEF r
<1>5. \A s \in held : /\ s \in Regions /\ s.ptr \in Nat /\ s.len \in Nat
                      /\ s.ptr - HEADER \in Blocks /\ s.ptr - HEADER # b
                      /\ s.len <= size[s.ptr - HEADER]
                      /\ ~is_free[s.ptr - HEADER]
  BY <1>1 DEF Typed, HeldBacked, Room, Regions
<1>6. Typed'
  BY <1>2, <1>3, <1>4, <1>1 DEF Typed, Room
<1>7. HeldBacked'
  <2>1. \A s \in held' : /\ s.ptr - HEADER \in Blocks' /\ ~is_free'[s.ptr - HEADER]
                         /\ s.len <= size'[s.ptr - HEADER]
    <3> SUFFICES ASSUME NEW s \in held'
                 PROVE  /\ s.ptr - HEADER \in Blocks' /\ ~is_free'[s.ptr - HEADER]
                        /\ s.len <= size'[s.ptr - HEADER]
      OBVIOUS
    <3>1. CASE s = r
      <4>1. size'[b] \in Nat
        BY <1>2
      <4>2. u <= size'[b]
        BY <4>1, <1>2
      <4> QED BY <4>2, <3>1, <1>2, <1>3
    <3>2. CASE s \in held
      BY <3>2, <1>2, <1>5
    <3> QED BY <3>1, <3>2, <1>4
  <2>2. \A s, t \in held' : s.ptr = t.ptr => s = t
    BY <1>1, <1>3, <1>4, <1>5 DEF HeldBacked
  <2> QED BY <2>1, <2>2 DEF HeldBacked, Blocks
<1>8. FreedIsFree'
  BY DEF FreedIsFree, NULL
<1>9. r.ptr > KERNEL_HEAP_START
  BY <1>3, HeapAssumption DEF Room
<1>10. \A s \in held : A!Apart(r, s)
  <2> SUFFICES ASSUME NEW s \in held PROVE A!Apart(r, s)
    OBVIOUS
  <2> DEFINE h == s.ptr - HEADER
  <2>1. /\ h \in Blocks /\ h # b /\ h \in Nat /\ size[h] \in Nat /\ s.len <= size[h]
        /\ s.ptr = h + HEADER /\ s.len \in Nat
    BY <1>1, <1>3, <1>5 DEF Typed
  <2> HIDE DEF h
  <2>2. CASE h < b
    <3>1. End(h) <= b
      BY <2>1, <2>2 DEF Room
    <3>2. s.ptr + s.len <= r.ptr
      BY <3>1, <2>1, <1>3 DEF End
    <3> QED BY <3>2 DEF A!Apart
  <2>3. CASE b < h
    <3>1. b + HEADER + total <= h
      BY <2>1, <2>3 DEF Room
    <3>2. r.ptr + r.len <= s.ptr
      BY <3>1, <2>1, <1>3
    <3> QED BY <3>2 DEF A!Apart
  <2> QED BY <2>1, <2>2, <2>3, <1>3
<1>11. A!Malloc(r)
  BY <1>4, <1>9, <1>10 DEF A!Malloc
<1> QED BY <1>2, <1>6, <1>7, <1>8, <1>11 DEF IInv, r

\* Both ways kmalloc takes find room for their block.
LEMMA KmallocKeeps ==
    ASSUME IInv, ~panicked, NEW u \in Sizes, kmalloc(u), panicked' = panicked,
           freed' = NULL, realloc' \subseteq held
    PROVE  IInv' /\ \E r \in held' : A!Malloc(r)
<1> DEFINE n == RoundUp(u)
<1>1. u \in Nat \ {0} /\ n \in Nat /\ u <= n
  BY RoundUpGrows, HeapAssumption
<1>2. Typed /\ BlocksTile /\ Lists(heap_free_list, FreeBlocks)
  BY DEF IInv
<1> HIDE DEF n
<1>3. \A b : HandOut(b, u) => Region(b + HEADER, u) \in held'
  BY DEF HandOut
<1>4. CASE KmallocReuse(u)
  <2>1. PICK i \in 1 .. Len(heap_free_list) :
          /\ FirstFit(n, i)
          /\ Carve(heap_free_list[i], size[heap_free_list[i]], n,
                   Without(heap_free_list, i))
          /\ HandOut(heap_free_list[i], u)
          /\ UNCHANGED <<heap_current_limit, frames>>
    BY <1>4 DEF KmallocReuse, n
  <2> DEFINE b == heap_free_list[i]
             l == Without(heap_free_list, i)
  <2>2. b \in FreeBlocks
    BY <1>2, ElementOfSeq DEF Lists
  <2>3. b \in Blocks /\ is_free[b] /\ b \in Nat /\ size[b] \in Nat
    BY <2>2, <1>2 DEF FreeBlocks, Typed
  <2>4. Lists(l, FreeBlocks \ {b})
    BY <1>2, UnlinkLists
  <2>5. n <= size[b]
    BY <2>1, <2>3, <1>1 DEF FirstFit
  <2>6. Room(b, size[b])
    BY <2>1, <2>3, <1>2 DEF Room, BlocksTile, Typed, End
  <2>7. frames' \in Nat
    BY <2>1, <1>2 DEF Typed
  <2>8. Carve(b, size[b], n, l) /\ HandOut(b, u)
    BY <2>1
  <2> HIDE DEF b, l
  <2>9. IInv' /\ A!Malloc(Region(b + HEADER, u))
    BY <2>3, <2>4, <2>5, <2>6, <2>7, <2>8, <1>1, HandOutKeeps
  <2> QED BY <2>8, <2>9, <1>3
<1>5. CASE KmallocGrow(u)
  <2> DEFINE pages == PagesFor(n + HEADER)
             b == heap_current_limit
             total == pages * PAGE_SIZE - HEADER
  <2>1. /\ frames >= pages /\ frames' = frames - pages
        /\ heap_current_limit' = b + pages * PAGE_SIZE
        /\ Carve(b, total, n, heap_free_list)
        /\ HandOut(b, u)
    BY <1>5 DEF KmallocGrow, n
  <2>2. n + HEADER \in Nat /\ HEADER = 24 /\ PAGE_SIZE = 4096
    BY <1>1 DEF HEADER, PAGE_SIZE
  <2>3. pages \in Nat /\ pages * PAGE_SIZE >= n + HEADER + HEADER
    BY <2>2, PagesSuffice
  <2> HIDE DEF pages
  <2>4. /\ b \in Nat /\ total \in Nat /\ n <= total
        /\ heap_current_limit' = b + HEADER + total
    BY <2>1, <2>2, <2>3, <1>1, <1>2 DEF Typed
  <2>5. \A x \in Blocks : x \in Nat /\ size[x] \in Nat /\ x < b
    BY <1>2, <2>2 DEF Typed, BlocksTile, End
  <2> HIDE DEF total, b
  <2>6. KERNEL_HEAP_START <= b
    BY <1>2, <2>5, HeapAssumption, <2>4 DEF BlocksTile
  <2>7. Room(b, total)
    <3>1. b \notin Blocks
      BY <2>5, <2>4
    <3>2. \A x \in Blocks :
            /\ End(x) <= b
            /\ End(x) \in Blocks \/ End(x) = b
            /\ End(x) \in Nat
      BY <1>2, <2>5, <2>2 DEF BlocksTile, b, End
    <3>3. \A x \in Blocks : End(x) <= heap_current_limit'
      BY <3>2, <2>4, <2>2
    <3> QED BY <3>1, <3>2, <3>3, <2>2, <2>4, <2>5, <2>6 DEF Room
  <2>8. Lists(heap_free_list, FreeBlocks \ {b})
    <3>1. FreeBlocks \ {b} = FreeBlocks
      BY <2>5, <2>4 DEF FreeBlocks
    <3> QED BY <3>1, <1>2
  <2>9. frames' \in Nat
    BY <2>1, <2>3, <1>2 DEF Typed
  <2>10. IInv' /\ A!Malloc(Region(b + HEADER, u))
    BY <2>1, <2>4, <2>7, <2>8, <2>9, <1>1, HandOutKeeps
  <2> QED BY <2>1, <2>10, <1>3
<1> QED BY <1>4, <1>5 DEF kmalloc

-----------------------------------------------------------------------------
(* Giving a block back, and the other steps.                               *)

\* kfree of a block in use puts it on the free list and moves nothing.
LEMMA KfreeKeeps ==
    ASSUME IInv, NEW r \in held, kfree(r.ptr), held' = held \ {r}, freed' = r.ptr,
           realloc' \subseteq held', panicked' = panicked
    PROVE  IInv'
<1> DEFINE h == r.ptr - HEADER
<1>1. Typed /\ BlocksTile /\ HeldBacked /\ Lists(heap_free_list, FreeBlocks)
  BY DEF IInv
<1>2. h \in Blocks /\ ~is_free[h] /\ r.ptr \in Nat /\ HEADER = 24
  BY <1>1 DEF HeldBacked, Typed, Regions, HEADER
<1>3. /\ is_free' = [is_free EXCEPT ![h] = TRUE]
      /\ heap_free_list' = <<h>> \o heap_free_list
      /\ size' = size /\ heap_current_limit' = heap_current_limit /\ frames' = frames
  BY <1>2 DEF kfree
<1> HIDE DEF h
<1>4. Blocks' = Blocks /\ is_free'[h] = TRUE
      /\ \A x \in Blocks : x # h => is_free'[x] = is_free[x]
  BY <1>1, <1>2, <1>3 DEF Typed, Blocks
<1>5. is_free' \in [Blocks -> BOOLEAN]
  BY <1>1, <1>3 DEF Typed
<1>6. Typed'
  BY <1>1, <1>3, <1>4, <1>5 DEF Typed
<1>7. BlocksTile'
  BY <1>1, <1>3, <1>4 DEF BlocksTile, End
<1>8. FreeBlocks' = FreeBlocks \cup {h} /\ h \notin FreeBlocks
  BY <1>2, <1>4 DEF FreeBlocks
<1>9. Lists(heap_free_list', FreeBlocks')
  BY <1>1, <1>3, <1>8, PushLists
<1>10. HeldBacked'
  <2>1. \A s \in held' : s \in held /\ s.ptr \in Nat /\ s.ptr - HEADER # h
    BY <1>1, <1>2 DEF HeldBacked, Typed, Regions, h
  <2> QED BY <2>1, <1>1, <1>3, <1>4 DEF HeldBacked
<1>11. FreedIsFree'
  BY <1>2, <1>4 DEF FreedIsFree, h
<1> QED BY <1>6, <1>7, <1>9, <1>10, <1>11 DEF IInv

\* heap_init establishes the invariant.
LEMMA InitInv == Init => IInv
<1> SUFFICES ASSUME Init PROVE IInv
  OBVIOUS
<1> DEFINE bytes == PagesFor(HEAP_INIT_PAGES * PAGE_SIZE) * PAGE_SIZE
           K == KERNEL_HEAP_START
<1>1. K \in Nat /\ HEADER = 24 /\ bytes \in Nat /\ bytes >= HEADER
  <2>1. HEAP_INIT_PAGES * PAGE_SIZE \in Nat
    BY HeapAssumption DEF PAGE_SIZE
  <2>2. PagesFor(HEAP_INIT_PAGES * PAGE_SIZE) \in Nat
        /\ bytes >= HEAP_INIT_PAGES * PAGE_SIZE + HEADER
    BY <2>1, PagesSuffice
  <2> QED BY <2>1, <2>2, HeapAssumption DEF HEADER, PAGE_SIZE
<1>2. /\ heap_current_limit = K + bytes
      /\ size = [b \in {K} |-> bytes - HEADER]
      /\ is_free = [b \in {K} |-> TRUE]
      /\ heap_free_list = <<K>>
      /\ frames \in 0 .. MaxFrames
      /\ held = {} /\ realloc = {} /\ freed = NULL
      /\ panicked = FALSE
  BY DEF Init
<1> HIDE DEF bytes
<1>3. Blocks = {K} /\ size[K] = bytes - HEADER /\ is_free[K]
  BY <1>2 DEF Blocks
<1>4. Typed
  <2>1. bytes - HEADER \in Nat /\ heap_current_limit \in Nat /\ frames \in Nat
    BY <1>1, <1>2, HeapAssumption
  <2>2. Blocks \subseteq Nat /\ size \in [Blocks -> Nat]
    BY <2>1, <1>1, <1>2, <1>3
  <2>3. is_free \in [Blocks -> BOOLEAN] /\ panicked \in BOOLEAN
    BY <1>2, <1>3
  <2>4. held \subseteq Regions /\ realloc \subseteq held
    BY <1>2
  <2> QED BY <2>1, <2>2, <2>3, <2>4 DEF Typed
<1>5. BlocksTile
  BY <1>1, <1>2, <1>3 DEF BlocksTile, End
<1>6. FreeBlocks = {K}
  BY <1>3 DEF FreeBlocks
<1>7. Lists(heap_free_list, FreeBlocks)
  <2>1. heap_free_list \in Seq({K}) /\ Len(heap_free_list) = 1 /\ heap_free_list[1] = K
    BY <1>2
  <2>2. \A i \in 1 .. Len(heap_free_list) : i = 1
    BY <2>1
  <2> HIDE DEF K
  <2>3. \A i, j \in 1 .. Len(heap_free_list) : i # j => heap_free_list[i] # heap_free_list[j]
    BY <2>2
  <2>4. \A b \in {K} : \E i \in 1 .. Len(heap_free_list) : heap_free_list[i] = b
    BY <2>1
  <2> QED BY <2>1, <2>3, <2>4, <1>6 DEF Lists
<1>8. HeldBacked /\ FreedIsFree
  BY <1>2 DEF HeldBacked, FreedIsFree, NULL
<1> QED BY <1>4, <1>5, <1>7, <1>8 DEF IInv

\* Every call of kmalloc, kfree and krealloc keeps the invariant, and is a step of
\* Allocator or none.
LEMMA StepInv == IInv /\ [Next]_vars => IInv' /\ [A!Next]_held
<1> SUFFICES ASSUME IInv, [Next]_vars PROVE IInv' /\ [A!Next]_held
  OBVIOUS
<1>1. Typed /\ BlocksTile /\ HeldBacked /\ FreedIsFree
      /\ Lists(heap_free_list, FreeBlocks)
  BY DEF IInv
<1>2. ASSUME \E r \in held' : A!Malloc(r) PROVE A!Next
  BY <1>2 DEF A!Next
<1>3. ASSUME NEW r \in held, held' = held \ {r} PROVE A!Next
  BY <1>3 DEF A!Next, A!Free
<1>4. CASE Kmalloc
  <2>1. PICK u \in Sizes : kmalloc(u)
    BY <1>4 DEF Kmalloc
  <2>2. ~panicked /\ panicked' = panicked /\ freed' = NULL /\ realloc' \subseteq held
    BY <1>1, <1>4 DEF Kmalloc, Typed
  <2> QED BY <2>1, <2>2, <1>2, KmallocKeeps
<1>5. CASE KmallocPanic
  <2>1. /\ heap_current_limit' = heap_current_limit + frames * PAGE_SIZE
        /\ frames' = 0 /\ panicked' = TRUE
        /\ size' = size /\ is_free' = is_free /\ heap_free_list' = heap_free_list
        /\ held' = held /\ realloc' = realloc /\ freed' = freed
    BY <1>5 DEF KmallocPanic
  <2>2. heap_current_limit' \in Nat /\ heap_current_limit <= heap_current_limit'
    BY <2>1, <1>1 DEF Typed, PAGE_SIZE
  <2>3. Typed'
    BY <2>1, <2>2, <1>1 DEF Typed, Blocks
  <2>4. BlocksTile'
    BY <2>1, <2>2, <1>1 DEF BlocksTile, Blocks, End, Typed, HEADER
  <2>5. Lists(heap_free_list', FreeBlocks')
    <3>1. FreeBlocks' = FreeBlocks
      BY <2>1 DEF FreeBlocks, Blocks
    <3> QED BY <3>1, <2>1, <1>1
  <2>6. HeldBacked' /\ FreedIsFree'
    BY <2>1, <1>1 DEF HeldBacked, FreedIsFree, Blocks
  <2> QED BY <2>1, <2>3, <2>4, <2>5, <2>6 DEF IInv
<1>6. CASE Kfree
  <2>1. PICK r \in held : /\ r \notin realloc /\ kfree(r.ptr) /\ held' = held \ {r}
                          /\ freed' = r.ptr /\ realloc' = realloc /\ panicked' = panicked
    BY <1>6 DEF Kfree
  <2>2. realloc' \subseteq held'
    BY <2>1, <1>1 DEF Typed
  <2> QED BY <2>1, <2>2, <1>3, KfreeKeeps
<1>7. CASE KfreeAgain
  <2>1. is_free[freed - HEADER] /\ kfree(freed)
        /\ UNCHANGED <<held, realloc, freed, panicked>>
    BY <1>1, <1>7 DEF KfreeAgain, FreedIsFree
  <2>2. UNCHANGED vars
    BY <2>1 DEF kfree, vars, heapVars
  <2> QED BY <2>2 DEF vars, heapVars, IInv, Typed, BlocksTile, FreeBlocks, HeldBacked,
                      FreedIsFree, Blocks, End
<1>8. CASE Krealloc
  <2>1. PICK r \in held, u \in Sizes : kmalloc(u) /\ realloc' = {r}
    BY <1>8 DEF Krealloc
  <2>2. ~panicked /\ panicked' = panicked /\ freed' = NULL /\ realloc' \subseteq held
    BY <2>1, <1>8 DEF Krealloc
  <2> QED BY <2>1, <2>2, <1>2, KmallocKeeps
<1>9. CASE KreallocFree
  <2>1. PICK r \in realloc : /\ kfree(r.ptr) /\ held' = held \ {r}
                             /\ freed' = r.ptr /\ realloc' = {} /\ panicked' = panicked
    BY <1>9 DEF KreallocFree
  <2>2. r \in held /\ realloc' \subseteq held'
    BY <2>1, <1>1 DEF Typed
  <2> QED BY <2>1, <2>2, <1>3, KfreeKeeps
<1>10. CASE FrameTaken
  <2>1. /\ frames > 0 /\ frames' = frames - 1
        /\ UNCHANGED <<size, is_free, heap_free_list, heap_current_limit, held, realloc,
                       freed, panicked>>
    BY <1>10 DEF FrameTaken
  <2>2. Typed'
    BY <2>1, <1>1 DEF Typed, Blocks
  <2>3. FreeBlocks' = FreeBlocks
    BY <2>1 DEF FreeBlocks, Blocks
  <2> QED BY <2>1, <2>2, <2>3, <1>1 DEF IInv, BlocksTile, HeldBacked, FreedIsFree, Blocks, End
<1>11. CASE UNCHANGED vars
  BY <1>11 DEF vars, heapVars, IInv, Typed, BlocksTile, FreeBlocks, HeldBacked,
               FreedIsFree, Blocks, End
<1> QED BY <1>4, <1>5, <1>6, <1>7, <1>8, <1>9, <1>10, <1>11 DEF Next

-----------------------------------------------------------------------------
(* The theorems.                                                           *)

\* The inductive invariant holds in every state of the heap.
THEOREM HeapInvariance == Spec => []IInv
BY InitInv, StepInv, PTL DEF Spec

\* kmalloc, kfree and krealloc only read headers that were written, for all sizes.
THEOREM HeapTypeCorrect == Spec => []TypeOK
<1>1. IInv => TypeOK
  <2> SUFFICES ASSUME IInv PROVE TypeOK
    OBVIOUS
  <2>1. heap_free_list \in Seq(Blocks)
    <3>1. heap_free_list \in Seq(FreeBlocks)
      BY DEF IInv, Lists
    <3>2. FreeBlocks \subseteq Blocks
      BY DEF FreeBlocks
    <3> QED BY ONLY <3>1, <3>2, SeqMonotonic
  <2>2. freed \in {b + HEADER : b \in Blocks} \cup {NULL}
    <3>1. CASE freed = NULL
      BY <3>1
    <3>2. CASE freed # NULL
      <4>1. freed - HEADER \in Blocks
        BY <3>2 DEF IInv, FreedIsFree
      <4>2. freed \in Int
        BY DEF IInv, FreedIsFree
      <4> QED BY <4>1, <4>2 DEF HEADER
    <3> QED BY <3>1, <3>2
  <2> QED BY <2>1, <2>2 DEF IInv, Typed, TypeOK
<1> QED BY <1>1, HeapInvariance, PTL

\* The blocks always tile the heap between KERNEL_HEAP_START and the limit.
THEOREM HeapTiled == Spec => []BlocksTile
<1>1. IInv => BlocksTile
  BY DEF IInv
<1> QED BY <1>1, HeapInvariance, PTL

\* heap_free_list always holds exactly the free blocks, once each.
THEOREM FreeListCorrect == Spec => []FreeListExact
<1>1. IInv => FreeListExact
  <2> SUFFICES ASSUME IInv PROVE FreeListExact
    OBVIOUS
  <2>1. Lists(heap_free_list, FreeBlocks)
    BY DEF IInv
  <2>2. \A i \in 1 .. Len(heap_free_list) : heap_free_list[i] \in FreeBlocks
    BY <2>1, ElementOfSeq DEF Lists
  <2>3. {heap_free_list[i] : i \in 1 .. Len(heap_free_list)} = FreeBlocks
    <3>1. \A b \in FreeBlocks : \E i \in 1 .. Len(heap_free_list) : heap_free_list[i] = b
      BY <2>1, Zenon DEF Lists
    <3> QED BY ONLY <2>2, <3>1, Zenon
  <2> QED BY <2>1, <2>3 DEF Lists, FreeListExact, FreeBlocks
<1> QED BY <1>1, HeapInvariance, PTL

\* The heap implements Allocator: kmalloc never hands out bytes that are in use.
THEOREM HeapRefinement == Spec => ImplementsAllocator
<1>1. Init => A!Init
  BY DEF Init, A!Init
<1>2. IInv /\ [Next]_vars => [A!Next]_held
  BY StepInv
<1> QED BY <1>1, <1>2, HeapInvariance, PTL DEF Spec, ImplementsAllocator, A!Spec

-----------------------------------------------------------------------------
(* Entries into the kernel and exits from it.                              *)

Kind == {"new", "user", "C", "sti", "syscall", "pit", "keyboard", "fault"}

IsLevel(l) ==
    /\ l = [kind |-> l.kind, turns |-> l.turns, stack |-> l.stack, used |-> l.used,
            under |-> l.under]
    /\ l.kind \in Kind /\ l.turns \in Nat /\ l.used \in Nat

\* What a thread comes back to in the end: user mode, or the C function of a kernel
\* thread with the words its turns lost.
Base(t, l) ==
    /\ IsLevel(l) /\ l.under = Nothing
    /\ \/ t \in Users /\ l.kind \in {"new", "user"} /\ l.stack = "user"
       \/ t \notin Users /\ l.kind \in {"new", "C"} /\ l.stack = "kernel" /\ l.used = l.turns

\* Entered from there.
Inner(t, l) ==
    /\ IsLevel(l) /\ Base(t, l.under) /\ l.under.kind # "new"
    /\ l.kind = "keyboard" => l.turns <= KEY_YIELDS
    /\ \/ t \in Users /\ l.kind = "sti" /\ l.stack = "user"
       \/ /\ t \in Users /\ l.kind \in {"syscall", "pit", "keyboard", "fault"}
          /\ l.stack = "kernel" /\ l.used = FRAME + CALL + l.turns
       \/ /\ t \notin Users /\ l.kind \in {"pit", "keyboard"}
          /\ l.stack = "kernel" /\ l.used = l.under.turns + FRAME + CALL + l.turns

\* Entered from there: between sti and sysret, or by SC_YIELD.
Deep(t, l) ==
    /\ IsLevel(l) /\ Inner(t, l.under)
    /\ l.kind = "keyboard" => l.turns <= KEY_YIELDS
    /\ \/ l.under.kind = "sti" /\ l.kind \in {"pit", "keyboard"} /\ l.stack = "user"
       \/ l.under.kind = "syscall" /\ l.kind = "pit"

Sane(t, l) == Base(t, l) \/ Inner(t, l) \/ Deep(t, l)

\* The inductive invariant.
EntryInv ==
    /\ gs = CPU_DATA /\ kernel_gs = CPU_DATA
    /\ current \in Threads /\ DOMAIN level = Threads
    /\ \A t \in Threads : Sane(t, level[t])
    /\ wild = "stack" => LostTooMuch(Running) \/ LostTooMuch(Running.under)
    /\ wild = "frame" => Running.kind = "keyboard" /\ Running.under.kind = "sti"

\* A level just entered.
LEMMA Entered ==
    ASSUME NEW kind \in Kind, NEW stack, NEW used \in Nat, NEW under
    PROVE  LET l == Level(kind, stack, used, under)
           IN  /\ IsLevel(l) /\ l.kind = kind /\ l.turns = 0 /\ l.stack = stack
               /\ l.used = used /\ l.under = under
BY DEF Level, IsLevel

\* The words of a frame.
LEMMA Words ==
    /\ FRAME \in Nat /\ CALL \in Nat /\ STACK \in Nat /\ KEY_YIELDS = 2
    /\ STACK > 2 * (FRAME + CALL) + 2
BY EntryAssumption DEF KEY_YIELDS

\* The levels from which an entry comes.
LEMMA EnterFrom ==
    ASSUME NEW t, NEW l, Sane(t, l)
    PROVE  /\ IsLevel(l)
           /\ l.kind = "user" => Base(t, l) /\ t \in Users
           /\ l.kind = "C" => Base(t, l) /\ t \notin Users /\ l.stack = "kernel" /\ l.used = l.turns
           /\ l.kind = "sti" => Inner(t, l) /\ t \in Users /\ l.stack = "user"
           /\ l.kind = "syscall" => /\ Inner(t, l) /\ t \in Users /\ l.stack = "kernel"
                                    /\ l.used = FRAME + CALL + l.turns
<1>1. CASE Base(t, l)
  BY ONLY <1>1 DEF Base
<1>2. CASE Inner(t, l)
  BY ONLY <1>2 DEF Inner
<1>3. CASE Deep(t, l)
  BY ONLY <1>3 DEF Deep
<1> QED BY ONLY <1>1, <1>2, <1>3, Sane(t, l) DEF Sane

\* An entry finds room, or a loop of yields has used it up.
LEMMA EnterSane ==
    ASSUME NEW t, NEW l, Sane(t, l), NEW kind,
           \/ kind \in {"syscall", "fault"} /\ l.kind = "user"
           \/ kind \in {"pit", "keyboard"} /\ l.kind \in {"user", "sti", "C"}
           \/ kind = "pit" /\ l.kind = "syscall",
           NEW stack, stack = IF l.kind = "user" THEN "kernel" ELSE l.stack,
           NEW used, used = IF l.kind = "user" THEN 0 ELSE l.used
    PROVE  IF Fits(stack, used) THEN Sane(t, Level(kind, stack, used + FRAME + CALL, l))
           ELSE LostTooMuch(l)
<1> DEFINE m == Level(kind, stack, used + FRAME + CALL, l)
<1>1. IsLevel(l)
  BY ONLY Sane(t, l), EnterFrom
<1>2. l.turns \in Nat /\ used \in Nat
  BY ONLY <1>1, used = IF l.kind = "user" THEN 0 ELSE l.used DEF IsLevel
<1>3. /\ IsLevel(m) /\ m.kind = kind /\ m.turns = 0 /\ m.stack = stack
      /\ m.used = used + FRAME + CALL /\ m.under = l
  <2>1. kind \in Kind
    BY DEF Kind
  <2>2. used + FRAME + CALL \in Nat
    BY ONLY <1>2, Words
  <2> QED BY ONLY <2>1, <2>2, Entered
<1> HIDE DEF m
<1>4. CASE l.kind = "user"
  <2>1. Base(t, l) /\ t \in Users /\ stack = "kernel" /\ used = 0
    BY ONLY <1>4, EnterFrom, Sane(t, l), used = IF l.kind = "user" THEN 0 ELSE l.used,
            stack = IF l.kind = "user" THEN "kernel" ELSE l.stack
  <2>2. Fits(stack, used)
    BY ONLY <2>1, Words DEF Fits
  <2>3. kind \in {"syscall", "pit", "keyboard", "fault"}
    BY <1>4
  <2>4. m.used = FRAME + CALL + m.turns
    BY ONLY <1>3, <2>1, Words
  <2>5. Inner(t, m)
    BY ONLY <1>3, <1>4, <2>1, <2>3, <2>4, Words DEF Inner
  <2> QED BY ONLY <2>2, <2>5 DEF Sane, m
<1>5. CASE l.kind = "C"
  <2>1. Base(t, l) /\ t \notin Users /\ stack = "kernel" /\ used = l.turns
    BY ONLY <1>5, EnterFrom, Sane(t, l), used = IF l.kind = "user" THEN 0 ELSE l.used,
            stack = IF l.kind = "user" THEN "kernel" ELSE l.stack
  <2>2. kind \in {"pit", "keyboard"}
    BY <1>5
  <2>3. m.used = m.under.turns + FRAME + CALL + m.turns
    BY ONLY <1>2, <1>3, <2>1, Words
  <2>4. Inner(t, m)
    BY ONLY <1>3, <1>5, <2>1, <2>2, <2>3, Words DEF Inner
  <2>5. ASSUME ~Fits(stack, used) PROVE LostTooMuch(l)
    BY ONLY <1>2, <1>5, <2>1, <2>5, Words DEF Fits, LostTooMuch
  <2> QED BY ONLY <2>4, <2>5 DEF Sane, m
<1>6. CASE l.kind = "sti"
  <2>1. Inner(t, l) /\ stack = "user"
    BY ONLY <1>6, EnterFrom, Sane(t, l), stack = IF l.kind = "user" THEN "kernel" ELSE l.stack
  <2>2. kind \in {"pit", "keyboard"}
    BY <1>6
  <2>3. Deep(t, m)
    BY ONLY <1>3, <1>6, <2>1, <2>2, Words DEF Deep
  <2>4. Fits(stack, used)
    BY ONLY <2>1 DEF Fits
  <2> QED BY ONLY <2>3, <2>4 DEF Sane, m
<1>7. CASE l.kind = "syscall"
  <2>1. Inner(t, l) /\ stack = "kernel" /\ used = FRAME + CALL + l.turns
    BY ONLY <1>7, EnterFrom, Sane(t, l), used = IF l.kind = "user" THEN 0 ELSE l.used,
            stack = IF l.kind = "user" THEN "kernel" ELSE l.stack
  <2>2. kind = "pit"
    BY <1>7
  <2>3. Deep(t, m)
    BY ONLY <1>3, <1>7, <2>1, <2>2 DEF Deep
  <2>4. ASSUME ~Fits(stack, used) PROVE LostTooMuch(l)
    BY ONLY <1>2, <1>7, <2>1, <2>4, Words DEF Fits, LostTooMuch
  <2> QED BY ONLY <2>3, <2>4 DEF Sane, m
<1> QED BY ONLY <1>4, <1>5, <1>6, <1>7,
                \/ kind \in {"syscall", "fault"} /\ l.kind = "user"
                \/ kind \in {"pit", "keyboard"} /\ l.kind \in {"user", "sti", "C"}
                \/ kind = "pit" /\ l.kind = "syscall" DEF m

\* An exit leads to what was active before.
LEMMA LeaveSane ==
    ASSUME NEW t, NEW l, Sane(t, l), l.kind \in {"pit", "keyboard", "fault", "sti"}
    PROVE  Sane(t, l.under)
<1>1. CASE Base(t, l)
  BY ONLY <1>1, l.kind \in {"pit", "keyboard", "fault", "sti"} DEF Base
<1>2. CASE Inner(t, l)
  BY ONLY <1>2 DEF Inner, Sane
<1>3. CASE Deep(t, l)
  BY ONLY <1>3 DEF Deep, Sane
<1> QED BY ONLY <1>1, <1>2, <1>3, Sane(t, l) DEF Sane

\* The end of a system call leads between sti and sysret.
LEMMA SyscallExitSane ==
    ASSUME NEW t, NEW l, Sane(t, l), l.kind = "syscall"
    PROVE  Sane(t, Level("sti", "user", 0, l.under))
<1> DEFINE m == Level("sti", "user", 0, l.under)
<1>1. /\ IsLevel(m) /\ m.kind = "sti" /\ m.stack = "user" /\ m.under = l.under
  BY ONLY Entered DEF Kind
<1> HIDE DEF m
<1>2. Inner(t, l) /\ t \in Users
  BY ONLY EnterFrom, Sane(t, l), l.kind = "syscall"
<1>3. Base(t, l.under) /\ l.under.kind # "new"
  BY ONLY <1>2 DEF Inner
<1>4. Inner(t, m)
  BY ONLY <1>1, <1>2, <1>3 DEF Inner
<1> QED BY ONLY <1>4 DEF Sane, m

\* A level whose turns, and the words they lost, are other ones.
Turns(l, m, n) ==
    /\ IsLevel(m) /\ m.kind = l.kind /\ m.stack = l.stack /\ m.under = l.under
    /\ m.turns = n /\ m.used = (l.used - l.turns) + n

\* They change nothing else.
LEMMA TurnsSane ==
    ASSUME NEW t, NEW l, Sane(t, l), l.kind \in {"syscall", "keyboard", "C"},
           NEW n \in Nat, l.kind = "keyboard" => n <= KEY_YIELDS,
           NEW m, Turns(l, m, n)
    PROVE  Sane(t, m)
<1>1. /\ IsLevel(m) /\ m.kind = l.kind /\ m.stack = l.stack /\ m.under = l.under
      /\ m.turns = n /\ m.used = (l.used - l.turns) + n
  BY DEF Turns
<1>2. FRAME \in Nat /\ CALL \in Nat
  BY Words
<1>3. CASE Base(t, l)
  <2>1. t \notin Users /\ l.kind = "C" /\ l.stack = "kernel" /\ l.used = l.turns /\ l.turns \in Nat
        /\ l.under = Nothing
    BY ONLY <1>3, l.kind \in {"syscall", "keyboard", "C"} DEF Base, IsLevel
  <2>2. m.used = m.turns
    BY ONLY <1>1, <2>1, n \in Nat
  <2> QED BY ONLY <1>1, <2>1, <2>2 DEF Sane, Base
<1>4. CASE Inner(t, l)
  <2>1. /\ Base(t, l.under) /\ l.under.kind # "new" /\ l.turns \in Nat /\ l.under.turns \in Nat
        /\ \/ /\ t \in Users /\ l.kind \in {"syscall", "keyboard"}
              /\ l.stack = "kernel" /\ l.used = FRAME + CALL + l.turns
           \/ /\ t \notin Users /\ l.kind = "keyboard"
              /\ l.stack = "kernel" /\ l.used = l.under.turns + FRAME + CALL + l.turns
    BY ONLY <1>4, l.kind \in {"syscall", "keyboard", "C"} DEF Inner, Base, IsLevel
  <2>2. CASE t \in Users
    <3>1. m.used = FRAME + CALL + m.turns
      BY ONLY <1>1, <1>2, <2>1, <2>2, n \in Nat
    <3> QED BY ONLY <1>1, <2>1, <2>2, <3>1, l.kind = "keyboard" => n <= KEY_YIELDS DEF Sane, Inner
  <2>3. CASE t \notin Users
    <3>1. m.used = m.under.turns + FRAME + CALL + m.turns
      BY ONLY <1>1, <1>2, <2>1, <2>3, n \in Nat
    <3> QED BY ONLY <1>1, <2>1, <2>3, <3>1, l.kind = "keyboard" => n <= KEY_YIELDS DEF Sane, Inner
  <2> QED BY ONLY <2>2, <2>3
<1>5. CASE Deep(t, l)
  <2>1. Inner(t, l.under) /\ l.under.kind = "sti" /\ l.kind = "keyboard" /\ l.stack = "user"
    BY ONLY <1>5, l.kind \in {"syscall", "keyboard", "C"} DEF Deep
  <2> QED BY ONLY <1>1, <2>1, l.kind = "keyboard" => n <= KEY_YIELDS DEF Sane, Deep
<1> QED BY ONLY <1>3, <1>4, <1>5, Sane(t, l) DEF Sane

\* Two fields of a level replaced.
LEMMA TwoFields ==
    ASSUME NEW k, NEW n, NEW s, NEW u, NEW b, NEW v, NEW w,
           NEW l, l = [kind |-> k, turns |-> n, stack |-> s, used |-> u, under |-> b]
    PROVE  [[l EXCEPT !.turns = v] EXCEPT !.used = w]
           = [kind |-> k, turns |-> v, stack |-> s, used |-> w, under |-> b]
<1>1. PICK m : m = [l EXCEPT !.turns = v]
  BY Zenon
<1>2. m = [kind |-> k, turns |-> v, stack |-> s, used |-> u, under |-> b]
  BY <1>1
<1>3. [m EXCEPT !.used = w] = [kind |-> k, turns |-> v, stack |-> s, used |-> w, under |-> b]
  BY ONLY <1>2
<1> QED BY ONLY <1>1, <1>3, Zenon

\* A turn adds one.
LEMMA TurnedIs ==
    ASSUME NEW l, IsLevel(l)
    PROVE  Turns(l, Turned(l), l.turns + 1)
<1>1. PICK k, n, s, u, b : l = [kind |-> k, turns |-> n, stack |-> s, used |-> u, under |-> b]
  BY ONLY IsLevel(l) DEF IsLevel
<1>2. k \in Kind /\ n \in Nat /\ u \in Nat
  BY ONLY <1>1, IsLevel(l) DEF IsLevel
<1>3. Turned(l) = [kind |-> k, turns |-> n + 1, stack |-> s, used |-> u + 1, under |-> b]
  <2>1. Turned(l) = [[l EXCEPT !.turns = n + 1] EXCEPT !.used = u + 1]
    BY ONLY <1>1 DEF Turned
  <2> QED BY ONLY <1>1, <2>1, TwoFields, Zenon
<1>4. n + 1 \in Nat /\ u + 1 \in Nat /\ u + 1 = (u - n) + (n + 1)
  BY ONLY <1>2
<1> QED BY ONLY <1>1, <1>2, <1>3, <1>4 DEF Turns, IsLevel

\* A return takes all.
LEMMA ReturnedIs ==
    ASSUME NEW l, IsLevel(l), l.used >= l.turns,
           NEW m, m = [l EXCEPT !.turns = 0, !.used = @ - l.turns]
    PROVE  Turns(l, m, 0)
<1>1. PICK k, n, s, u, b : l = [kind |-> k, turns |-> n, stack |-> s, used |-> u, under |-> b]
  BY ONLY IsLevel(l) DEF IsLevel
<1>2. k \in Kind /\ n \in Nat /\ u \in Nat /\ u >= n
  BY ONLY <1>1, IsLevel(l), l.used >= l.turns DEF IsLevel
<1>3. m = [kind |-> k, turns |-> 0, stack |-> s, used |-> u - n, under |-> b]
  <2>1. m = [[l EXCEPT !.turns = 0] EXCEPT !.used = u - n]
    BY ONLY <1>1, m = [l EXCEPT !.turns = 0, !.used = @ - l.turns]
  <2> QED BY ONLY <1>1, <2>1, TwoFields, Zenon
<1>4. u - n \in Nat /\ u - n = (u - n) + 0
  BY ONLY <1>2
<1> QED BY ONLY <1>1, <1>2, <1>3, <1>4 DEF Turns, IsLevel

\* A yield finds room, or a loop of yields has used it up; on a user stack it is a key's,
\* between sti and sysret.
LEMMA YieldRoom ==
    ASSUME NEW t, NEW l, Sane(t, l), l.kind \in {"syscall", "keyboard", "C"},
           l.kind = "keyboard" => l.turns < KEY_YIELDS
    PROVE  /\ Fits(l.stack, l.used) \/ LostTooMuch(l) \/ LostTooMuch(l.under)
           /\ l.stack = "user" => l.kind = "keyboard" /\ l.under.kind = "sti"
<1>1. CASE Base(t, l)
  <2>1. l.kind = "C" /\ l.stack = "kernel" /\ l.used = l.turns /\ l.turns \in Nat
    BY ONLY <1>1, l.kind \in {"syscall", "keyboard", "C"} DEF Base, IsLevel
  <2>2. ASSUME ~Fits(l.stack, l.used) PROVE LostTooMuch(l)
    BY ONLY <2>1, <2>2, Words DEF Fits, LostTooMuch
  <2> QED BY ONLY <2>1, <2>2
<1>2. CASE Inner(t, l) /\ t \in Users
  <2>1. /\ l.kind \in {"syscall", "keyboard"} /\ l.stack = "kernel" /\ l.turns \in Nat
        /\ l.used = FRAME + CALL + l.turns
    BY ONLY <1>2, l.kind \in {"syscall", "keyboard", "C"} DEF Inner, IsLevel
  <2>2. ASSUME ~Fits(l.stack, l.used) PROVE LostTooMuch(l)
    <3>1. (FRAME + CALL + l.turns) + FRAME + CALL > STACK
      BY ONLY <2>1, <2>2, Words DEF Fits
    <3>2. l.turns + 2 * (FRAME + CALL) + KEY_YIELDS > STACK
      BY ONLY <2>1, <3>1, Words
    <3>3. l.kind # "keyboard"
      BY ONLY <2>1, <3>1, Words, l.kind = "keyboard" => l.turns < KEY_YIELDS
    <3> QED BY ONLY <2>1, <3>2, <3>3 DEF LostTooMuch
  <2> QED BY ONLY <2>1, <2>2
<1>3. CASE Inner(t, l) /\ t \notin Users
  <2>1. /\ l.kind = "keyboard" /\ l.stack = "kernel" /\ l.turns \in Nat /\ l.under.turns \in Nat
        /\ l.used = l.under.turns + FRAME + CALL + l.turns /\ l.under.kind = "C"
    BY ONLY <1>3, l.kind \in {"syscall", "keyboard", "C"} DEF Inner, Base, IsLevel
  <2>2. ASSUME ~Fits(l.stack, l.used) PROVE LostTooMuch(l.under)
    <3>1. (l.under.turns + FRAME + CALL + l.turns) + FRAME + CALL > STACK /\ l.turns < 2
      BY ONLY <2>1, <2>2, Words, l.kind = "keyboard" => l.turns < KEY_YIELDS DEF Fits
    <3>2. l.under.turns + 2 * (FRAME + CALL) + KEY_YIELDS > STACK
      BY ONLY <2>1, <3>1, Words
    <3> QED BY ONLY <2>1, <3>2 DEF LostTooMuch
  <2> QED BY ONLY <2>1, <2>2
<1>4. CASE Deep(t, l)
  <2>1. l.kind = "keyboard" /\ l.stack = "user" /\ l.under.kind = "sti"
    BY ONLY <1>4, l.kind \in {"syscall", "keyboard", "C"} DEF Deep
  <2> QED BY ONLY <2>1 DEF Fits
<1> QED BY ONLY <1>1, <1>2, <1>3, <1>4, Sane(t, l) DEF Sane

-----------------------------------------------------------------------------

\* One thread's level changes.
LEMMA BecomesInv ==
    ASSUME EntryInv, NEW m, Sane(current, m), Becomes(m), current' = current, wild' = "no",
           gs' = CPU_DATA, kernel_gs' = CPU_DATA
    PROVE  EntryInv'
<1>1. current \in Threads /\ DOMAIN level = Threads /\ \A t \in Threads : Sane(t, level[t])
  BY DEF EntryInv
<1>2. level' = [level EXCEPT ![current] = m]
  BY DEF Becomes
<1>3. DOMAIN level' = Threads
  BY ONLY <1>1, <1>2
<1>4. ASSUME NEW t \in Threads PROVE Sane(t, level'[t])
  <2>1. level'[t] = IF t = current THEN m ELSE level[t]
    BY ONLY <1>1, <1>2
  <2> QED BY ONLY <1>1, <2>1, Sane(current, m)
<1> QED BY ONLY <1>1, <1>3, <1>4, current' = current, wild' = "no", gs' = CPU_DATA,
                kernel_gs' = CPU_DATA DEF EntryInv

\* The stack is left; nothing else happens.
LEMMA WildInv ==
    ASSUME EntryInv, level' = level, current' = current, gs' = CPU_DATA, kernel_gs' = CPU_DATA,
           wild' = "stack" => LostTooMuch(Running) \/ LostTooMuch(Running.under),
           wild' = "frame" => Running.kind = "keyboard" /\ Running.under.kind = "sti"
    PROVE  EntryInv'
<1>1. Running' = Running
  BY DEF Running
<1>2. /\ wild' = "stack" => LostTooMuch(Running') \/ LostTooMuch(Running'.under)
      /\ wild' = "frame" => Running'.kind = "keyboard" /\ Running'.under.kind = "sti"
  BY <1>1
<1>3. current' \in Threads /\ DOMAIN level' = Threads /\ \A t \in Threads : Sane(t, level'[t])
  BY DEF EntryInv
<1> QED BY ONLY <1>2, <1>3, gs' = CPU_DATA, kernel_gs' = CPU_DATA DEF EntryInv, LostTooMuch

\* What runs, and the registers.
LEMMA CurrentSane ==
    ASSUME EntryInv
    PROVE  /\ Sane(current, Running) /\ gs = CPU_DATA /\ kernel_gs = CPU_DATA
           /\ \A b \in BOOLEAN : swapgs(b) => gs' = CPU_DATA /\ kernel_gs' = CPU_DATA
BY DEF EntryInv, Running, swapgs

\* Entries.
LEMMA EnterInv ==
    ASSUME EntryInv, NEW kind, Enter(kind), gs' = CPU_DATA, kernel_gs' = CPU_DATA,
           \/ kind \in {"syscall", "fault"} /\ Running.kind = "user"
           \/ kind \in {"pit", "keyboard"} /\ Running.kind \in {"user", "sti", "C"}
           \/ kind = "pit" /\ Running.kind = "syscall"
    PROVE  EntryInv'
<1>1. PICK stack, used :
        /\ stack = IF Running.kind = "user" THEN "kernel" ELSE Running.stack
        /\ used = IF Running.kind = "user" THEN 0 ELSE Running.used
        /\ IF Fits(stack, used)
           THEN Becomes(Level(kind, stack, used + FRAME + CALL, Running)) /\ wild' = "no"
           ELSE UNCHANGED level /\ wild' = "stack"
        /\ UNCHANGED current
  BY ONLY Enter(kind), Zenon DEF Enter
<1>2. IF Fits(stack, used) THEN Sane(current, Level(kind, stack, used + FRAME + CALL, Running))
      ELSE LostTooMuch(Running)
  <2>1. Sane(current, Running)
    BY ONLY EntryInv, CurrentSane
  <2>2. PICK l : l = Running
    BY Zenon
  <2> QED BY <1>1, <2>1, <2>2, EnterSane, Zenon
<1>3. CASE Fits(stack, used)
  <2>1. PICK m : m = Level(kind, stack, used + FRAME + CALL, Running)
    BY Zenon
  <2> QED BY ONLY <1>1, <1>2, <1>3, <2>1, EntryInv, gs' = CPU_DATA, kernel_gs' = CPU_DATA, BecomesInv
<1>4. CASE ~Fits(stack, used)
  BY ONLY <1>1, <1>2, <1>4, EntryInv, gs' = CPU_DATA, kernel_gs' = CPU_DATA, WildInv
<1> QED BY ONLY <1>3, <1>4

\* Exits.
LEMMA LeaveInv ==
    ASSUME EntryInv, NEW kind \in {"pit", "keyboard", "fault", "sti"}, Leave(kind),
           gs' = CPU_DATA, kernel_gs' = CPU_DATA, wild = "no"
    PROVE  EntryInv'
<1>1. PICK m : m = Running.under
  BY Zenon
<1>2. Becomes(m) /\ current' = current /\ wild' = "no" /\ Running.kind = kind
  BY ONLY <1>1, Leave(kind), wild = "no" DEF Leave
<1>3. Sane(current, m)
  BY ONLY <1>1, <1>2, EntryInv, CurrentSane, LeaveSane, kind \in {"pit", "keyboard", "fault", "sti"}
<1> QED BY ONLY <1>2, <1>3, EntryInv, gs' = CPU_DATA, kernel_gs' = CPU_DATA, BecomesInv

\* From a system call to sti.
LEMMA SyscallExitInv ==
    ASSUME EntryInv, SyscallExit, wild = "no"
    PROVE  EntryInv'
<1>1. PICK m : m = Level("sti", "user", 0, Running.under)
  BY Zenon
<1>2. Becomes(m) /\ current' = current /\ wild' = "no" /\ Running.kind = "syscall" /\ swapgs(TRUE)
  BY ONLY <1>1, SyscallExit, wild = "no" DEF SyscallExit
<1>3. Sane(current, m)
  BY ONLY <1>1, <1>2, EntryInv, CurrentSane, SyscallExitSane
<1>4. gs' = CPU_DATA /\ kernel_gs' = CPU_DATA
  BY ONLY <1>2, EntryInv, CurrentSane
<1> QED BY ONLY <1>2, <1>3, <1>4, EntryInv, BecomesInv

\* A function returns.
LEMMA ReturnInv ==
    ASSUME EntryInv, Return, wild = "no"
    PROVE  EntryInv'
<1>1. PICK l : l = Running
  BY Zenon
<1>2. PICK m : m = [l EXCEPT !.turns = 0, !.used = @ - l.turns]
  BY Zenon
<1>3. /\ Becomes(m) /\ current' = current /\ wild' = "no" /\ l.kind \in {"C", "syscall"}
      /\ gs' = gs /\ kernel_gs' = kernel_gs
  BY ONLY <1>1, <1>2, Return, wild = "no" DEF Return
<1>4. Sane(current, l)
  BY ONLY <1>1, EntryInv, CurrentSane
<1>5. IsLevel(l) /\ l.used >= l.turns
  <2>1. IsLevel(l) /\ (l.used = l.turns \/ l.used = FRAME + CALL + l.turns)
    BY ONLY <1>3, <1>4, EnterFrom
  <2>2. l.turns \in Nat
    BY ONLY <2>1 DEF IsLevel
  <2> QED BY ONLY <2>1, <2>2, Words
<1>6. Turns(l, m, 0)
  BY ONLY <1>2, <1>5, ReturnedIs
<1>7. Sane(current, m)
  BY ONLY <1>3, <1>4, <1>6, TurnsSane
<1>8. gs' = CPU_DATA /\ kernel_gs' = CPU_DATA
  BY ONLY <1>3, EntryInv, CurrentSane
<1> QED BY ONLY <1>3, <1>7, <1>8, EntryInv, BecomesInv

\* The first frame of a thread.
LEMMA StartedSane ==
    ASSUME NEW t \in Threads, Sane(t, level[t]), level[t].kind = "new"
    PROVE  Sane(t, Started(t))
<1>1. Base(t, level[t])
  BY DEF Sane, Inner, Deep
<1>2. PICK k, n, s, u, b :
        level[t] = [kind |-> k, turns |-> n, stack |-> s, used |-> u, under |-> b]
  BY ONLY <1>1 DEF Base, IsLevel
<1>3. PICK k2 : k2 = IF t \in Users THEN "user" ELSE "C"
  BY Zenon
<1>4. Started(t) = [kind |-> k2, turns |-> n, stack |-> s, used |-> u, under |-> b]
  BY ONLY <1>2, <1>3 DEF Started
<1>5. Base(t, Started(t))
  BY ONLY <1>1, <1>2, <1>3, <1>4 DEF Base, IsLevel, Kind
<1> QED BY ONLY <1>5 DEF Sane

\* Switches.
LEMMA YieldInv ==
    ASSUME EntryInv, NEW to \in Threads, kernel_yield(to)
    PROVE  EntryInv'
<1>1. PICK l : l = Running
  BY Zenon
<1>2. /\ l.kind \in {"syscall", "keyboard", "C"}
      /\ l.turns < IF l.kind = "keyboard" THEN KEY_YIELDS ELSE MaxTurns
      /\ wild' = IF ~Fits(l.stack, l.used) THEN "stack"
                 ELSE IF l.stack = "user" /\ to # current THEN "frame" ELSE "no"
      /\ IF wild' = "no"
         THEN /\ current' = to
              /\ level' = [level EXCEPT ![current] = Turned(@),
                                        ![to] = IF level[to].kind = "new" THEN Started(to) ELSE @]
              /\ swapgs(level[to].kind = "new" /\ to \in Users)
         ELSE UNCHANGED <<gs, kernel_gs, current, level>>
  BY ONLY <1>1, kernel_yield(to), Zenon DEF kernel_yield
<1>3. Sane(current, l) /\ gs = CPU_DATA /\ kernel_gs = CPU_DATA
  BY ONLY <1>1, EntryInv, CurrentSane
<1>4. l.kind = "keyboard" => l.turns < KEY_YIELDS
  BY ONLY <1>2
<1>5. /\ Fits(l.stack, l.used) \/ LostTooMuch(l) \/ LostTooMuch(l.under)
      /\ l.stack = "user" => l.kind = "keyboard" /\ l.under.kind = "sti"
  BY ONLY <1>2, <1>3, <1>4, YieldRoom
<1>6. CASE wild' # "no"
  <2>1. level' = level /\ current' = current /\ gs' = CPU_DATA /\ kernel_gs' = CPU_DATA
    BY ONLY <1>2, <1>3, <1>6
  <2>2. /\ wild' = "stack" => LostTooMuch(Running) \/ LostTooMuch(Running.under)
        /\ wild' = "frame" => Running.kind = "keyboard" /\ Running.under.kind = "sti"
    BY ONLY <1>1, <1>2, <1>5
  <2> QED BY ONLY <2>1, <2>2, EntryInv, WildInv
<1>7. CASE wild' = "no"
  <2>1. current \in Threads /\ DOMAIN level = Threads /\ \A t \in Threads : Sane(t, level[t])
    BY ONLY EntryInv DEF EntryInv
  <2>2. IsLevel(l) /\ l.turns \in Nat
    BY ONLY <1>3, EnterFrom DEF IsLevel
  <2>3. PICK m : m = Turned(l)
    BY Zenon
  <2>4. Sane(current, m)
    <3>1. Turns(l, m, l.turns + 1)
      BY ONLY <2>2, <2>3, TurnedIs
    <3>2. l.turns + 1 \in Nat /\ (l.kind = "keyboard" => l.turns + 1 <= KEY_YIELDS)
      BY ONLY <1>4, <2>2, Words
    <3> QED BY ONLY <1>2, <1>3, <3>1, <3>2, TurnsSane
  <2>5. PICK other : other = [level EXCEPT ![current] = m]
    BY Zenon
  <2>6. /\ DOMAIN other = Threads /\ other[current] = m
        /\ \A t \in Threads : t # current => other[t] = level[t]
    BY ONLY <2>1, <2>5
  <2>7. \A t \in Threads : Sane(t, other[t])
    BY ONLY <2>1, <2>4, <2>6
  <2>8. PICK n : n = IF level[to].kind = "new" THEN Started(to) ELSE other[to]
    BY Zenon
  <2>9. level' = [other EXCEPT ![to] = n]
    BY ONLY <1>1, <1>2, <1>7, <2>1, <2>3, <2>5, <2>8, to \in Threads DEF Running
  <2>10. Sane(to, n)
    BY ONLY <2>1, <2>7, <2>8, to \in Threads, StartedSane
  <2>11. DOMAIN level' = Threads /\ \A t \in Threads : Sane(t, level'[t])
    <3>1. DOMAIN level' = Threads /\ \A t \in Threads : level'[t] = IF t = to THEN n ELSE other[t]
      BY ONLY <2>6, <2>9, to \in Threads
    <3> QED BY ONLY <2>7, <2>10, <3>1
  <2>12. gs' = CPU_DATA /\ kernel_gs' = CPU_DATA /\ current' = to
    BY ONLY <1>2, <1>3, <1>7 DEF swapgs
  <2> QED BY ONLY <2>11, <2>12, <1>7, to \in Threads DEF EntryInv
<1> QED BY ONLY <1>6, <1>7

\* Every step.
LEMMA EntryStep ==
    ASSUME EntryInv, [EntryNext]_entryVars
    PROVE  EntryInv'
<1>1. CASE UNCHANGED entryVars
  <2>1. /\ level' = level /\ current' = current /\ gs' = gs /\ kernel_gs' = kernel_gs
        /\ wild' = wild
    BY ONLY <1>1 DEF entryVars
  <2>2. /\ wild' = "stack" => LostTooMuch(Running) \/ LostTooMuch(Running.under)
        /\ wild' = "frame" => Running.kind = "keyboard" /\ Running.under.kind = "sti"
        /\ gs = CPU_DATA /\ kernel_gs = CPU_DATA
    BY ONLY <2>1, EntryInv DEF EntryInv
  <2> QED BY ONLY <2>1, <2>2, EntryInv, WildInv
<1>2. CASE EntryNext
  <2>0. \A b \in BOOLEAN : swapgs(b) => gs' = CPU_DATA /\ kernel_gs' = CPU_DATA
    BY ONLY EntryInv, CurrentSane
  <2>w. wild = "no"
    BY ONLY <1>2 DEF EntryNext
  <2>c. gs = CPU_DATA /\ kernel_gs = CPU_DATA
    BY ONLY EntryInv, CurrentSane
  <2>1. CASE syscall_entry_asm
    <3>1. Enter("syscall") /\ Running.kind = "user" /\ gs' = CPU_DATA /\ kernel_gs' = CPU_DATA
      BY ONLY <2>0, <2>1 DEF syscall_entry_asm
    <3> QED BY ONLY <3>1, EnterInv, EntryInv
  <2>2. CASE pit_interrupt
    <3>1. /\ Enter("pit") /\ Running.kind \in {"user", "sti", "C", "syscall"}
          /\ swapgs(Running.kind = "user")
      BY ONLY <2>2 DEF pit_interrupt, InterruptsOn
    <3>2. gs' = CPU_DATA /\ kernel_gs' = CPU_DATA
      BY ONLY <2>0, <3>1
    <3> QED BY ONLY <3>1, <3>2, EnterInv, EntryInv
  <2>3. CASE keyboard_interrupt
    <3>1. /\ Enter("keyboard") /\ Running.kind \in {"user", "sti", "C"}
          /\ gs' = CPU_DATA /\ kernel_gs' = CPU_DATA
      BY ONLY <2>c, <2>3 DEF keyboard_interrupt, InterruptsOn
    <3> QED BY ONLY <3>1, EnterInv, EntryInv
  <2>4. CASE pagefault_interrupt
    <3>1. Enter("fault") /\ Running.kind = "user" /\ gs' = CPU_DATA /\ kernel_gs' = CPU_DATA
      BY ONLY <2>c, <2>4 DEF pagefault_interrupt
    <3> QED BY ONLY <3>1, EnterInv, EntryInv
  <2>5. CASE pit_interrupt_exit
    <3>1. Leave("pit") /\ gs' = CPU_DATA /\ kernel_gs' = CPU_DATA
      BY ONLY <2>0, <2>5 DEF pit_interrupt_exit
    <3> QED BY ONLY <2>w, <3>1, LeaveInv, EntryInv
  <2>6. CASE KeyboardExit
    <3>1. Leave("keyboard") /\ gs' = CPU_DATA /\ kernel_gs' = CPU_DATA
      BY ONLY <2>c, <2>6 DEF KeyboardExit
    <3> QED BY ONLY <2>w, <3>1, LeaveInv, EntryInv
  <2>7. CASE PageFaultExit
    <3>1. Leave("fault") /\ gs' = CPU_DATA /\ kernel_gs' = CPU_DATA
      BY ONLY <2>c, <2>7 DEF PageFaultExit
    <3> QED BY ONLY <2>w, <3>1, LeaveInv, EntryInv
  <2>8. CASE sysret
    <3>1. Leave("sti") /\ gs' = CPU_DATA /\ kernel_gs' = CPU_DATA
      BY ONLY <2>c, <2>8 DEF sysret
    <3> QED BY ONLY <2>w, <3>1, LeaveInv, EntryInv
  <2>9. CASE SyscallExit \/ Return
    BY ONLY <2>w, <2>9, SyscallExitInv, ReturnInv, EntryInv
  <2>10. ASSUME NEW to \in Threads, kernel_yield(to) PROVE EntryInv'
    BY ONLY <2>10, YieldInv, EntryInv
  <2> QED BY ONLY <1>2, <2>1, <2>2, <2>3, <2>4, <2>5, <2>6, <2>7, <2>8, <2>9, <2>10, Zenon
          DEF EntryNext
<1> QED BY ONLY <1>1, <1>2, [EntryNext]_entryVars

\* kmain, and threads that have not run.
LEMMA EntryStart ==
    ASSUME EntryInit
    PROVE  EntryInv
<1>1. MAIN \in Threads /\ MAIN \notin Users
  BY EntryAssumption DEF Threads
<1>2. ASSUME NEW t \in Threads PROVE Sane(t, level[t])
  <2>1. PICK k, s : k = (IF t = MAIN THEN "C" ELSE "new") /\ s = IF t \in Users THEN "user" ELSE "kernel"
    BY Zenon
  <2>2. level[t] = Level(k, s, 0, Nothing)
    BY ONLY <2>1, EntryInit, t \in Threads DEF EntryInit
  <2>3. /\ IsLevel(level[t]) /\ level[t].kind = k /\ level[t].turns = 0 /\ level[t].stack = s
        /\ level[t].used = 0 /\ level[t].under = Nothing
    <3>1. k \in Kind /\ 0 \in Nat
      BY ONLY <2>1 DEF Kind
    <3> QED BY ONLY <2>2, <3>1, Entered
  <2>4. Base(t, level[t])
    BY ONLY <1>1, <2>1, <2>3 DEF Base
  <2> QED BY ONLY <2>4 DEF Sane
<1>3. /\ gs = CPU_DATA /\ kernel_gs = CPU_DATA /\ current = MAIN /\ wild = "no"
      /\ DOMAIN level = Threads
  BY ONLY EntryInit DEF EntryInit, init_syscall_gs
<1> QED BY ONLY <1>1, <1>2, <1>3 DEF EntryInv

\* The next system call finds cpu_data; only a loop of yields runs a kernel stack out, and
\* only a key between sti and sysret leads to foreign memory: for any number of threads
\* and turns, any size of the frames and any stack that holds two of them.
THEOREM EntryCorrect == EntrySpec => []EntrySound
<1>1. EntryInit => EntryInv
  BY EntryStart
<1>2. EntryInv /\ [EntryNext]_entryVars => EntryInv'
  BY EntryStep
<1>3. EntryInv => EntrySound
  BY DEF EntryInv, EntrySound
<1> QED BY <1>1, <1>2, <1>3, PTL DEF EntrySpec
=============================================================================
