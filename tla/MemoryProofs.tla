---------------------------- MODULE MemoryProofs -----------------------------
(***************************************************************************)
(* Frames and address spaces, for every memory map and every number of     *)
(* processes: a frame has one use, whatever the order of the calls.        *)
(***************************************************************************)
EXTENDS Memory, FiniteSetTheorems, WellFoundedInduction, TLAPS

\* include/mem/mem.h: 4096 bytes in a page; a byte of the bitmap has 8 bits, a uint32_t 32.
KernelPages == PAGE_SIZE = 4096 /\ BITS = 8 /\ UINT32 = 4294967296

-----------------------------------------------------------------------------
(* Least and greatest numbers. *)

\* A set of numbers that is not empty has a least one.
LEMMA Least ==
    ASSUME NEW T, T \subseteq Nat, T # {}
    PROVE  \E n \in T : \A m \in T : n <= m
<1> DEFINE R == OpToRel(<, Nat)
<1>1. IsWellFoundedOn(R, Nat)
  BY NatLessThanWellFounded
<1> HIDE DEF R
<1>2. PICK n \in T : \A m \in T : ~(<<m, n>> \in R)
  BY ONLY <1>1, T \subseteq Nat, T # {}, WFMin
<1>3. \A m \in T : ~(m < n)
  BY ONLY <1>2, T \subseteq Nat DEF R, OpToRel
<1> QED BY ONLY <1>3, n \in T, T \subseteq Nat

\* Min picks the least element of a set of frame numbers, as the scan of pmm_alloc does.
LEMMA MinIn ==
    ASSUME NEW S, S \subseteq Nat, S # {}
    PROVE  Min(S) \in S /\ \A y \in S : Min(S) <= y
<1>1. \E x \in S : \A y \in S : x =< y
  BY Least
<1> QED BY <1>1, Zenon DEF Min

\* Max of a finite set of addresses is its greatest.
LEMMA MaxIn ==
    ASSUME NEW S, S \subseteq Nat, S # {}, NEW b \in Nat, \A x \in S : x <= b
    PROVE  Max(S) \in S /\ \A y \in S : y <= Max(S)
<1> DEFINE T == {b - x : x \in S}
<1>1. T \subseteq Nat /\ T # {}
  <2>1. ASSUME NEW x \in S PROVE b - x \in Nat
    <3>1. x \in Nat /\ x <= b
      OBVIOUS
    <3> QED BY ONLY <3>1, b \in Nat
  <2> QED BY <2>1, Zenon
<1>2. PICK n \in T : \A k \in T : n <= k
  BY <1>1, Least, Zenon
<1>3. PICK x \in S : n = b - x
  BY Zenon
<1>4. ASSUME NEW y \in S PROVE x >= y
  <2>1. b - y \in T
    OBVIOUS
  <2>2. b - x <= b - y
    BY <1>2, <1>3, <2>1
  <2>3. x \in Nat /\ y \in Nat
    OBVIOUS
  <2> QED BY ONLY <2>2, <2>3, b \in Nat
<1>5. Max(S) \in S /\ \A y \in S : Max(S) >= y
  BY <1>4, Zenon DEF Max
<1> QED BY <1>5

\* Finitely many numbers have a bound.
LEMMA Bounded ==
    ASSUME NEW n \in Nat, NEW f, \A i \in 1 .. n : f[i] \in Nat
    PROVE  \E b \in Nat : \A i \in 1 .. n : f[i] <= b
<1> DEFINE Bad == {k \in 0 .. n : ~\E b \in Nat : \A i \in 1 .. k : f[i] <= b}
<1>1. SUFFICES ASSUME Bad # {} PROVE FALSE
  <2>1. n \notin Bad
    BY <1>1
  <2> QED BY <2>1
<1>2. Bad \subseteq Nat
  OBVIOUS
<1>3. PICK k \in Bad : \A j \in Bad : k <= j
  BY <1>1, <1>2, Least, Zenon
<1>4. CASE k = 0
  BY <1>4
<1>5. CASE k # 0
  <2>1. k - 1 \in 0 .. n /\ k - 1 \notin Bad /\ k \in 1 .. n
    <3>1. k \in 0 .. n
      BY <1>3
    <3>2. k - 1 \in 0 .. n /\ k \in 1 .. n /\ ~(k <= k - 1)
      BY ONLY <1>5, <3>1, n \in Nat
    <3> HIDE DEF Bad
    <3> QED BY <1>3, <3>2, Zenon
  <2>2. PICK b \in Nat : \A i \in 1 .. k - 1 : f[i] <= b
    BY <2>1
  <2>3. PICK c \in Nat : b <= c /\ f[k] <= c
    <3>1. f[k] \in Nat
      BY <2>1
    <3>2. CASE b <= f[k]
      BY <3>1, <3>2
    <3>3. CASE ~(b <= f[k])
      BY <3>1, <3>3
    <3> QED BY <3>2, <3>3
  <2>4. \A i \in 1 .. k : f[i] <= c
    <3>1. ASSUME NEW i \in 1 .. k PROVE f[i] <= c
      <4>1. i = k \/ i \in 1 .. k - 1
        BY <2>1
      <4>2. f[i] \in Nat
        BY <2>1
      <4>3. CASE i \in 1 .. k - 1
        <5>1. f[i] <= b
          BY <2>2, <4>3
        <5> QED BY ONLY <2>3, <4>2, <5>1, b \in Nat, c \in Nat
      <4> QED BY <2>3, <4>1, <4>3
    <3> QED BY <3>1
  <2> QED BY <2>4
<1> QED BY <1>4, <1>5

-----------------------------------------------------------------------------
(* What init_bitmap makes of a memory map. *)

\* get_highest_phys_addr is not below the end of any entry that counts.
LEMMA Highest ==
    ASSUME NEW mm \in MemMaps
    PROVE  /\ get_highest_phys_addr(mm) \in Nat
           /\ \A i \in DOMAIN mm : mm[i].type # "reserved" => mm[i].base + mm[i].length <= get_highest_phys_addr(mm)
<1> DEFINE End(i) == mm[i].base + mm[i].length
           S == {0} \cup {End(i) : i \in {j \in DOMAIN mm : mm[j].type # "reserved"}}
           f == [i \in DOMAIN mm |-> End(i)]
<1>1. mm \in Seq(MemMapEntries)
  BY MapAssumption
<1>2. Len(mm) \in Nat /\ DOMAIN mm = 1 .. Len(mm) /\ \A i \in 1 .. Len(mm) : End(i) \in Nat
  <2>1. Len(mm) \in Nat /\ DOMAIN mm = 1 .. Len(mm) /\ \A i \in 1 .. Len(mm) : mm[i] \in MemMapEntries
    BY <1>1
  <2>2. ASSUME NEW i \in 1 .. Len(mm) PROVE mm[i].base \in Nat /\ mm[i].length \in Nat
    BY <2>1 DEF MemMapEntries
  <2> QED BY <2>1, <2>2
<1>3. \E b \in Nat : \A i \in 1 .. Len(mm) : f[i] <= b
  <2>1. \A i \in 1 .. Len(mm) : f[i] \in Nat
    BY <1>2
  <2> HIDE DEF f
  <2> QED BY <1>2, <2>1, Bounded
<1>4. PICK b \in Nat : \A i \in 1 .. Len(mm) : End(i) <= b
  BY <1>2, <1>3
<1>5. S \subseteq Nat /\ S # {} /\ \A x \in S : x <= b
  <2> HIDE DEF End
  <2> QED BY <1>2, <1>4
<1>6. get_highest_phys_addr(mm) = Max(S)
  BY Zenon DEF get_highest_phys_addr
<1>7. Max(S) \in S /\ \A y \in S : y <= Max(S)
  <2> HIDE DEF S
  <2> QED BY <1>5, MaxIn
<1> QED BY <1>5, <1>6, <1>7

\* The bitmap lies at the start of a usable entry.
LEMMA HostFacts ==
    ASSUME KernelPages, NEW mm \in MemMaps
    PROVE  /\ mm \in Seq(MemMapEntries) /\ bitmap_size(mm) \in Nat
           /\ Host(mm) \in UsableIn(mm) /\ mm[Host(mm)].length >= bitmap_size(mm)
<1> DEFINE S == {i \in DOMAIN mm : mm[i].type = "usable" /\ mm[i].length >= bitmap_size(mm)}
<1>1. mm \in Seq(MemMapEntries) /\ S # {}
  BY MapAssumption
<1>2. S \subseteq Nat
  BY <1>1
<1>3. Host(mm) \in S
  BY <1>1, <1>2, MinIn DEF Host
<1>4. bitmap_size(mm) \in Nat
  <2>1. get_highest_phys_addr(mm) \in Nat
    BY Highest
  <2> QED BY ONLY <2>1, KernelPages DEF bitmap_size, KernelPages
<1> QED BY <1>1, <1>3, <1>4 DEF UsableIn

\* Taking the bitmap off the map changes its host entry and no other.
LEMMA AfterFacts ==
    ASSUME KernelPages, NEW mm \in MemMaps, NEW i \in UsableIn(mm)
    PROVE  /\ AfterBitmap(mm)[i].base = mm[i].base + (IF i = Host(mm) THEN bitmap_size(mm) ELSE 0)
           /\ AfterBitmap(mm)[i].length = mm[i].length - (IF i = Host(mm) THEN bitmap_size(mm) ELSE 0)
<1>1. /\ mm \in Seq(MemMapEntries) /\ bitmap_size(mm) \in Nat
      /\ Host(mm) \in UsableIn(mm) /\ mm[Host(mm)].length >= bitmap_size(mm)
  BY HostFacts
<1>2. PICK h : h = Host(mm)
  BY Zenon
<1>3. PICK z : z = bitmap_size(mm)
  BY Zenon
<1>4. AfterBitmap(mm) = [mm EXCEPT ![h].base = @ + z, ![h].length = @ - z]
  BY <1>2, <1>3 DEF AfterBitmap
<1>5. i \in DOMAIN mm /\ h \in DOMAIN mm /\ mm[i] \in MemMapEntries /\ mm[h] \in MemMapEntries
  BY <1>1, <1>2 DEF UsableIn
<1> QED BY ONLY <1>2, <1>3, <1>4, <1>5, <1>1 DEF MemMapEntries

\* Where the frames lie whose bits init_bitmap clears.
LEMMA FrameAt ==
    ASSUME KernelPages, NEW mm \in MemMaps, NEW i \in UsableIn(mm), NEW f \in FramesOf(AfterBitmap(mm)[i])
    PROVE  /\ f \in Nat /\ mm[i] \in MemMapEntries
           /\ mm[i].base <= f * PAGE_SIZE /\ (f + 1) * PAGE_SIZE <= mm[i].base + mm[i].length
           /\ i = Host(mm) => mm[i].base + bitmap_size(mm) < (f + 1) * PAGE_SIZE
<1> DEFINE e == AfterBitmap(mm)[i]
           z == IF i = Host(mm) THEN bitmap_size(mm) ELSE 0
<1>1. mm \in Seq(MemMapEntries) /\ bitmap_size(mm) \in Nat /\ mm[Host(mm)].length >= bitmap_size(mm)
  BY HostFacts
<1>2. i \in DOMAIN mm /\ mm[i] \in MemMapEntries
  BY <1>1 DEF UsableIn
<1>3. /\ mm[i].base \in Nat /\ mm[i].length \in Nat /\ z \in Nat
      /\ mm[i].base % 4096 = 0 /\ mm[i].length % 4096 = 0
  BY <1>1, <1>2, MapAssumption DEF KernelPages, MemMapEntries
<1>4. e.base = mm[i].base + z /\ e.length = mm[i].length - z
  BY AfterFacts
<1>5. PICK k \in 0 .. e.length : k * PAGE_SIZE < e.length /\ f = (e.base + k * PAGE_SIZE) \div PAGE_SIZE
  BY DEF FramesOf
<1> HIDE DEF e, z
<1>6. PICK B, L, Z : B = mm[i].base /\ L = mm[i].length /\ Z = z
  BY Zenon
<1>7. k \in Nat /\ B \in Nat /\ L \in Nat /\ Z \in Nat
  <2>1. e.length \in Int
    BY <1>3, <1>4
  <2> QED BY <1>3, <1>6, <2>1
<1>8. k * 4096 < L - Z /\ f = (B + Z + k * 4096) \div 4096 /\ B % 4096 = 0 /\ L % 4096 = 0
  BY <1>3, <1>4, <1>5, <1>6 DEF KernelPages
<1>9. /\ f \in Nat /\ B <= f * 4096 /\ (f + 1) * 4096 <= B + L
      /\ B + Z < (f + 1) * 4096
  BY ONLY <1>7, <1>8
<1>10. i = Host(mm) => z = bitmap_size(mm)
  BY DEF z
<1> QED BY <1>2, <1>6, <1>9, <1>10 DEF KernelPages

\* init_bitmap frees usable memory only.
LEMMA FreeUsable ==
    ASSUME KernelPages, NEW mm \in MemMaps, NEW f \in FreeAtBoot(mm)
    PROVE  f \in UsableFrames(mm) /\ f \in Nat
<1>1. PICK i \in UsableIn(mm) : f \in FramesOf(AfterBitmap(mm)[i])
  BY DEF FreeAtBoot
<1>2. /\ f \in Nat /\ mm[i] \in MemMapEntries
      /\ mm[i].base <= f * PAGE_SIZE /\ (f + 1) * PAGE_SIZE <= mm[i].base + mm[i].length
  BY <1>1, FrameAt
<1>3. mm[i].base + mm[i].length <= get_highest_phys_addr(mm) /\ get_highest_phys_addr(mm) \in Nat
  BY Highest DEF UsableIn
<1>4. f \in Frames(mm)
  <2>1. mm[i].base \in Nat /\ mm[i].length \in Nat
    BY <1>2 DEF MemMapEntries
  <2> QED BY ONLY <1>2, <1>3, <2>1, KernelPages DEF Frames, KernelPages
<1> QED BY <1>2, <1>4 DEF UsableFrames

\* Only the frame in which the bitmap ends is both free and part of the bitmap.
LEMMA TailOnly ==
    ASSUME KernelPages, NEW mm \in MemMaps, NEW f \in FreeAtBoot(mm), f \in BitmapFrames(mm)
    PROVE  f \in TailFrame(mm)
<1> DEFINE h == Host(mm)
           z == bitmap_size(mm)
<1>1. PICK i \in UsableIn(mm) : f \in FramesOf(AfterBitmap(mm)[i])
  BY DEF FreeAtBoot
<1>2. /\ f \in Nat /\ mm[i] \in MemMapEntries
      /\ mm[i].base <= f * PAGE_SIZE /\ (f + 1) * PAGE_SIZE <= mm[i].base + mm[i].length
      /\ i = h => mm[i].base + z < (f + 1) * PAGE_SIZE
  BY <1>1, FrameAt
<1>3. mm \in Seq(MemMapEntries) /\ z \in Nat /\ h \in UsableIn(mm) /\ mm[h].length >= z
  BY HostFacts
<1>4. PICK b \in mm[h].base .. (mm[h].base + z - 1) : f = b \div PAGE_SIZE
  BY DEF BitmapFrames
<1>5. mm[h] \in MemMapEntries
  BY <1>3 DEF UsableIn
<1>6. i # h => \/ mm[i].base + mm[i].length <= mm[h].base
               \/ mm[h].base + mm[h].length <= mm[i].base
  BY <1>3, MapAssumption
<1> HIDE DEF h, z
<1>7. /\ mm[i].base \in Nat /\ mm[i].length \in Nat /\ mm[h].base \in Nat /\ mm[h].length \in Nat
  BY <1>2, <1>5 DEF MemMapEntries
<1>8. CASE i # h
  <2>1. b \in Int /\ mm[h].base <= b /\ b < mm[h].base + mm[h].length
    BY ONLY <1>3, <1>4, <1>7
  <2>2. f * 4096 <= b /\ b < (f + 1) * 4096
    BY ONLY <1>4, <2>1, KernelPages DEF KernelPages
  <2>3. mm[i].base <= b /\ b < mm[i].base + mm[i].length
    BY ONLY <1>2, <1>7, <2>1, <2>2, KernelPages DEF KernelPages
  <2> QED BY ONLY <1>6, <1>7, <1>8, <2>1, <2>3
<1>9. CASE i = h
  <2>1. PICK B : B = mm[h].base
    BY Zenon
  <2>2. B \in Nat /\ z \in Nat /\ b \in Int /\ B <= b /\ b < B + z /\ f = b \div 4096 /\ B + z < (f + 1) * 4096
    BY <1>2, <1>3, <1>4, <1>7, <1>9, <2>1 DEF KernelPages
  <2>3. f = (B + z) \div 4096 /\ (B + z) % 4096 # 0
    BY ONLY <1>2, <2>2
  <2> QED BY <2>1, <2>3 DEF TailFrame, KernelPages, h, z
<1> QED BY <1>8, <1>9

\* Pairs of two finite sets.
LEMMA FinitePairs ==
    ASSUME NEW A, NEW B, IsFiniteSet(A), IsFiniteSet(B), NEW C, \A p \in C : \E a \in A, b \in B : p = <<a, b>>
    PROVE  IsFiniteSet(C)
<1>1. IsFiniteSet(A \X B)
  BY FS_Product
<1>2. C \subseteq A \X B
  OBVIOUS
<1> QED BY <1>1, <1>2, FS_Subset

\* pmm_alloc looks at frames of the map only.
LEMMA PagesFit ==
    ASSUME KernelPages, NEW mm \in MemMaps
    PROVE  usable_pages(mm) \in Nat /\ \A f \in 0 .. (usable_pages(mm) - 1) : f \in Frames(mm)
<1> DEFINE Pairs == UNION {{i} \X FramesOf(AfterBitmap(mm)[i]) : i \in UsableIn(mm)}
           H == get_highest_phys_addr(mm)
<1>1. H \in Nat /\ mm \in Seq(MemMapEntries)
  BY Highest, MapAssumption
<1>2. IsFiniteSet(DOMAIN mm) /\ IsFiniteSet(Frames(mm))
  <2>1. DOMAIN mm = 1 .. Len(mm) /\ Len(mm) \in Nat
    BY <1>1
  <2>2. Frames(mm) = 0 .. ((H \div 4096) - 1) /\ (H \div 4096) - 1 \in Int
    <3> HIDE DEF H
    <3>1. (H \div 4096) - 1 \in Int
      BY ONLY <1>1
    <3> QED BY <3>1 DEF Frames, KernelPages, H
  <2> HIDE DEF H
  <2> QED BY <2>1, <2>2, FS_Interval
<1>3. \A p \in Pairs : \E a \in DOMAIN mm, b \in Frames(mm) : p = <<a, b>>
  <2>1. ASSUME NEW i \in UsableIn(mm), NEW f \in FramesOf(AfterBitmap(mm)[i]) PROVE i \in DOMAIN mm /\ f \in Frames(mm)
    BY FreeUsable DEF FreeAtBoot, UsableIn, UsableFrames
  <2>2. ASSUME NEW p \in Pairs PROVE \E a \in DOMAIN mm, b \in Frames(mm) : p = <<a, b>>
    <3>1. PICK i \in UsableIn(mm) : p \in {i} \X FramesOf(AfterBitmap(mm)[i])
      BY <2>2, Zenon
    <3>2. p = <<p[1], p[2]>> /\ p[1] = i /\ p[2] \in FramesOf(AfterBitmap(mm)[i])
      BY <3>1
    <3>3. p[1] \in DOMAIN mm /\ p[2] \in Frames(mm)
      BY <2>1, <3>2, Zenon
    <3> QED BY <3>2, <3>3, Zenon
  <2> QED BY <2>2, Zenon
<1>4. IsFiniteSet(Pairs)
  <2> HIDE DEF Pairs
  <2>1. PICK A, B : A = DOMAIN mm /\ B = Frames(mm)
    BY Zenon
  <2>2. IsFiniteSet(A) /\ IsFiniteSet(B)
    BY <1>2, <2>1
  <2>3. \A p \in Pairs : \E a \in A, b \in B : p = <<a, b>>
    BY <1>3, <2>1, Zenon
  <2> QED BY ONLY <2>2, <2>3, FinitePairs
<1>5. usable_pages(mm) \in Nat
  <2> HIDE DEF Pairs
  <2>1. Cardinality(Pairs) \in Nat
    BY <1>4, FS_CardinalityType
  <2> QED BY <2>1 DEF Pairs, usable_pages
<1>6. usable_pages(mm) <= (bitmap_size(mm) \div 4096) * 4096 * 8
  BY MapAssumption DEF KernelPages
<1>7. bitmap_size(mm) = (H \div 4096) \div 8
  BY DEF bitmap_size, KernelPages
<1> HIDE DEF H
<1>8. usable_pages(mm) <= H \div 4096
  BY ONLY <1>1, <1>5, <1>6, <1>7
<1>9. Frames(mm) = 0 .. ((H \div 4096) - 1)
  BY DEF H, Frames, KernelPages
<1> QED BY ONLY <1>1, <1>5, <1>8, <1>9

-----------------------------------------------------------------------------
(* pmm_alloc. *)

Booted == memmap \in MemMaps /\ total_pages = usable_pages(memmap)

\* The frames that pmm_alloc has returned, by bitmap b.
Given(b) == {f \in b : f \in FreeAtBoot(memmap) /\ f # NULL}

\* What is not memory has its bit set; pmm_alloc has gone through the frames in order.
BitmapOk(b) ==
    /\ Frames(memmap) \ FreeAtBoot(memmap) \subseteq b
    /\ \A t \in Given(b), g \in FreeFrames(b) : t < g

\* f is a frame nobody has.
Fresh(b, f) ==
    /\ f \in FreeAtBoot(memmap) /\ f # NULL /\ f \in Nat /\ f \notin b
    /\ f \in FreeFrames(b) /\ \A g \in FreeFrames(b) : f <= g
    /\ \A t \in Given(b) : t < f
    /\ BitmapOk(Taken(b, f)) /\ Given(Taken(b, f)) = Given(b) \cup {f}

\* pmm_alloc returns a fresh frame as long as there is one.
LEMMA Alloc ==
    ASSUME KernelPages, Booted, NEW b, BitmapOk(b), NEW f, f = pmm_alloc(b)
    PROVE  (f = NULL => FreeFrames(b) = {}) /\ (f # NULL => Fresh(b, f))
<1> DEFINE F == FreeFrames(b)
<1>1. total_pages \in Nat /\ \A g \in 0 .. total_pages - 1 : g \in Frames(memmap)
  BY PagesFit DEF Booted
<1>2. F \subseteq Nat /\ NULL \notin F
  BY <1>1 DEF FreeFrames, NULL
<1>3. CASE F = {}
  BY <1>3 DEF pmm_alloc
<1>4. CASE F # {}
  <2> HIDE DEF F
  <2>1. f \in F /\ \A g \in F : f <= g
    <3>1. Min(F) \in F /\ \A g \in F : Min(F) <= g
      BY <1>2, <1>4, MinIn, Zenon
    <3> QED BY <1>4, <3>1 DEF pmm_alloc, F
  <2>2. f \in Nat /\ f # NULL /\ f \notin b /\ f \in Frames(memmap)
    BY <1>1, <1>2, <2>1 DEF F, FreeFrames
  <2>3. f \in FreeAtBoot(memmap)
    BY <2>2 DEF BitmapOk
  <2>4. \A t \in Given(b) : t < f
    BY <2>1 DEF BitmapOk, F
  <2>5. Given(Taken(b, f)) = Given(b) \cup {f}
    BY <2>2, <2>3, Zenon DEF Given, Taken
  <2>6. FreeFrames(Taken(b, f)) = F \ {f}
    BY Zenon DEF F, FreeFrames, Taken
  <2>7. ASSUME NEW t \in Given(b) \cup {f}, NEW g \in F \ {f} PROVE t < g
    <3>1. CASE t \in Given(b)
      BY <3>1 DEF BitmapOk, F
    <3>2. CASE t = f
      <4>1. f <= g /\ g # f /\ g \in Nat
        BY <1>2, <2>1
      <4> QED BY ONLY <2>2, <3>2, <4>1
    <3> QED BY <3>1, <3>2
  <2>8. BitmapOk(Taken(b, f))
    BY <2>5, <2>6, <2>7, Zenon DEF BitmapOk, Taken
  <2> QED BY <2>1, <2>2, <2>3, <2>4, <2>5, <2>8 DEF Fresh, F
<1> QED BY <1>3, <1>4

\* Without a frame left the bit of frame 0, which nobody gets, is set.
LEMMA NoneLeft ==
    ASSUME NEW b, BitmapOk(b), FreeFrames(b) = {}
    PROVE  BitmapOk(Taken(b, NULL)) /\ Given(Taken(b, NULL)) = Given(b) /\ FreeFrames(Taken(b, NULL)) = {}
<1>1. Given(Taken(b, NULL)) = Given(b)
  BY Zenon DEF Given, Taken
<1>2. FreeFrames(Taken(b, NULL)) = {}
  BY Zenon DEF FreeFrames, Taken
<1> QED BY <1>1, <1>2, Zenon DEF BitmapOk, Taken

-----------------------------------------------------------------------------
(* The memory of a process, while map_page and create_elf_process work on  *)
(* it.                                                                     *)

\* Frame y that g does not have yet becomes the one of x.
LEMMA WithFacts ==
    ASSUME NEW g, NEW x, NEW y, IsInjective(g), y \notin Range(g)
    PROVE  /\ IsInjective(With(g, x, y))
           /\ Range(With(g, x, y)) \subseteq Range(g) \cup {y}
<1> DEFINE w == With(g, x, y)
<1>1. DOMAIN w = DOMAIN g \cup {x} /\ w[x] = y /\ \A z \in DOMAIN g : z # x => w[z] = g[z]
  BY DEF With
<1>2. \A z \in DOMAIN g : g[z] \in Range(g)
  BY DEF Range
<1> HIDE DEF w
<1>3. Range(w) \subseteq Range(g) \cup {y}
  <2>1. ASSUME NEW z \in DOMAIN w PROVE w[z] \in Range(g) \cup {y}
    <3>1. CASE z = x
      BY <1>1, <3>1
    <3>2. CASE z # x
      BY <1>1, <1>2, <3>2
    <3> QED BY <3>1, <3>2
  <2> QED BY <2>1, Zenon DEF Range
<1>4. IsInjective(w)
  <2>1. ASSUME NEW a \in DOMAIN w, NEW b \in DOMAIN w, w[a] = w[b] PROVE a = b
    <3>1. CASE a = x /\ b # x
      BY <1>1, <1>2, <2>1, <3>1
    <3>2. CASE a # x /\ b = x
      BY <1>1, <1>2, <2>1, <3>2
    <3>3. CASE a # x /\ b # x
      <4>1. a \in DOMAIN g /\ b \in DOMAIN g /\ g[a] = g[b]
        BY <1>1, <2>1, <3>3
      <4> QED BY <4>1 DEF IsInjective
    <3> QED BY <3>1, <3>2, <3>3
  <2> QED BY <2>1, Zenon DEF IsInjective
<1> QED BY <1>3, <1>4 DEF w

Space6(m) ==
    m = [bitmap |-> m.bitmap, pml4 |-> m.pml4, tables |-> m.tables, pages |-> m.pages,
         kstack |-> m.kstack, status |-> m.status]

\* Every frame has one use and came from pmm_alloc.  Only the top table may be missing,
\* and then no frame is left.
Sound(m) ==
    /\ Space6(m) /\ m.status \in {"run", "oom", "panic"}
    /\ BitmapOk(m.bitmap)
    /\ OneUse(m)
    /\ Range(m.tables) \cup Range(m.pages) \cup Range(m.kstack) \subseteq Given(m.bitmap)
    /\ m.pml4 \in Given(m.bitmap) \cup {NULL}
    /\ m.pml4 = NULL => FreeFrames(m.bitmap) = {}

\* r has come from m by taking frames.
Grown(m, r) ==
    /\ m.bitmap \subseteq r.bitmap
    /\ OwnedBy(r) \subseteq OwnedBy(m) \cup (r.bitmap \ m.bitmap)
    /\ r.pml4 = m.pml4

\* Taking frames twice is taking frames.
LEMMA GrownTwice ==
    ASSUME NEW m, NEW r, NEW q, Grown(m, r), Grown(r, q)
    PROVE  Grown(m, q)
<1>1. m.bitmap \subseteq q.bitmap /\ q.pml4 = m.pml4
  BY DEF Grown
<1>2. ASSUME NEW f \in OwnedBy(q) PROVE f \in OwnedBy(m) \cup (q.bitmap \ m.bitmap)
  <2>1. f \in OwnedBy(r) \cup (q.bitmap \ r.bitmap)
    BY DEF Grown
  <2>2. CASE f \in OwnedBy(r)
    BY <2>2 DEF Grown
  <2>3. CASE f \in q.bitmap \ r.bitmap
    BY <2>3 DEF Grown
  <2> QED BY <2>1, <2>2, <2>3
<1> QED BY <1>1, <1>2, Zenon DEF Grown

\* Nothing taken.
LEMMA GrownSame == ASSUME NEW m, NEW r, r.bitmap = m.bitmap, r.pml4 = m.pml4, r.tables = m.tables,
                          r.pages = m.pages, r.kstack = m.kstack
                   PROVE  Grown(m, r)
BY Zenon DEF Grown, OwnedBy

\* A failed attempt changes nothing but the status.
LEMMA StatusOnly ==
    ASSUME NEW m, Sound(m), NEW x \in {"oom", "panic"}, NEW r, r = [m EXCEPT !.status = x]
    PROVE  /\ Sound(r) /\ Grown(m, r) /\ r.status = x /\ r.bitmap = m.bitmap /\ r.pml4 = m.pml4
           /\ r.tables = m.tables /\ r.pages = m.pages /\ r.kstack = m.kstack
<1>1. r = [bitmap |-> m.bitmap, pml4 |-> m.pml4, tables |-> m.tables, pages |-> m.pages,
           kstack |-> m.kstack, status |-> x]
  BY DEF Sound, Space6
<1>2. /\ r.status = x /\ r.bitmap = m.bitmap /\ r.pml4 = m.pml4
      /\ r.tables = m.tables /\ r.pages = m.pages /\ r.kstack = m.kstack
  BY <1>1
<1>3. Space6(r)
  BY <1>1, <1>2 DEF Space6
<1>4. Sound(r)
  BY <1>2, <1>3, Zenon DEF Sound, OneUse
<1> QED BY <1>2, <1>4, GrownSame

\* The frames of m are not new.
LEMMA OwnedTaken ==
    ASSUME NEW m, Sound(m)
    PROVE  \A f \in OwnedBy(m) : f = NULL \/ f \in m.bitmap
BY DEF Sound, OwnedBy, Given

\* alloc_page_table takes a fresh frame or leaves everything as it is.
LEMMA AddTableSound ==
    ASSUME KernelPages, Booted, NEW m, Sound(m), NEW level, NEW v, NEW r, r = AddTable(m, level, v)
    PROVE  /\ Sound(r) /\ Grown(m, r) /\ r.pages = m.pages /\ r.kstack = m.kstack
           /\ m.status # "run" => r = m
<1> DEFINE at == <<level, v \div (ENTRIES ^ level)>>
<1>1. PICK f : f = pmm_alloc(m.bitmap)
  BY Zenon
<1>2. (f = NULL => FreeFrames(m.bitmap) = {}) /\ (f # NULL => Fresh(m.bitmap, f))
  BY <1>1, Alloc DEF Sound
<1>3. r = IF m.status # "run" \/ at \in DOMAIN m.tables THEN m
          ELSE IF f = NULL THEN [m EXCEPT !.status = "panic"]
          ELSE [m EXCEPT !.bitmap = Taken(@, f), !.tables = With(@, at, f)]
  BY <1>1 DEF AddTable
<1> HIDE DEF at
<1>4. CASE m.status # "run" \/ at \in DOMAIN m.tables
  <2>1. r = m
    BY <1>3, <1>4
  <2> QED BY <2>1, GrownSame
<1>5. CASE ~(m.status # "run" \/ at \in DOMAIN m.tables) /\ f = NULL
  <2>1. r = [m EXCEPT !.status = "panic"]
    BY <1>3, <1>5
  <2> QED BY <1>5, <2>1, StatusOnly
<1>6. CASE ~(m.status # "run" \/ at \in DOMAIN m.tables) /\ f # NULL
  <2>1. PICK w : w = With(m.tables, at, f)
    BY Zenon
  <2>2. r = [bitmap |-> Taken(m.bitmap, f), pml4 |-> m.pml4, tables |-> w, pages |-> m.pages,
             kstack |-> m.kstack, status |-> m.status]
    BY <1>3, <1>6, <2>1 DEF Sound, Space6
  <2>3. /\ r.status = m.status /\ r.bitmap = Taken(m.bitmap, f) /\ r.pml4 = m.pml4
        /\ r.tables = w /\ r.pages = m.pages /\ r.kstack = m.kstack
    BY <2>2
  <2>4. Space6(r)
    BY <2>2, <2>3 DEF Space6
  <2>5. Fresh(m.bitmap, f) /\ f \notin OwnedBy(m)
    BY <1>2, <1>6, OwnedTaken DEF Fresh
  <2>6. IsInjective(w) /\ Range(w) \subseteq Range(m.tables) \cup {f}
    <3>1. PICK g : g = m.tables
      BY Zenon
    <3>2. IsInjective(g) /\ f \notin Range(g)
      BY <2>5, <3>1, Zenon DEF OwnedBy, Sound, OneUse
    <3>3. IsInjective(With(g, at, f)) /\ Range(With(g, at, f)) \subseteq Range(g) \cup {f}
      BY ONLY <3>2, WithFacts, Zenon
    <3> QED BY <2>1, <3>1, <3>3, Zenon
  <2>7. OneUse(r)
    <3>1. OneUse(m)
      BY DEF Sound
    <3> QED BY <2>3, <2>5, <2>6, <3>1, Zenon DEF OneUse, OwnedBy
  <2>8. m.pml4 # NULL
    BY <2>5 DEF Sound, Fresh
  <2>9. Sound(r)
    <3>1. Range(r.tables) \cup Range(r.pages) \cup Range(r.kstack) \subseteq Given(r.bitmap)
      BY <2>3, <2>5, <2>6, Zenon DEF Sound, Fresh
    <3>2. r.pml4 \in Given(r.bitmap) \cup {NULL}
      BY <2>3, <2>5, Zenon DEF Sound, Fresh
    <3>3. BitmapOk(r.bitmap) /\ r.status \in {"run", "oom", "panic"}
      BY <2>3, <2>5, Zenon DEF Sound, Fresh
    <3> QED BY <2>3, <2>4, <2>7, <2>8, <3>1, <3>2, <3>3, Zenon DEF Sound
  <2>10. Grown(m, r)
    BY <2>3, <2>5, <2>6, Zenon DEF Grown, OwnedBy, Taken, Fresh
  <2> QED BY <1>6, <2>3, <2>9, <2>10
<1> QED BY <1>4, <1>5, <1>6

\* map_page gives page v frame f, which m has taken and not used, and takes the frames
\* of the tables it lacks.
LEMMA MapPageSound ==
    ASSUME KernelPages, Booted, NEW m, Sound(m), NEW v, NEW f \in Given(m.bitmap), f \notin OwnedBy(m),
           NEW r, r = map_page(m, v, f)
    PROVE  /\ Sound(r) /\ m.bitmap \subseteq r.bitmap /\ r.pml4 = m.pml4 /\ r.kstack = m.kstack
           /\ OwnedBy(r) \subseteq OwnedBy(m) \cup {f} \cup (r.bitmap \ m.bitmap)
           /\ DOMAIN m.pages \subseteq DOMAIN r.pages
           /\ \A x \in DOMAIN m.pages : x # v => r.pages[x] = m.pages[x]
           /\ r.status = "run" => v \in DOMAIN r.pages
<1>1. PICK a, b, t : a = AddTable(m, 3, v) /\ b = AddTable(a, 2, v) /\ t = AddTable(b, 1, v)
  BY Zenon
<1>2. Sound(a) /\ Grown(m, a) /\ a.pages = m.pages /\ a.kstack = m.kstack
  BY ONLY <1>1, KernelPages, Booted, Sound(m), AddTableSound
<1>3. Sound(b) /\ Grown(a, b) /\ b.pages = a.pages /\ b.kstack = a.kstack
  BY ONLY <1>1, <1>2, KernelPages, Booted, AddTableSound
<1>4. Sound(t) /\ Grown(b, t) /\ t.pages = b.pages /\ t.kstack = b.kstack
  BY ONLY <1>1, <1>3, KernelPages, Booted, AddTableSound
<1>5. Grown(m, t) /\ t.pages = m.pages /\ t.kstack = m.kstack
  BY <1>2, <1>3, <1>4, GrownTwice, Zenon
<1>6. f \in Given(t.bitmap) /\ f \notin OwnedBy(t)
  BY <1>5 DEF Grown, Given
<1>7. r = IF t.status = "run" THEN [t EXCEPT !.pages = With(@, v, f)] ELSE t
  BY <1>1 DEF map_page
<1>8. CASE t.status # "run"
  <2>1. r = t
    BY <1>7, <1>8
  <2> QED BY <1>4, <1>5, <1>8, <2>1, Zenon DEF Grown
<1>9. CASE t.status = "run"
  <2>1. PICK w : w = With(t.pages, v, f)
    BY Zenon
  <2>2. r = [bitmap |-> t.bitmap, pml4 |-> t.pml4, tables |-> t.tables, pages |-> w,
             kstack |-> t.kstack, status |-> t.status]
    BY <1>4, <1>7, <1>9, <2>1 DEF Sound, Space6
  <2>3. /\ r.status = t.status /\ r.bitmap = t.bitmap /\ r.pml4 = t.pml4
        /\ r.tables = t.tables /\ r.pages = w /\ r.kstack = t.kstack
    BY <2>2
  <2>4. Space6(r)
    BY <2>2, <2>3 DEF Space6
  <2>5. OneUse(t)
    BY <1>4 DEF Sound
  <2>6. /\ IsInjective(w) /\ Range(w) \subseteq Range(t.pages) \cup {f}
        /\ DOMAIN w = DOMAIN t.pages \cup {v}
        /\ \A x \in DOMAIN t.pages : x # v => w[x] = t.pages[x]
    <3>1. IsInjective(t.pages) /\ f \notin Range(t.pages)
      BY <1>6, <2>5, Zenon DEF OwnedBy, OneUse
    <3>2. PICK g : g = t.pages
      BY Zenon
    <3>3. IsInjective(g) /\ f \notin Range(g)
      BY <3>1, <3>2, Zenon
    <3>4. IsInjective(With(g, v, f)) /\ Range(With(g, v, f)) \subseteq Range(g) \cup {f}
      BY ONLY <3>3, WithFacts, Zenon
    <3>5. DOMAIN With(g, v, f) = DOMAIN g \cup {v} /\ \A x \in DOMAIN g : x # v => With(g, v, f)[x] = g[x]
      BY ONLY TRUE DEF With
    <3> QED BY <2>1, <3>2, <3>4, <3>5, Zenon
  <2>7. OneUse(r)
    <3>1. f # t.pml4 /\ f \notin Range(t.tables) /\ f \notin Range(t.kstack)
      BY <1>6, Zenon DEF OwnedBy
    <3> QED BY ONLY <2>3, <2>5, <2>6, <3>1 DEF OneUse
  <2>8. Range(r.tables) \cup Range(r.pages) \cup Range(r.kstack) \subseteq Given(r.bitmap)
    BY <1>4, <1>6, <2>3, <2>6, Zenon DEF Sound
  <2>9. Sound(r)
    BY <1>4, <2>3, <2>4, <2>7, <2>8, Zenon DEF Sound
  <2>10. OwnedBy(r) \subseteq OwnedBy(t) \cup {f}
    BY <2>3, <2>6, Zenon DEF OwnedBy
  <2>11. OwnedBy(r) \subseteq OwnedBy(m) \cup {f} \cup (r.bitmap \ m.bitmap)
    BY <1>5, <2>3, <2>10, Zenon DEF Grown
  <2>12. m.bitmap \subseteq r.bitmap /\ r.pml4 = m.pml4
    BY <1>5, <2>3, Zenon DEF Grown
  <2> QED BY <1>5, <2>3, <2>6, <2>9, <2>11, <2>12, Zenon
<1> QED BY <1>8, <1>9

\* A frame taken for page v.
LEMMA MapNewSound ==
    ASSUME KernelPages, Booted, NEW m, Sound(m), NEW v, NEW r, r = MapNew(m, v)
    PROVE  /\ Sound(r) /\ Grown(m, r) /\ r.kstack = m.kstack
           /\ DOMAIN m.pages \subseteq DOMAIN r.pages
           /\ \A x \in DOMAIN m.pages : x # v => r.pages[x] = m.pages[x]
           /\ r.status = "run" => m.status = "run" /\ v \in DOMAIN r.pages /\ m.pml4 # NULL
<1>1. PICK f : f = pmm_alloc(m.bitmap)
  BY Zenon
<1>2. PICK n : n = [m EXCEPT !.bitmap = Taken(@, f)]
  BY Zenon
<1>3. (f = NULL => FreeFrames(m.bitmap) = {}) /\ (f # NULL => Fresh(m.bitmap, f))
  BY <1>1, Alloc DEF Sound
<1>4. r = IF m.status # "run" THEN m
          ELSE IF f = NULL THEN [m EXCEPT !.status = "oom"]
          ELSE map_page(n, v, f)
  BY <1>1, <1>2 DEF MapNew
<1>5. CASE m.status # "run"
  <2>1. r = m
    BY <1>4, <1>5
  <2> QED BY <1>5, <2>1, GrownSame
<1>6. CASE m.status = "run" /\ f = NULL
  <2>1. r = [m EXCEPT !.status = "oom"]
    BY <1>4, <1>6
  <2>2. Sound(r) /\ Grown(m, r) /\ r.status = "oom" /\ r.pages = m.pages /\ r.kstack = m.kstack
    BY <2>1, StatusOnly
  <2> QED BY <2>2
<1>7. CASE m.status = "run" /\ f # NULL
  <2>1. n = [bitmap |-> Taken(m.bitmap, f), pml4 |-> m.pml4, tables |-> m.tables, pages |-> m.pages,
             kstack |-> m.kstack, status |-> m.status]
    BY <1>2 DEF Sound, Space6
  <2>2. /\ n.status = m.status /\ n.bitmap = Taken(m.bitmap, f) /\ n.pml4 = m.pml4
        /\ n.tables = m.tables /\ n.pages = m.pages /\ n.kstack = m.kstack
    BY <2>1
  <2>3. Space6(n)
    BY <2>1, <2>2 DEF Space6
  <2>4. Fresh(m.bitmap, f) /\ f \notin OwnedBy(m)
    BY <1>3, <1>7, OwnedTaken DEF Fresh
  <2>5. m.pml4 # NULL
    BY <2>4 DEF Sound, Fresh
  <2>6. OneUse(n)
    BY <2>2, Zenon DEF Sound, OneUse
  <2>7. Sound(n)
    <3>1. Range(n.tables) \cup Range(n.pages) \cup Range(n.kstack) \subseteq Given(n.bitmap)
      BY <2>2, <2>4, Zenon DEF Sound, Fresh
    <3>2. n.pml4 \in Given(n.bitmap) \cup {NULL}
      BY <2>2, <2>4, Zenon DEF Sound, Fresh
    <3>3. BitmapOk(n.bitmap) /\ n.status \in {"run", "oom", "panic"}
      BY <2>2, <2>4, Zenon DEF Sound, Fresh
    <3> QED BY <2>2, <2>3, <2>5, <2>6, <3>1, <3>2, <3>3, Zenon DEF Sound
  <2>8. OwnedBy(n) = OwnedBy(m) /\ f \in Given(n.bitmap)
    BY <2>2, <2>4, Zenon DEF OwnedBy, Fresh
  <2>9. r = map_page(n, v, f)
    BY <1>4, <1>7
  <2>10. /\ Sound(r) /\ n.bitmap \subseteq r.bitmap /\ r.pml4 = n.pml4 /\ r.kstack = n.kstack
         /\ OwnedBy(r) \subseteq OwnedBy(n) \cup {f} \cup (r.bitmap \ n.bitmap)
         /\ DOMAIN n.pages \subseteq DOMAIN r.pages
         /\ \A x \in DOMAIN n.pages : x # v => r.pages[x] = n.pages[x]
         /\ r.status = "run" => v \in DOMAIN r.pages
    BY <2>4, <2>7, <2>8, <2>9, MapPageSound, Zenon
  <2>11. f \notin m.bitmap /\ f \in n.bitmap /\ m.bitmap \subseteq n.bitmap
    BY <2>2, <2>4 DEF Fresh, Taken
  <2>12. Grown(m, r)
    BY <2>2, <2>8, <2>10, <2>11, Zenon DEF Grown
  <2> QED BY <1>7, <2>2, <2>5, <2>10, <2>12, Zenon
<1> QED BY <1>5, <1>6, <1>7

-----------------------------------------------------------------------------
(* The loops. *)

\* The function that MapAll is the last value of, up to k.
MapSteps(d, m, vs, k) == d = [i \in 0 .. k |-> IF i = 0 THEN m ELSE MapNew(d[i - 1], vs[i])]

\* The loop over the pages is defined: by the least number of rounds it is not.
LEMMA MapStepsExist ==
    ASSUME NEW m, NEW vs, NEW n \in Nat
    PROVE  \E d : MapSteps(d, m, vs, n)
<1> DEFINE Bad == {k \in 0 .. n : ~\E d : MapSteps(d, m, vs, k)}
<1>1. SUFFICES ASSUME Bad # {} PROVE FALSE
  <2>1. n \notin Bad
    BY <1>1
  <2> QED BY <2>1
<1>2. Bad \subseteq Nat
  OBVIOUS
<1>3. PICK k \in Bad : \A j \in Bad : k <= j
  BY <1>1, <1>2, Least, Zenon
<1>4. CASE k = 0
  <2>1. MapSteps([i \in 0 .. 0 |-> m], m, vs, 0)
    BY DEF MapSteps
  <2> QED BY <1>4, <2>1
<1>5. CASE k # 0
  <2>1. k \in Nat /\ k - 1 \in 0 .. n /\ ~(k <= k - 1) /\ k \in 0 .. k /\ 0 # k
    <3>1. k \in 0 .. n
      BY <1>3
    <3> QED BY ONLY <1>5, <3>1, n \in Nat
  <2>2. PICK d : MapSteps(d, m, vs, k - 1)
    <3>1. k - 1 \notin Bad
      <4> HIDE DEF Bad
      <4> QED BY <1>3, <2>1, Zenon
    <3> QED BY <2>1, <3>1
  <2>3. PICK e : e = [i \in 0 .. k |-> IF i = k THEN MapNew(d[k - 1], vs[k]) ELSE d[i]]
    BY Zenon
  <2>4. ASSUME NEW i \in 0 .. k PROVE e[i] = IF i = 0 THEN m ELSE MapNew(e[i - 1], vs[i])
    <3>1. CASE i = k
      <4>1. e[k - 1] = d[k - 1]
        <5>1. k - 1 \in 0 .. k /\ k - 1 # k
          BY ONLY <2>1
        <5> QED BY <2>3, <5>1
      <4>2. e[k] = MapNew(d[k - 1], vs[k])
        BY <2>1, <2>3
      <4> QED BY <2>1, <3>1, <4>1, <4>2
    <3>2. CASE i # k
      <4>1. i \in 0 .. k - 1 /\ (i # 0 => i - 1 \in 0 .. k - 1 /\ i - 1 \in 0 .. k /\ i - 1 # k)
        BY ONLY <2>1, <3>2, i \in 0 .. k
      <4>2. e[i] = d[i] /\ (i # 0 => e[i - 1] = d[i - 1])
        BY <2>3, <3>2, <4>1
      <4>3. d[i] = IF i = 0 THEN m ELSE MapNew(d[i - 1], vs[i])
        BY <2>2, <4>1 DEF MapSteps
      <4> QED BY <4>2, <4>3
    <3> QED BY <3>1, <3>2
  <2>5. MapSteps(e, m, vs, k)
    <3>1. e = [i \in 0 .. k |-> e[i]]
      BY <2>3
    <3> QED BY <2>4, <3>1, Zenon DEF MapSteps
  <2> QED BY <1>3, <2>5
<1> QED BY <1>4, <1>5

\* r has come from m by mapping the first k of the pages vs.
Mapped(m, r, vs, k) ==
    /\ Sound(r) /\ Grown(m, r) /\ r.kstack = m.kstack
    /\ DOMAIN m.pages \subseteq DOMAIN r.pages
    /\ \A x \in DOMAIN m.pages : (\A j \in 1 .. k : x # vs[j]) => r.pages[x] = m.pages[x]
    /\ r.status = "run" => /\ m.status = "run" /\ \A j \in 1 .. k : vs[j] \in DOMAIN r.pages
                           /\ k > 0 => m.pml4 # NULL

\* Mapping a list of pages: each is mapped to a frame of its own, or memory ran out.
LEMMA MapAllSound ==
    ASSUME KernelPages, Booted, NEW m, Sound(m), NEW vs, Len(vs) \in Nat, NEW r, r = MapAll(m, vs)
    PROVE  Mapped(m, r, vs, Len(vs))
<1> DEFINE n == Len(vs)
<1>1. PICK d : MapSteps(d, m, vs, n) /\ r = d[n]
  <2>1. \E d : MapSteps(d, m, vs, n)
    BY MapStepsExist
  <2> QED BY <2>1, Zenon DEF MapAll, MapSteps
<1> HIDE DEF n
<1>2. n \in Nat
  BY DEF n
<1>3. \A i \in 0 .. n : d[i] = IF i = 0 THEN m ELSE MapNew(d[i - 1], vs[i])
  BY <1>1 DEF MapSteps
<1> DEFINE Bad == {k \in 0 .. n : ~Mapped(m, d[k], vs, k)}
<1>4. SUFFICES ASSUME Bad # {} PROVE FALSE
  <2>1. n \notin Bad /\ n \in 0 .. n
    BY <1>2, <1>4
  <2> QED BY <1>1, <2>1 DEF n
<1>5. Bad \subseteq Nat
  BY <1>2
<1>6. PICK k \in Bad : \A j \in Bad : k <= j
  BY <1>4, <1>5, Least, Zenon
<1>7. k \in 0 .. n /\ ~Mapped(m, d[k], vs, k)
  BY <1>6
<1>8. CASE k = 0
  <2>1. d[0] = m
    BY <1>2, <1>3
  <2>2. Mapped(m, m, vs, 0)
    BY GrownSame DEF Mapped
  <2> QED BY <1>7, <1>8, <2>1, <2>2
<1>9. CASE k # 0
  <2>1. k \in Nat /\ k - 1 \in 0 .. n /\ ~(k <= k - 1) /\ k > 0
    BY ONLY <1>2, <1>7, <1>9
  <2>2. PICK q : q = d[k - 1]
    BY Zenon
  <2>3. Mapped(m, q, vs, k - 1)
    <3>1. k - 1 \notin Bad
      <4> HIDE DEF Bad
      <4> QED BY <1>6, <2>1, Zenon
    <3> QED BY <2>1, <2>2, <3>1
  <2>4. PICK s : s = d[k]
    BY Zenon
  <2>5. s = MapNew(q, vs[k])
    BY <1>3, <1>7, <1>9, <2>2, <2>4
  <2>6. Sound(q) /\ Grown(m, q)
    BY <2>3 DEF Mapped
  <2>7. /\ Sound(s) /\ Grown(q, s) /\ s.kstack = q.kstack
        /\ DOMAIN q.pages \subseteq DOMAIN s.pages
        /\ \A x \in DOMAIN q.pages : x # vs[k] => s.pages[x] = q.pages[x]
        /\ s.status = "run" => q.status = "run" /\ vs[k] \in DOMAIN s.pages /\ q.pml4 # NULL
    BY ONLY <2>5, <2>6, KernelPages, Booted, MapNewSound
  <2>8. \A j \in 1 .. k : j = k \/ j \in 1 .. k - 1
    BY <2>1
  <2>9. \A j \in 1 .. k - 1 : j \in 1 .. k
    BY <2>1
  <2>10. k \in 1 .. k
    BY <2>1
  <2>11. Grown(m, s) /\ q.pml4 = m.pml4
    BY <2>6, <2>7, GrownTwice DEF Grown
  <2>12. ASSUME NEW x \in DOMAIN m.pages, \A j \in 1 .. k : x # vs[j] PROVE s.pages[x] = m.pages[x]
    <3>1. q.pages[x] = m.pages[x] /\ x \in DOMAIN q.pages
      BY <2>3, <2>9, <2>12, Zenon DEF Mapped
    <3> QED BY <2>7, <2>10, <2>12, <3>1, Zenon
  <2>13. ASSUME s.status = "run" PROVE \A j \in 1 .. k : vs[j] \in DOMAIN s.pages
    BY <2>3, <2>7, <2>8, <2>13, Zenon DEF Mapped
  <2>14. Mapped(m, s, vs, k)
    BY <2>3, <2>7, <2>11, <2>12, <2>13, Zenon DEF Mapped
  <2> QED BY <1>7, <2>4, <2>14
<1> QED BY <1>8, <1>9

\* A kernel stack: frames in ascending order, and between its first and its last none
\* that pmm_alloc could give to anybody else.
StackOk(k) ==
    /\ k \in Seq(Nat)
    /\ \A i, j \in 1 .. Len(k) : i <= j => k[j] - k[i] >= j - i
    /\ \A g \in Nat : Len(k) > 0 /\ k[1] <= g /\ g <= k[Len(k)] => g \in Range(k) \/ g \notin FreeAtBoot(memmap)

\* No frame was taken after the stack's last.
OnTop(k, b) == Len(k) > 0 => \A t \in Given(b) : t <= k[Len(k)]

\* The next frame goes on top of the kernel stack, with no other free frame in between.
LEMMA StackGrows ==
    ASSUME KernelPages, Booted, NEW b, NEW f, Fresh(b, f), NEW k, StackOk(k), Range(k) \subseteq Given(b), OnTop(k, b)
    PROVE  /\ StackOk(Append(k, f)) /\ OnTop(Append(k, f), Taken(b, f))
           /\ Len(Append(k, f)) = Len(k) + 1
           /\ Range(Append(k, f)) \subseteq Range(k) \cup {f}
           /\ IsInjective(Append(k, f))
<1>1. PICK a, n : a = Append(k, f) /\ n = Len(k)
  BY Zenon
<1>2. k \in Seq(Nat) /\ f \in Nat /\ n \in Nat
  BY <1>1 DEF StackOk, Fresh
<1>3. a \in Seq(Nat) /\ Len(a) = n + 1 /\ a[n + 1] = f /\ \A i \in 1 .. n : a[i] = k[i] /\ k[i] \in Nat
  BY <1>1, <1>2
<1>4. n + 1 \in 1 .. n + 1 /\ \A i \in 1 .. n + 1 : i = n + 1 \/ i \in 1 .. n
  BY ONLY <1>2
<1>5. DOMAIN a = 1 .. n + 1 /\ DOMAIN k = 1 .. n
  BY <1>1, <1>2, <1>3
<1>6. \A i \in 1 .. n : k[i] \in Given(b) /\ k[i] < f /\ k[i] \in Range(k)
  <2>1. \A i \in 1 .. n : k[i] \in Range(k)
    BY <1>5, Zenon DEF Range
  <2> QED BY <2>1, Zenon DEF Fresh
<1>7. Range(a) \subseteq Range(k) \cup {f}
  <2>1. ASSUME NEW i \in 1 .. n + 1 PROVE a[i] \in Range(k) \cup {f}
    BY <1>3, <1>4, <1>6
  <2> QED BY <1>5, <2>1, Zenon DEF Range
<1>8. f \in Range(a) /\ Range(k) \subseteq Range(a)
  <2>1. f \in Range(a)
    BY <1>3, <1>4, <1>5, Zenon DEF Range
  <2>2. \A i \in 1 .. n : i \in 1 .. n + 1
    BY ONLY <1>2
  <2>3. ASSUME NEW i \in 1 .. n PROVE k[i] \in Range(a)
    BY <1>3, <1>5, <2>2, Zenon DEF Range
  <2> QED BY <1>5, <2>1, <2>3, Zenon DEF Range
<1>9. ASSUME NEW i \in 1 .. n + 1, NEW j \in 1 .. n + 1, i <= j PROVE a[j] - a[i] >= j - i
  <2>1. CASE j \in 1 .. n
    <3>1. i \in 1 .. n
      BY ONLY <1>2, <1>9, <2>1, i \in 1 .. n + 1
    <3> QED BY <1>1, <1>3, <1>9, <2>1, <3>1 DEF StackOk
  <2>2. CASE j = n + 1 /\ i = n + 1
    BY <1>2, <1>3, <2>2
  <2>3. CASE j = n + 1 /\ i \in 1 .. n
    <3>1. n \in 1 .. n /\ i <= n
      BY ONLY <1>2, <2>3
    <3>2. k[n] - k[i] >= n - i
      BY <1>1, <2>3, <3>1 DEF StackOk
    <3>3. k[n] \in Nat /\ k[i] \in Nat /\ k[n] < f /\ a[j] = f /\ a[i] = k[i] /\ i \in Nat
      BY <1>3, <1>6, <2>3, <3>1
    <3>4. PICK x, y : x = k[n] /\ y = k[i]
      BY Zenon
    <3>5. x \in Nat /\ y \in Nat /\ x < f /\ x - y >= n - i /\ i \in Nat /\ j = n + 1
      BY <2>3, <3>2, <3>3, <3>4, Zenon
    <3>6. f - y >= j - i
      BY ONLY <1>2, <3>5
    <3> QED BY <3>3, <3>4, <3>6, Zenon
  <2> QED BY <1>4, <2>1, <2>2, <2>3
<1>10. IsInjective(a)
  <2>1. ASSUME NEW i \in 1 .. n + 1, NEW j \in 1 .. n + 1, a[i] = a[j], i < j PROVE FALSE
    <3>1. a[j] - a[i] >= j - i /\ a[i] \in Nat /\ a[j] \in Nat
      BY <1>3, <1>5, <1>9, <2>1
    <3> QED BY ONLY <2>1, <3>1, i \in 1 .. n + 1, j \in 1 .. n + 1, <1>2
  <2>2. \A i, j \in 1 .. n + 1 : i < j \/ j < i \/ i = j
    BY ONLY <1>2
  <2> QED BY <1>5, <2>1, <2>2, Zenon DEF IsInjective
<1>11. ASSUME NEW g \in Nat, a[1] <= g, g <= a[n + 1], g \in FreeAtBoot(memmap) PROVE g \in Range(a)
  <2>1. CASE g = f
    BY <1>8, <2>1
  <2>2. CASE g # f
    <3>1. n # 0 /\ g < f
      BY ONLY <1>2, <1>3, <1>11, <2>2, g \in Nat
    <3>2. 1 \in 1 .. n /\ n \in 1 .. n /\ n > 0
      BY ONLY <1>2, <3>1
    <3>3. g \in b
      <4>1. f \in 1 .. (total_pages - 1) /\ total_pages \in Nat
        BY PagesFit DEF Fresh, FreeFrames, Booted
      <4>2. k[1] \in Given(b) /\ k[1] <= g /\ k[1] \in Nat
        BY <1>3, <1>6, <1>11, <3>2
      <4>3. g # 0
        BY ONLY <4>2, g \in Nat, k[1] # 0 DEF Given, NULL
      <4>4. g \in 1 .. (total_pages - 1)
        BY ONLY <3>1, <4>1, <4>3, g \in Nat
      <4>5. ~(f <= g)
        BY ONLY <1>2, <3>1, g \in Nat
      <4> QED BY <4>4, <4>5, Zenon DEF Fresh, FreeFrames
    <3>4. g <= k[n]
      <4>1. g # NULL
        <5>1. k[1] \in Nat /\ k[1] # 0 /\ k[1] <= g
          BY <1>3, <1>6, <1>11, <3>2 DEF Given, NULL
        <5> QED BY ONLY <5>1, g \in Nat DEF NULL
      <4>2. g \in Given(b)
        BY <1>11, <3>3, <4>1, Zenon DEF Given
      <4> QED BY <1>1, <3>2, <4>2, Zenon DEF OnTop
    <3>5. g \in Range(k)
      <4>1. k[1] <= g
        BY <1>3, <1>11, <3>2
      <4> QED BY <1>1, <1>11, <3>2, <3>4, <4>1, Zenon DEF StackOk
    <3> QED BY <1>8, <3>5
  <2> QED BY <2>1, <2>2
<1>12. StackOk(a)
  BY <1>3, <1>9, <1>11, Zenon DEF StackOk
<1>13. OnTop(a, Taken(b, f))
  <2>1. ASSUME NEW t \in Given(b) \cup {f} PROVE t <= f
    <3>1. CASE t \in Given(b)
      <4>1. t < f /\ t \in Nat
        BY <3>1, FreeUsable DEF Fresh, Given, Booted
      <4> QED BY ONLY <1>2, <4>1
    <3>2. CASE t = f
      BY ONLY <1>2, <3>2
    <3> QED BY <3>1, <3>2
  <2>2. Given(Taken(b, f)) = Given(b) \cup {f}
    BY DEF Fresh
  <2> QED BY <1>3, <2>1, <2>2, Zenon DEF OnTop
<1> QED BY <1>1, <1>3, <1>7, <1>10, <1>12, <1>13

\* A frame taken for the kernel stack.
LEMMA AddKernelStackSound ==
    ASSUME KernelPages, Booted, NEW m, Sound(m), StackOk(m.kstack), OnTop(m.kstack, m.bitmap),
           NEW r, r = AddKernelStack(m)
    PROVE  /\ Sound(r) /\ Grown(m, r) /\ r.pages = m.pages /\ StackOk(r.kstack) /\ OnTop(r.kstack, r.bitmap)
           /\ r.status = "run" => /\ m.status = "run" /\ m.pml4 # NULL
                                  /\ Len(r.kstack) = Len(m.kstack) + 1
<1>1. PICK f : f = pmm_alloc(m.bitmap)
  BY Zenon
<1>2. (f = NULL => FreeFrames(m.bitmap) = {}) /\ (f # NULL => Fresh(m.bitmap, f))
  BY <1>1, Alloc DEF Sound
<1>3. r = IF m.status # "run" THEN m
          ELSE IF f = NULL THEN [m EXCEPT !.status = "oom"]
          ELSE [m EXCEPT !.bitmap = Taken(@, f), !.kstack = Append(@, f)]
  BY <1>1, Zenon DEF AddKernelStack
<1>4. CASE m.status # "run"
  <2>1. r = m
    BY <1>3, <1>4, Zenon
  <2> QED BY <1>4, <2>1, GrownSame, Zenon
<1>5. CASE m.status = "run" /\ f = NULL
  <2>1. r = [m EXCEPT !.status = "oom"]
    BY <1>3, <1>5, Zenon
  <2>2. Sound(r) /\ Grown(m, r) /\ r.status = "oom" /\ r.pages = m.pages /\ r.kstack = m.kstack /\ r.bitmap = m.bitmap
    BY <2>1, StatusOnly
  <2>3. r.status # "run"
    BY <2>2
  <2> QED BY <2>2, <2>3, Zenon
<1>6. CASE m.status = "run" /\ f # NULL
  <2>1. PICK a : a = Append(m.kstack, f)
    BY Zenon
  <2>2. r = [bitmap |-> Taken(m.bitmap, f), pml4 |-> m.pml4, tables |-> m.tables, pages |-> m.pages,
             kstack |-> a, status |-> m.status]
    BY <1>3, <1>6, <2>1 DEF Sound, Space6
  <2>3. /\ r.status = m.status /\ r.bitmap = Taken(m.bitmap, f) /\ r.pml4 = m.pml4
        /\ r.tables = m.tables /\ r.pages = m.pages /\ r.kstack = a
    BY <2>2
  <2>4. Space6(r)
    BY <2>2, <2>3 DEF Space6
  <2>5. Fresh(m.bitmap, f) /\ f \notin OwnedBy(m)
    BY <1>2, <1>6, OwnedTaken DEF Fresh
  <2>6. m.pml4 # NULL
    BY <2>5 DEF Sound, Fresh
  <2>7. PICK k : k = m.kstack
    BY Zenon
  <2>8. StackOk(k) /\ Range(k) \subseteq Given(m.bitmap) /\ OnTop(k, m.bitmap) /\ a = Append(k, f)
    BY <2>1, <2>7, Zenon DEF Sound
  <2>9. /\ StackOk(a) /\ OnTop(a, Taken(m.bitmap, f)) /\ Len(a) = Len(k) + 1
        /\ Range(a) \subseteq Range(k) \cup {f} /\ IsInjective(a)
    <3>1. PICK b : b = m.bitmap
      BY Zenon
    <3>2. Fresh(b, f) /\ StackOk(k) /\ Range(k) \subseteq Given(b) /\ OnTop(k, b)
      BY <2>5, <2>8, <3>1, Zenon
    <3> QED BY ONLY <2>8, <3>1, <3>2, KernelPages, Booted, StackGrows
  <2>10. OneUse(r)
    <3>1. f # m.pml4 /\ f \notin Range(m.tables) /\ f \notin Range(m.pages)
      BY <2>5, Zenon DEF OwnedBy
    <3>2. OneUse(m)
      BY DEF Sound
    <3> QED BY ONLY <2>3, <2>7, <2>9, <3>1, <3>2 DEF OneUse
  <2>11. Sound(r)
    <3>1. Range(r.tables) \cup Range(r.pages) \cup Range(r.kstack) \subseteq Given(r.bitmap)
      BY <2>3, <2>5, <2>7, <2>9, Zenon DEF Sound, Fresh
    <3>2. r.pml4 \in Given(r.bitmap) \cup {NULL}
      BY <2>3, <2>5, Zenon DEF Sound, Fresh
    <3>3. BitmapOk(r.bitmap) /\ r.status \in {"run", "oom", "panic"}
      BY <2>3, <2>5, Zenon DEF Sound, Fresh
    <3> QED BY <2>3, <2>4, <2>6, <2>10, <3>1, <3>2, <3>3, Zenon DEF Sound
  <2>12. Grown(m, r)
    <3>1. OwnedBy(r) \subseteq OwnedBy(m) \cup {f}
      BY <2>3, <2>7, <2>9, Zenon DEF OwnedBy
    <3>2. f \in r.bitmap \ m.bitmap /\ m.bitmap \subseteq r.bitmap
      BY <2>3, <2>5, Zenon DEF Fresh, Taken
    <3> QED BY <2>3, <3>1, <3>2, Zenon DEF Grown
  <2> QED BY <1>6, <2>3, <2>6, <2>7, <2>9, <2>11, <2>12, Zenon
<1> QED BY <1>4, <1>5, <1>6, Zenon

\* The function that KernelStack is the last value of, up to k.
StackSteps(d, m, k) == d = [i \in 0 .. k |-> IF i = 0 THEN m ELSE AddKernelStack(d[i - 1])]

\* The loop over the stack pages is defined.
LEMMA StackStepsExist ==
    ASSUME NEW m, NEW n \in Nat
    PROVE  \E d : StackSteps(d, m, n)
<1> DEFINE Bad == {k \in 0 .. n : ~\E d : StackSteps(d, m, k)}
<1>1. SUFFICES ASSUME Bad # {} PROVE FALSE
  <2>1. n \notin Bad
    BY <1>1
  <2> QED BY <2>1
<1>2. Bad \subseteq Nat
  OBVIOUS
<1>3. PICK k \in Bad : \A j \in Bad : k <= j
  BY <1>1, <1>2, Least, Zenon
<1>4. CASE k = 0
  <2>1. StackSteps([i \in 0 .. 0 |-> m], m, 0)
    BY DEF StackSteps
  <2> QED BY <1>4, <2>1
<1>5. CASE k # 0
  <2>1. k \in Nat /\ k - 1 \in 0 .. n /\ ~(k <= k - 1) /\ k \in 0 .. k /\ 0 # k
    <3>1. k \in 0 .. n
      BY <1>3
    <3> QED BY ONLY <1>5, <3>1, n \in Nat
  <2>2. PICK d : StackSteps(d, m, k - 1)
    <3>1. k - 1 \notin Bad
      <4> HIDE DEF Bad
      <4> QED BY <1>3, <2>1, Zenon
    <3> QED BY <2>1, <3>1
  <2>3. PICK e : e = [i \in 0 .. k |-> IF i = k THEN AddKernelStack(d[k - 1]) ELSE d[i]]
    BY Zenon
  <2>4. ASSUME NEW i \in 0 .. k PROVE e[i] = IF i = 0 THEN m ELSE AddKernelStack(e[i - 1])
    <3>1. CASE i = k
      <4>1. e[k - 1] = d[k - 1]
        <5>1. k - 1 \in 0 .. k /\ k - 1 # k
          BY ONLY <2>1
        <5> QED BY <2>3, <5>1
      <4>2. e[k] = AddKernelStack(d[k - 1])
        BY <2>1, <2>3
      <4> QED BY <2>1, <3>1, <4>1, <4>2
    <3>2. CASE i # k
      <4>1. i \in 0 .. k - 1 /\ (i # 0 => i - 1 \in 0 .. k - 1 /\ i - 1 \in 0 .. k /\ i - 1 # k)
        BY ONLY <2>1, <3>2, i \in 0 .. k
      <4>2. e[i] = d[i] /\ (i # 0 => e[i - 1] = d[i - 1])
        BY <2>3, <3>2, <4>1
      <4>3. d[i] = IF i = 0 THEN m ELSE AddKernelStack(d[i - 1])
        BY <2>2, <4>1 DEF StackSteps
      <4> QED BY <4>2, <4>3
    <3> QED BY <3>1, <3>2
  <2>5. StackSteps(e, m, k)
    <3>1. e = [i \in 0 .. k |-> e[i]]
      BY <2>3
    <3> QED BY <2>4, <3>1, Zenon DEF StackSteps
  <2> QED BY <1>3, <2>5
<1> QED BY <1>4, <1>5

\* r has come from m by taking k stack frames.
Stacked(m, r, k) ==
    /\ Sound(r) /\ Grown(m, r) /\ r.pages = m.pages
    /\ StackOk(r.kstack) /\ OnTop(r.kstack, r.bitmap)
    /\ r.status = "run" => m.status = "run" /\ Len(r.kstack) = k /\ (k > 0 => m.pml4 # NULL)

\* The loop of create_elf_process that takes the kernel stack.
LEMMA KernelStackSound ==
    ASSUME KernelPages, Booted, NEW m, Sound(m), m.kstack = <<>>, NEW r, r = KernelStack(m)
    PROVE  Stacked(m, r, num_stack_pages)
<1>1. PICK n : n = num_stack_pages
  BY Zenon
<1>2. n \in Nat
  BY <1>1, LayoutAssumption
<1>3. PICK d : StackSteps(d, m, n) /\ r = d[n]
  <2>1. \E d : StackSteps(d, m, n)
    BY <1>2, StackStepsExist, Zenon
  <2> QED BY <1>1, <2>1, Zenon DEF KernelStack, StackSteps
<1>4. \A i \in 0 .. n : d[i] = IF i = 0 THEN m ELSE AddKernelStack(d[i - 1])
  BY <1>3 DEF StackSteps
<1> DEFINE Bad == {k \in 0 .. n : ~Stacked(m, d[k], k)}
<1>5. SUFFICES ASSUME Bad # {} PROVE FALSE
  <2>1. n \notin Bad /\ n \in 0 .. n
    BY <1>2, <1>5
  <2> QED BY <1>1, <1>3, <2>1
<1>6. Bad \subseteq Nat
  BY <1>2
<1>7. PICK k \in Bad : \A j \in Bad : k <= j
  BY <1>5, <1>6, Least, Zenon
<1>8. k \in 0 .. n /\ ~Stacked(m, d[k], k)
  BY <1>7
<1>9. CASE k = 0
  <2>1. d[0] = m
    BY <1>2, <1>4
  <2>2. PICK e : e = m.kstack
    BY Zenon
  <2>3. e = <<>>
    BY <2>2
  <2>4. StackOk(e) /\ OnTop(e, m.bitmap) /\ Len(e) = 0
    BY ONLY <2>3 DEF StackOk, OnTop
  <2>5. Stacked(m, m, 0)
    BY <2>2, <2>4, GrownSame DEF Stacked
  <2> QED BY <1>8, <1>9, <2>1, <2>5
<1>10. CASE k # 0
  <2>1. k \in Nat /\ k - 1 \in 0 .. n /\ ~(k <= k - 1) /\ k > 0 /\ (k - 1) + 1 = k
    BY ONLY <1>2, <1>8, <1>10
  <2>2. PICK q : q = d[k - 1]
    BY Zenon
  <2>3. Stacked(m, q, k - 1)
    <3>1. k - 1 \notin Bad
      <4> HIDE DEF Bad
      <4> QED BY <1>7, <2>1, Zenon
    <3> QED BY <2>1, <2>2, <3>1
  <2>4. PICK s : s = d[k]
    BY Zenon
  <2>5. s = AddKernelStack(q)
    BY <1>4, <1>8, <1>10, <2>2, <2>4
  <2>6. Sound(q) /\ Grown(m, q) /\ StackOk(q.kstack) /\ OnTop(q.kstack, q.bitmap)
    BY <2>3, Zenon DEF Stacked
  <2>7. /\ Sound(s) /\ Grown(q, s) /\ s.pages = q.pages /\ StackOk(s.kstack) /\ OnTop(s.kstack, s.bitmap)
        /\ s.status = "run" => /\ q.status = "run" /\ q.pml4 # NULL
                               /\ Len(s.kstack) = Len(q.kstack) + 1
    BY ONLY <2>5, <2>6, KernelPages, Booted, AddKernelStackSound
  <2>8. Grown(m, s) /\ q.pml4 = m.pml4
    BY <2>6, <2>7, GrownTwice, Zenon DEF Grown
  <2>9. Stacked(m, s, k)
    <3>1. q.pages = m.pages
      BY <2>3, Zenon DEF Stacked
    <3>2. ASSUME s.status = "run" PROVE m.status = "run" /\ Len(s.kstack) = k /\ m.pml4 # NULL
      <4>1. m.status = "run" /\ Len(q.kstack) = k - 1
        BY <2>3, <2>7, <3>2, Zenon DEF Stacked
      <4>2. Len(s.kstack) = Len(q.kstack) + 1 /\ q.pml4 # NULL
        BY <2>7, <3>2, Zenon
      <4> QED BY ONLY <2>1, <2>8, <4>1, <4>2
    <3> QED BY <2>7, <2>8, <3>1, <3>2, Zenon DEF Stacked
  <2> QED BY <1>8, <2>4, <2>9
<1> QED BY <1>9, <1>10

\* A new address space.
LEMMA NewSpaceSound ==
    ASSUME KernelPages, Booted, BitmapOk(bitmap), NEW m, m = NewSpace
    PROVE  /\ Sound(m) /\ m.kstack = <<>> /\ bitmap \subseteq m.bitmap
           /\ m.pml4 # NULL => OwnedBy(m) \subseteq m.bitmap \ bitmap
<1>1. PICK f : f = pmm_alloc(bitmap)
  BY Zenon
<1>2. (f = NULL => FreeFrames(bitmap) = {}) /\ (f # NULL => Fresh(bitmap, f))
  BY <1>1, Alloc
<1>3. m = [bitmap |-> Taken(bitmap, f), pml4 |-> f, tables |-> NoMap, pages |-> NoMap,
           kstack |-> <<>>, status |-> "run"]
  BY <1>1, Zenon DEF NewSpace
<1>4. /\ m.bitmap = Taken(bitmap, f) /\ m.pml4 = f /\ m.tables = NoMap /\ m.pages = NoMap
      /\ m.kstack = <<>> /\ m.status = "run"
  BY <1>3
<1>5. Space6(m)
  BY <1>3, <1>4 DEF Space6
<1>6. Range(NoMap) = {} /\ IsInjective(NoMap)
  BY DEF NoMap, Range, IsInjective
<1>7. PICK e : e = m.kstack
  BY Zenon
<1>8. Range(e) = {} /\ IsInjective(e)
  <2>1. e = <<>>
    BY <1>4, <1>7
  <2>2. DOMAIN e = {}
    BY ONLY <2>1
  <2> QED BY ONLY <2>2 DEF Range, IsInjective
<1>9. OneUse(m) /\ OwnedBy(m) = {f}
  BY <1>4, <1>6, <1>7, <1>8, Zenon DEF OneUse, OwnedBy
<1>10. Range(m.tables) \cup Range(m.pages) \cup Range(m.kstack) \subseteq Given(m.bitmap)
  BY <1>4, <1>6, <1>7, <1>8, Zenon
<1>11. CASE f = NULL
  <2>1. BitmapOk(Taken(bitmap, f)) /\ FreeFrames(Taken(bitmap, f)) = {}
    BY ONLY <1>2, <1>11, KernelPages, Booted, BitmapOk(bitmap), NoneLeft
  <2>2. bitmap \subseteq m.bitmap
    BY <1>4, Zenon DEF Taken
  <2>3. Sound(m)
    BY <1>4, <1>5, <1>9, <1>10, <1>11, <2>1, Zenon DEF Sound
  <2> QED BY <1>4, <1>11, <2>2, <2>3, Zenon
<1>12. CASE f # NULL
  <2>1. Fresh(bitmap, f)
    BY <1>2, <1>12
  <2>2. BitmapOk(m.bitmap) /\ f \in Given(m.bitmap) /\ f \in m.bitmap \ bitmap /\ bitmap \subseteq m.bitmap
    BY <1>4, <2>1, Zenon DEF Fresh, Taken
  <2>3. Sound(m)
    BY <1>4, <1>5, <1>9, <1>10, <1>12, <2>2, Zenon DEF Sound
  <2> QED BY <1>4, <1>9, <2>2, <2>3, Zenon
<1> QED BY <1>11, <1>12

\* create_elf_process: a process with frames that were free, or the loss of some.
LEMMA CreateSound ==
    ASSUME KernelPages, Booted, BitmapOk(bitmap), NEW r, r = create_elf_process
    PROVE  /\ Sound(r) /\ bitmap \subseteq r.bitmap
           /\ r.status = "run" => /\ r.pml4 # NULL /\ OwnedBy(r) \subseteq r.bitmap \ bitmap
                                  /\ StackOk(r.kstack) /\ Len(r.kstack) = num_stack_pages
<1>1. PICK m : m = NewSpace
  BY Zenon
<1>2. PICK vs : vs = Segments \o UserStack
  BY Zenon
<1>3. PICK t : t = MapAll(m, vs)
  BY Zenon
<1>4. r = KernelStack(t)
  BY <1>1, <1>2, <1>3, Zenon DEF create_elf_process
<1>5. /\ Sound(m) /\ m.kstack = <<>> /\ bitmap \subseteq m.bitmap
      /\ m.pml4 # NULL => OwnedBy(m) \subseteq m.bitmap \ bitmap
  BY ONLY <1>1, KernelPages, Booted, BitmapOk(bitmap), NewSpaceSound
<1>6. Len(vs) \in Nat
  <2>1. UserStack \in Seq(Int)
    BY LayoutAssumption DEF UserStack
  <2> QED BY <1>2, <2>1, LayoutAssumption
<1>7. Mapped(m, t, vs, Len(vs))
  BY ONLY <1>3, <1>5, <1>6, KernelPages, Booted, MapAllSound
<1>8. Sound(t) /\ Grown(m, t) /\ t.kstack = <<>>
  BY <1>5, <1>7, Zenon DEF Mapped
<1>9. Stacked(t, r, num_stack_pages)
  BY ONLY <1>4, <1>8, KernelPages, Booted, KernelStackSound
<1>10. Sound(r) /\ Grown(m, r)
  BY <1>8, <1>9, GrownTwice, Zenon DEF Stacked
<1>11. bitmap \subseteq r.bitmap
  BY <1>5, <1>10, Zenon DEF Grown
<1>12. ASSUME r.status = "run"
       PROVE  /\ r.pml4 # NULL /\ OwnedBy(r) \subseteq r.bitmap \ bitmap
              /\ StackOk(r.kstack) /\ Len(r.kstack) = num_stack_pages
  <2>1. num_stack_pages > 0
    BY LayoutAssumption
  <2>2. t.pml4 # NULL /\ StackOk(r.kstack) /\ Len(r.kstack) = num_stack_pages
    BY <1>9, <1>12, <2>1, Zenon DEF Stacked
  <2>3. t.pml4 = m.pml4 /\ r.pml4 = m.pml4
    BY <1>8, <1>10, Zenon DEF Grown
  <2>4. OwnedBy(r) \subseteq r.bitmap \ bitmap
    BY <1>5, <1>10, <2>2, <2>3, Zenon DEF Grown
  <2> QED BY <2>2, <2>3, <2>4, Zenon
<1> QED BY <1>10, <1>11, <1>12, Zenon

-----------------------------------------------------------------------------
(* The invariant.                                                          *)

\* A process whose frames pmm_alloc has returned, by bitmap b.
ProcOk(s, b) ==
    /\ s = [pml4 |-> s.pml4, tables |-> s.tables, pages |-> s.pages, kstack |-> s.kstack]
    /\ OneUse(s) /\ OwnedBy(s) \subseteq Given(b)
    /\ StackOk(s.kstack) /\ Len(s.kstack) = num_stack_pages

FrameInv ==
    /\ Booted /\ BitmapOk(bitmap) /\ kheap \subseteq Given(bitmap)
    /\ \A p \in DOMAIN procs :
        /\ ProcOk(procs[p], bitmap)
        /\ OwnedBy(procs[p]) \cap kheap = {}
        /\ \A q \in DOMAIN procs \ {p} : OwnedBy(procs[p]) \cap OwnedBy(procs[q]) = {}

\* What SC_MMAP returned lies below heap_end, while no request was too large.
BelowEnd(s, e) == \A v \in s : v \in Int /\ v < e

HeapInv ==
    /\ DOMAIN heap_end = DOMAIN procs /\ DOMAIN mmapped = DOMAIN procs
    /\ \A p \in DOMAIN procs :
        /\ heap_end[p] \in Int /\ mmapped[p] \subseteq DOMAIN procs[p].pages
        /\ p \notin overflowed => BelowEnd(mmapped[p], heap_end[p])

MInv == FrameInv /\ HeapInv

\* More bits set, more frames handed out.
LEMMA GivenGrows == ASSUME NEW b, NEW c, b \subseteq c PROVE Given(b) \subseteq Given(c)
BY Zenon DEF Given

\* The boot loader's map stays.
LEMMA SameMachine ==
    ASSUME UNCHANGED <<memmap, total_pages>>
    PROVE  /\ Booted' = Booted
           /\ \A b : Given(b)' = Given(b)
           /\ \A b : BitmapOk(b)' = BitmapOk(b)
           /\ \A s, b : ProcOk(s, b)' = ProcOk(s, b)
<1>1. memmap' = memmap /\ total_pages' = total_pages
  OBVIOUS
<1>2. Booted' = Booted
  BY <1>1, Zenon DEF Booted
<1>3. \A b : Given(b)' = Given(b)
  BY <1>1, Zenon DEF Given
<1>4. \A b : FreeFrames(b)' = FreeFrames(b)
  BY <1>1, Zenon DEF FreeFrames
<1>5. \A b : BitmapOk(b)' = BitmapOk(b)
  BY <1>1, <1>3, <1>4, Zenon DEF BitmapOk
<1>6. \A k : StackOk(k)' = StackOk(k)
  BY <1>1, Zenon DEF StackOk
<1>7. \A s, b : ProcOk(s, b)' = ProcOk(s, b)
  BY <1>3, <1>6, Zenon DEF ProcOk
<1> QED BY <1>2, <1>3, <1>5, <1>7

\* Frames are taken; one process has changed, or come into being.
LEMMA OneProcess ==
    ASSUME FrameInv, UNCHANGED <<memmap, total_pages, kheap>>,
           NEW p, NEW s, NEW b, bitmap' = b, bitmap \subseteq b, BitmapOk(b),
           DOMAIN procs' = DOMAIN procs \cup {p}, procs'[p] = s,
           \A q \in DOMAIN procs : q # p => procs'[q] = procs[q],
           ProcOk(s, b),
           \A f \in OwnedBy(s) : f \notin bitmap \/ (p \in DOMAIN procs /\ f \in OwnedBy(procs[p]))
    PROVE  FrameInv'
<1>1. kheap' = kheap /\ Given(bitmap) \subseteq Given(b)
  BY GivenGrows
<1>2. Booted' /\ (BitmapOk(bitmap))' /\ (kheap \subseteq Given(bitmap))'
  <2>1. Booted' = Booted /\ Given(b)' = Given(b) /\ BitmapOk(b)' = BitmapOk(b)
    BY SameMachine, Zenon
  <2>2. (BitmapOk(bitmap))'
    BY <2>1, Zenon
  <2>3. kheap \subseteq Given(b)
    BY <1>1, Zenon DEF FrameInv
  <2>4. (kheap \subseteq Given(bitmap))'
    BY <1>1, <2>1, <2>3, Zenon
  <2> QED BY <2>1, <2>2, <2>4 DEF FrameInv
<1>3. ASSUME NEW q \in DOMAIN procs PROVE OwnedBy(procs[q]) \subseteq bitmap /\ OwnedBy(procs[q]) \cap kheap = {}
  BY Zenon DEF FrameInv, ProcOk, Given
<1>4. kheap \subseteq bitmap
  BY Zenon DEF FrameInv, Given
<1>5. OwnedBy(s) \cap kheap = {}
  BY <1>3, <1>4, Zenon
<1>6. ASSUME NEW q \in DOMAIN procs, q # p PROVE OwnedBy(s) \cap OwnedBy(procs[q]) = {}
  <2>1. p \in DOMAIN procs => OwnedBy(procs[p]) \cap OwnedBy(procs[q]) = {}
    BY <1>6, Zenon DEF FrameInv
  <2> QED BY <1>3, <2>1, Zenon
<1>7. ASSUME NEW q \in DOMAIN procs' PROVE (ProcOk(procs[q], bitmap))'
  <2>1. \A x : ProcOk(x, b)' = ProcOk(x, b)
    BY SameMachine, Zenon
  <2>2. CASE q = p
    <3>1. ProcOk(procs'[q], b)
      BY <2>2
    <3> QED BY <2>1, <3>1, Zenon
  <2>3. CASE q # p
    <3>1. q \in DOMAIN procs
      BY <2>3
    <3>2. procs'[q] = procs[q] /\ ProcOk(procs[q], bitmap)
      BY <2>3, <3>1, Zenon DEF FrameInv
    <3>3. ProcOk(procs'[q], b)
      BY <1>1, <3>2, Zenon DEF ProcOk
    <3> QED BY <2>1, <3>3, Zenon
  <2> QED BY <2>2, <2>3
<1>8. ASSUME NEW q \in DOMAIN procs' PROVE (OwnedBy(procs[q]) \cap kheap = {})'
  BY <1>1, <1>3, <1>5, Zenon
<1>9. ASSUME NEW q \in DOMAIN procs', NEW t \in DOMAIN procs' \ {q} PROVE (OwnedBy(procs[q]) \cap OwnedBy(procs[t]) = {})'
  <2>1. CASE q = p
    <3>1. t \in DOMAIN procs /\ t # p /\ procs'[t] = procs[t]
      BY <2>1
    <3>2. OwnedBy(procs'[q]) \cap OwnedBy(procs'[t]) = {}
      BY <1>6, <2>1, <3>1, Zenon
    <3> QED BY <3>2
  <2>2. CASE q # p /\ t = p
    <3>1. q \in DOMAIN procs /\ procs'[q] = procs[q]
      BY <2>2
    <3>2. OwnedBy(procs'[q]) \cap OwnedBy(procs'[t]) = {}
      BY <1>6, <2>2, <3>1, Zenon
    <3> QED BY <3>2
  <2>3. CASE q # p /\ t # p
    <3>1. q \in DOMAIN procs /\ procs'[q] = procs[q] /\ t \in DOMAIN procs \ {q} /\ procs'[t] = procs[t]
      BY <2>3
    <3>2. OwnedBy(procs'[q]) \cap OwnedBy(procs'[t]) = {}
      BY <3>1, Zenon DEF FrameInv
    <3> QED BY <3>2
  <2> QED BY <2>1, <2>2, <2>3
<1> QED BY <1>2, <1>7, <1>8, <1>9, Zenon DEF FrameInv

\* Frames are taken for the kernel heap, or lost.
LEMMA NoProcess ==
    ASSUME FrameInv, UNCHANGED <<memmap, total_pages, procs>>,
           NEW b, bitmap' = b, bitmap \subseteq b, BitmapOk(b),
           NEW h, kheap' = h, h \subseteq Given(b), \A f \in h : f \in kheap \/ f \notin bitmap
    PROVE  FrameInv'
<1>1. procs' = procs /\ Given(bitmap) \subseteq Given(b)
  BY GivenGrows
<1>2. Booted' /\ (BitmapOk(bitmap))' /\ (kheap \subseteq Given(bitmap))'
  <2>1. Booted' = Booted /\ Given(b)' = Given(b) /\ BitmapOk(b)' = BitmapOk(b)
    BY SameMachine, Zenon
  <2>2. (BitmapOk(bitmap))' /\ (kheap \subseteq Given(bitmap))'
    BY <2>1, Zenon
  <2> QED BY <2>1, <2>2 DEF FrameInv
<1>3. ASSUME NEW p \in DOMAIN procs PROVE (ProcOk(procs[p], bitmap) /\ OwnedBy(procs[p]) \cap kheap = {})'
  <2>1. ProcOk(procs[p], bitmap) /\ OwnedBy(procs[p]) \cap kheap = {}
    BY Zenon DEF FrameInv
  <2>2. \A x : ProcOk(x, b)' = ProcOk(x, b)
    BY SameMachine, Zenon
  <2>3. ProcOk(procs[p], b)
    BY <1>1, <2>1, Zenon DEF ProcOk
  <2>4. (ProcOk(procs[p], bitmap))'
    BY <1>1, <2>2, <2>3, Zenon
  <2>5. OwnedBy(procs[p]) \cap h = {}
    BY <2>1, Zenon DEF ProcOk, Given
  <2> QED BY <1>1, <2>4, <2>5, Zenon
<1>4. ASSUME NEW p \in DOMAIN procs, NEW q \in DOMAIN procs \ {p} PROVE (OwnedBy(procs[p]) \cap OwnedBy(procs[q]) = {})'
  BY <1>1, Zenon DEF FrameInv
<1> QED BY <1>1, <1>2, <1>3, <1>4, Zenon DEF FrameInv

-----------------------------------------------------------------------------
(* The steps.                                                              *)

\* What a step may do to the pages of the processes.
PagesKept == \A p \in DOMAIN procs : \A v \in DOMAIN procs[p].pages :
    \/ procs'[p].pages[v] = procs[p].pages[v]
    \/ /\ heap_end[p] <= v /\ v < USR_STACK_BASE - StackPages
       /\ v \in mmapped[p] => p \in overflowed

\* A step that takes no frame and maps no page.
LEMMA SameFrames ==
    ASSUME MInv, UNCHANGED <<memmap, total_pages, bitmap, procs, heap_end, mmapped, overflowed, kheap>>
    PROVE  MInv' /\ PagesKept
<1>1. FrameInv'
  <2>1. kheap \subseteq Given(bitmap) /\ BitmapOk(bitmap) /\ FrameInv
    BY DEF MInv, FrameInv
  <2>2. PICK b, h : b = bitmap /\ h = kheap
    BY Zenon
  <2>3. UNCHANGED <<memmap, total_pages, procs>> /\ bitmap' = b /\ kheap' = h
    BY <2>2
  <2>4. bitmap \subseteq b /\ BitmapOk(b) /\ h \subseteq Given(b) /\ \A f \in h : f \in kheap \/ f \notin bitmap
    BY <2>1, <2>2, Zenon
  <2> QED BY ONLY <2>1, <2>3, <2>4, NoProcess
<1>2. HeapInv'
  BY Zenon DEF MInv, HeapInv
<1>3. PagesKept
  BY Zenon DEF PagesKept
<1> QED BY <1>1, <1>2, <1>3 DEF MInv

\* heap_expand takes a frame for the kernel heap.
LEMMA HeapExpandStep == ASSUME KernelPages, MInv, HeapExpand PROVE MInv' /\ PagesKept
<1>1. PICK f : f = pmm_alloc(bitmap)
  BY Zenon
<1>2. CASE f = NULL
  <2>1. UNCHANGED <<memmap, total_pages, bitmap, procs, heap_end, mmapped, overflowed, kheap>>
    BY <1>1, <1>2 DEF HeapExpand, heapVars
  <2> QED BY <2>1, SameFrames
<1>3. CASE f # NULL
  <2>1. PICK b, h : b = Taken(bitmap, f) /\ h = kheap \cup {f}
    BY Zenon
  <2>2. /\ bitmap' = b /\ kheap' = h /\ UNCHANGED <<memmap, total_pages, procs>>
        /\ heap_end' = heap_end /\ mmapped' = mmapped /\ overflowed' = overflowed
    BY <1>1, <1>3, <2>1 DEF HeapExpand, heapVars
  <2>3. FrameInv /\ Booted /\ BitmapOk(bitmap) /\ kheap \subseteq Given(bitmap)
    BY DEF MInv, FrameInv
  <2>4. Fresh(bitmap, f)
    BY <1>1, <1>3, <2>3, Alloc
  <2>5. bitmap \subseteq b /\ BitmapOk(b) /\ h \subseteq Given(b) /\ \A x \in h : x \in kheap \/ x \notin bitmap
    BY <2>1, <2>3, <2>4, Zenon DEF Fresh, Taken
  <2>6. FrameInv'
    BY ONLY <2>2, <2>3, <2>5, NoProcess
  <2>7. procs' = procs
    BY <2>2
  <2>8. HeapInv' /\ PagesKept
    BY <2>2, <2>7, Zenon DEF MInv, HeapInv, PagesKept
  <2> QED BY <2>6, <2>8 DEF MInv
<1> QED BY <1>2, <1>3

\* The process keeps its tables, pages and stack.
LEMMA SavedFields ==
    ASSUME NEW m, NEW s, s = Saved(m)
    PROVE  /\ s.pml4 = m.pml4 /\ s.tables = m.tables /\ s.pages = m.pages /\ s.kstack = m.kstack
           /\ s = [pml4 |-> s.pml4, tables |-> s.tables, pages |-> s.pages, kstack |-> s.kstack]
           /\ OwnedBy(s) = OwnedBy(m) /\ (OneUse(m) => OneUse(s))
<1>1. s.pml4 = m.pml4 /\ s.tables = m.tables /\ s.pages = m.pages /\ s.kstack = m.kstack
  BY DEF Saved
<1>2. s = [pml4 |-> s.pml4, tables |-> s.tables, pages |-> s.pages, kstack |-> s.kstack]
  BY DEF Saved
<1>3. OwnedBy(s) = OwnedBy(m) /\ (OneUse(m) => OneUse(s))
  BY ONLY <1>1, Zenon DEF OwnedBy, OneUse
<1> QED BY <1>1, <1>2, <1>3, Zenon

\* What is saved of a sound space is a process.
LEMMA SavedOk ==
    ASSUME NEW m, Sound(m), m.pml4 # NULL, StackOk(m.kstack), Len(m.kstack) = num_stack_pages, NEW s, s = Saved(m)
    PROVE  ProcOk(s, m.bitmap)
<1>1. /\ s.pml4 = m.pml4 /\ s.tables = m.tables /\ s.pages = m.pages /\ s.kstack = m.kstack
      /\ s = [pml4 |-> s.pml4, tables |-> s.tables, pages |-> s.pages, kstack |-> s.kstack]
      /\ OwnedBy(s) = OwnedBy(m) /\ (OneUse(m) => OneUse(s))
  BY SavedFields, Zenon
<1>2. OwnedBy(m) \subseteq Given(m.bitmap)
  BY Zenon DEF Sound, OwnedBy
<1>3. OneUse(s)
  BY <1>1 DEF Sound
<1>4. StackOk(s.kstack) /\ Len(s.kstack) = num_stack_pages
  BY <1>1, Zenon
<1> QED BY <1>1, <1>2, <1>3, <1>4, Zenon DEF ProcOk

\* execute_elf adds a process, or loses frames.
LEMMA ExecuteElfStep == ASSUME KernelPages, MInv, NEW p, ExecuteElf(p) PROVE MInv' /\ PagesKept
<1>1. PICK m : m = create_elf_process
  BY Zenon
<1>2. FrameInv /\ Booted /\ BitmapOk(bitmap) /\ kheap \subseteq Given(bitmap)
  BY DEF MInv, FrameInv
<1>3. /\ Sound(m) /\ bitmap \subseteq m.bitmap
      /\ m.status = "run" => /\ m.pml4 # NULL /\ OwnedBy(m) \subseteq m.bitmap \ bitmap
                             /\ StackOk(m.kstack) /\ Len(m.kstack) = num_stack_pages
  BY ONLY <1>1, <1>2, KernelPages, CreateSound
<1>4. PICK b : b = m.bitmap
  BY Zenon
<1>5. bitmap' = b /\ bitmap \subseteq b /\ BitmapOk(b) /\ p \notin DOMAIN procs
  BY <1>1, <1>3, <1>4, Zenon DEF ExecuteElf, Sound
<1>6. UNCHANGED <<memmap, total_pages, kheap>> /\ overflowed' = overflowed
  BY DEF ExecuteElf
<1>7. CASE m.status # "run"
  <2>1. procs' = procs /\ heap_end' = heap_end /\ mmapped' = mmapped
    BY <1>1, <1>7 DEF ExecuteElf
  <2>2. PICK h : h = kheap
    BY Zenon
  <2>3. kheap' = h /\ h \subseteq Given(b) /\ \A f \in h : f \in kheap \/ f \notin bitmap
    BY <1>2, <1>5, <1>6, <2>2, GivenGrows
  <2>4. UNCHANGED <<memmap, total_pages, procs>>
    BY <1>6, <2>1
  <2>5. FrameInv'
    BY ONLY <1>2, <1>5, <2>3, <2>4, NoProcess
  <2>6. HeapInv' /\ PagesKept
    BY <1>6, <2>1, Zenon DEF MInv, HeapInv, PagesKept
  <2> QED BY <2>5, <2>6 DEF MInv
<1>8. CASE m.status = "run"
  <2>1. PICK s : s = Saved(m)
    BY Zenon
  <2>2. procs' = With(procs, p, s) /\ heap_end' = With(heap_end, p, USR_HEAP_BASE) /\ mmapped' = With(mmapped, p, {})
    BY <1>1, <1>8, <2>1, Zenon DEF ExecuteElf
  <2>3. DOMAIN procs' = DOMAIN procs \cup {p} /\ procs'[p] = s /\ \A q \in DOMAIN procs : q # p => procs'[q] = procs[q]
    BY <2>2 DEF With
  <2>4. /\ DOMAIN heap_end' = DOMAIN heap_end \cup {p} /\ heap_end'[p] = USR_HEAP_BASE
        /\ \A q \in DOMAIN heap_end : q # p => heap_end'[q] = heap_end[q]
        /\ DOMAIN mmapped' = DOMAIN mmapped \cup {p} /\ mmapped'[p] = {}
        /\ \A q \in DOMAIN mmapped : q # p => mmapped'[q] = mmapped[q]
    BY <2>2 DEF With
  <2>5. ProcOk(s, b)
    BY ONLY <1>3, <1>4, <1>8, <2>1, SavedOk
  <2>6. \A f \in OwnedBy(s) : f \notin bitmap \/ (p \in DOMAIN procs /\ f \in OwnedBy(procs[p]))
    <3>1. OwnedBy(s) = OwnedBy(m)
      BY ONLY <2>1, SavedFields
    <3> QED BY <1>3, <1>8, <3>1, Zenon
  <2>7. FrameInv'
    BY ONLY <1>2, <1>5, <1>6, <2>3, <2>5, <2>6, OneProcess
  <2>8. HeapInv'
    <3>1. DOMAIN heap_end' = DOMAIN procs' /\ DOMAIN mmapped' = DOMAIN procs'
      BY <2>3, <2>4, Zenon DEF MInv, HeapInv
    <3>2. ASSUME NEW q \in DOMAIN procs'
          PROVE  /\ heap_end'[q] \in Int /\ mmapped'[q] \subseteq DOMAIN procs'[q].pages
                 /\ q \notin overflowed' => BelowEnd(mmapped'[q], heap_end'[q])
      <4>1. CASE q = p
        <5>1. heap_end'[q] = USR_HEAP_BASE /\ USR_HEAP_BASE \in Int /\ mmapped'[q] = {}
          BY <2>4, <4>1, LayoutAssumption
        <5> QED BY <5>1, Zenon DEF BelowEnd
      <4>2. CASE q # p
        <5>1. /\ q \in DOMAIN procs /\ procs'[q] = procs[q]
              /\ heap_end'[q] = heap_end[q] /\ mmapped'[q] = mmapped[q]
          BY <2>3, <2>4, <4>2, Zenon DEF MInv, HeapInv
        <5> QED BY <1>6, <5>1, Zenon DEF MInv, HeapInv
      <4> QED BY <4>1, <4>2
    <3> QED BY <3>1, <3>2, Zenon DEF HeapInv
  <2>9. PagesKept
    BY <1>5, <2>3, Zenon DEF PagesKept
  <2> QED BY <2>7, <2>8, <2>9 DEF MInv
<1> QED BY <1>7, <1>8

\* A process that map_page works on.
LEMMA SpaceSound ==
    ASSUME MInv, NEW p \in DOMAIN procs, NEW m, m = Space(p)
    PROVE  /\ Sound(m) /\ m.bitmap = bitmap /\ m.pages = procs[p].pages /\ m.pml4 # NULL /\ m.status = "run"
           /\ StackOk(m.kstack) /\ Len(m.kstack) = num_stack_pages /\ OwnedBy(m) = OwnedBy(procs[p])
<1>1. ProcOk(procs[p], bitmap) /\ BitmapOk(bitmap)
  BY Zenon DEF MInv, FrameInv
<1>2. /\ m.bitmap = bitmap /\ m.pml4 = procs[p].pml4 /\ m.tables = procs[p].tables
      /\ m.pages = procs[p].pages /\ m.kstack = procs[p].kstack /\ m.status = "run"
  BY DEF Space
<1>3. Space6(m)
  BY <1>2, Zenon DEF Space, Space6
<1>4. OneUse(m) /\ OwnedBy(m) = OwnedBy(procs[p])
  BY <1>1, <1>2, Zenon DEF ProcOk, OneUse, OwnedBy
<1>5. OwnedBy(m) \subseteq Given(m.bitmap)
  BY <1>1, <1>2, <1>4, Zenon DEF ProcOk
<1>6. m.pml4 # NULL /\ m.pml4 \in Given(m.bitmap)
  BY <1>5, Zenon DEF OwnedBy, Given
<1>7. Sound(m)
  BY <1>1, <1>2, <1>3, <1>4, <1>5, <1>6, Zenon DEF Sound, OwnedBy
<1>8. StackOk(m.kstack) /\ Len(m.kstack) = num_stack_pages
  BY <1>1, <1>2, Zenon DEF ProcOk
<1> QED BY <1>2, <1>4, <1>6, <1>7, <1>8, Zenon

\* What map_page did to one process leaves the others alone.
LEMMA StoreStep ==
    ASSUME MInv, UNCHANGED <<memmap, total_pages, kheap>>, NEW p \in DOMAIN procs, NEW m, m = Space(p),
           NEW r, Sound(r), Grown(m, r), r.kstack = m.kstack, Store(p, r)
    PROVE  /\ FrameInv' /\ DOMAIN procs' = DOMAIN procs /\ procs'[p].pages = r.pages
           /\ \A q \in DOMAIN procs : q # p => procs'[q] = procs[q]
<1>1. /\ Sound(m) /\ m.bitmap = bitmap /\ m.pages = procs[p].pages /\ m.pml4 # NULL
      /\ StackOk(m.kstack) /\ Len(m.kstack) = num_stack_pages /\ OwnedBy(m) = OwnedBy(procs[p])
  BY ONLY MInv, p \in DOMAIN procs, m = Space(p), SpaceSound
<1>2. PICK b, s : b = r.bitmap /\ s = Saved(r)
  BY Zenon
<1>3. bitmap' = b /\ procs' = [procs EXCEPT ![p] = s]
  BY <1>2, Zenon DEF Store
<1>4. DOMAIN procs' = DOMAIN procs /\ procs'[p] = s /\ \A q \in DOMAIN procs : q # p => procs'[q] = procs[q]
  BY <1>3
<1>5. r.pml4 # NULL /\ StackOk(r.kstack) /\ Len(r.kstack) = num_stack_pages
  BY <1>1, Zenon DEF Grown
<1>6. ProcOk(s, b) /\ s.pages = r.pages /\ OwnedBy(s) = OwnedBy(r)
  <2>1. ProcOk(s, r.bitmap)
    BY ONLY <1>2, <1>5, Sound(r), SavedOk
  <2>2. s.pages = r.pages /\ OwnedBy(s) = OwnedBy(r)
    BY ONLY <1>2, SavedFields
  <2> QED BY <1>2, <2>1, <2>2, Zenon
<1>7. bitmap \subseteq b /\ BitmapOk(b)
  BY <1>1, <1>2, Zenon DEF Grown, Sound
<1>8. \A f \in OwnedBy(s) : f \notin bitmap \/ (p \in DOMAIN procs /\ f \in OwnedBy(procs[p]))
  BY <1>1, <1>6, Zenon DEF Grown
<1>9. DOMAIN procs' = DOMAIN procs \cup {p} /\ FrameInv
  BY <1>4, Zenon DEF MInv
<1>10. FrameInv'
  <2>1. UNCHANGED <<memmap, total_pages, kheap>> /\ bitmap' = b
    BY <1>3
  <2> QED BY ONLY <1>4, <1>6, <1>7, <1>8, <1>9, <2>1, OneProcess
<1> QED BY <1>4, <1>6, <1>10, Zenon

\* page_fault_handler_c maps a page that was not there.
LEMMA PageFaultStep == ASSUME KernelPages, MInv, NEW p \in DOMAIN procs, PageFault(p) PROVE MInv' /\ PagesKept
<1>1. PICK v \in (USR_STACK_BASE - StackPages) .. USR_STACK_BASE :
          /\ StackFault(p, v) /\ Store(p, MapNew(Space(p), v))
          /\ UNCHANGED <<memmap, total_pages, heapVars, kheap>>
  BY Zenon DEF PageFault
<1>2. PICK m : m = Space(p)
  BY Zenon
<1>3. PICK r : r = MapNew(m, v)
  BY Zenon
<1>4. Sound(m) /\ m.pages = procs[p].pages /\ Booted
  <2>1. Sound(m) /\ m.pages = procs[p].pages
    BY <1>2, SpaceSound
  <2> QED BY <2>1 DEF MInv, FrameInv
<1>5. /\ Sound(r) /\ Grown(m, r) /\ r.kstack = m.kstack /\ DOMAIN m.pages \subseteq DOMAIN r.pages
      /\ \A x \in DOMAIN m.pages : x # v => r.pages[x] = m.pages[x]
  BY ONLY <1>3, <1>4, KernelPages, MapNewSound
<1>6. /\ UNCHANGED <<memmap, total_pages, kheap>> /\ Store(p, r)
      /\ heap_end' = heap_end /\ mmapped' = mmapped /\ overflowed' = overflowed
  BY <1>1, <1>2, <1>3 DEF heapVars
<1>7. /\ FrameInv' /\ DOMAIN procs' = DOMAIN procs /\ procs'[p].pages = r.pages
      /\ \A q \in DOMAIN procs : q # p => procs'[q] = procs[q]
  BY ONLY <1>2, <1>5, <1>6, MInv, p \in DOMAIN procs, StoreStep
<1>8. HeapInv'
  <2>1. ASSUME NEW q \in DOMAIN procs PROVE mmapped[q] \subseteq DOMAIN procs'[q].pages
    <3>1. DOMAIN procs[q].pages \subseteq DOMAIN procs'[q].pages
      BY <1>4, <1>5, <1>7, Zenon
    <3> QED BY <3>1, Zenon DEF MInv, HeapInv
  <2> QED BY <1>6, <1>7, <2>1, Zenon DEF MInv, HeapInv
<1>9. PagesKept
  <2>1. ASSUME NEW x \in DOMAIN procs[p].pages PROVE procs'[p].pages[x] = procs[p].pages[x]
    <3>1. x # v
      BY <1>1, Zenon DEF StackFault
    <3> QED BY <1>4, <1>5, <1>7, <3>1, Zenon
  <2> QED BY <1>7, <2>1, Zenon DEF PagesKept
<1> QED BY <1>7, <1>8, <1>9 DEF MInv

\* heap_end grows by whole pages, and by all of them when their bytes fit into 32 bits.
LEMMA Counted ==
    ASSUME KernelPages, NEW n \in Nat, NEW d, d = ByteCount(n) \div PAGE_SIZE
    PROVE  d \in Int /\ (n * PAGE_SIZE < UINT32 => d = n)
<1>1. d = ((n * 4096) % 4294967296) \div 4096
  BY DEF ByteCount, KernelPages
<1>2. d \in Int /\ (n * 4096 < 4294967296 => d = n)
  BY ONLY <1>1, n \in Nat
<1> QED BY <1>2 DEF KernelPages

\* sys_alloc_pages maps pages from heap_end up, and below the stack.
LEMMA SysAllocPagesStep == ASSUME KernelPages, MInv, NEW p \in DOMAIN procs, SysAllocPages(p) PROVE MInv' /\ PagesKept
<1>1. PICK rsi \in MmapPages : /\ heap_end[p] + (rsi % UINT32) <= USR_HEAP_BASE + MaxHeapPages
                                /\ sys_alloc_pages(p, rsi % UINT32)
  BY Zenon DEF SysAllocPages
<1>2. PICK n : n = rsi % UINT32
  BY Zenon
<1>3. n \in Nat
  <2>1. rsi \in Nat /\ UINT32 = 4294967296
    BY LayoutAssumption DEF KernelPages
  <2> QED BY ONLY <1>2, <2>1
<1>4. PICK m, h, d : m = Space(p) /\ h = heap_end[p] /\ d = ByteCount(n) \div PAGE_SIZE
  BY Zenon
<1>5. PICK vs, r : vs = [i \in 1 .. n |-> h + i - 1] /\ r = MapAll(m, vs)
  BY Zenon
<1>6. /\ UNCHANGED <<memmap, total_pages, kheap>> /\ Store(p, r)
      /\ r.status = "run" =>
            /\ heap_end' = [heap_end EXCEPT ![p] = h + d]
            /\ mmapped' = [mmapped EXCEPT ![p] = mmapped[p] \cup (h .. (h + n - 1))]
            /\ overflowed' = IF n * PAGE_SIZE < UINT32 THEN overflowed ELSE overflowed \cup {p}
      /\ r.status # "run" => heap_end' = heap_end /\ mmapped' = mmapped /\ overflowed' = overflowed
  <2>1. sys_alloc_pages(p, n) /\ UNCHANGED <<memmap, total_pages, kheap>>
    BY <1>1, <1>2, Zenon DEF SysAllocPages
  <2> QED BY <1>4, <1>5, <2>1 DEF sys_alloc_pages, heapVars
<1>7. /\ Sound(m) /\ m.pages = procs[p].pages /\ Booted /\ h \in Int
      /\ DOMAIN heap_end = DOMAIN procs /\ DOMAIN mmapped = DOMAIN procs
  <2>1. Sound(m) /\ m.pages = procs[p].pages
    BY <1>4, SpaceSound
  <2> QED BY <1>4, <2>1 DEF MInv, FrameInv, HeapInv
<1>8. Len(vs) = n /\ Len(vs) \in Nat /\ \A i \in 1 .. n : vs[i] = h + i - 1
  <2>1. vs \in [1 .. n -> Int]
    BY <1>3, <1>5, <1>7
  <2>2. Len(vs) = n
    BY <1>3, <2>1
  <2> QED BY <1>3, <1>5, <2>2
<1>9. Mapped(m, r, vs, n)
  <2>1. Mapped(m, r, vs, Len(vs))
    BY ONLY <1>5, <1>7, <1>8, KernelPages, MapAllSound
  <2> QED BY <1>8, <2>1, Zenon
<1>10. /\ Sound(r) /\ Grown(m, r) /\ r.kstack = m.kstack /\ DOMAIN m.pages \subseteq DOMAIN r.pages
       /\ \A x \in DOMAIN m.pages : (\A j \in 1 .. n : x # vs[j]) => r.pages[x] = m.pages[x]
       /\ r.status = "run" => \A j \in 1 .. n : vs[j] \in DOMAIN r.pages
  BY <1>9, Zenon DEF Mapped
<1>11. /\ FrameInv' /\ DOMAIN procs' = DOMAIN procs /\ procs'[p].pages = r.pages
       /\ \A q \in DOMAIN procs : q # p => procs'[q] = procs[q]
  BY ONLY <1>4, <1>6, <1>10, MInv, p \in DOMAIN procs, StoreStep
<1>12. /\ mmapped[p] \subseteq DOMAIN r.pages
       /\ p \notin overflowed => BelowEnd(mmapped[p], h)
  BY <1>4, <1>7, <1>10, Zenon DEF MInv, HeapInv
<1>13. HeapInv'
  <2>1. CASE r.status # "run"
    <3>1. heap_end' = heap_end /\ mmapped' = mmapped /\ overflowed' = overflowed
      BY <1>6, <2>1
    <3>2. \A q \in DOMAIN procs : mmapped[q] \subseteq DOMAIN procs'[q].pages
      BY <1>11, <1>12, Zenon DEF MInv, HeapInv
    <3> QED BY <1>11, <3>1, <3>2, Zenon DEF MInv, HeapInv
  <2>2. CASE r.status = "run"
    <3>1. PICK s : s = mmapped[p] \cup (h .. (h + n - 1))
      BY Zenon
    <3>2. /\ heap_end' = [heap_end EXCEPT ![p] = h + d] /\ mmapped' = [mmapped EXCEPT ![p] = s]
          /\ overflowed' = IF n * PAGE_SIZE < UINT32 THEN overflowed ELSE overflowed \cup {p}
      BY <1>6, <2>2, <3>1, Zenon
    <3>3. /\ DOMAIN heap_end' = DOMAIN procs /\ heap_end'[p] = h + d
          /\ \A q \in DOMAIN procs : q # p => heap_end'[q] = heap_end[q]
      BY <1>7, <3>2
    <3>4. /\ DOMAIN mmapped' = DOMAIN procs /\ mmapped'[p] = s
          /\ \A q \in DOMAIN procs : q # p => mmapped'[q] = mmapped[q]
      BY <1>7, <3>2
    <3>5. overflowed \subseteq overflowed' /\ (p \notin overflowed' => p \notin overflowed /\ n * PAGE_SIZE < UINT32)
          /\ \A q : q # p /\ q \in overflowed' => q \in overflowed
      BY <3>2, Zenon
    <3>6. d \in Int /\ (n * PAGE_SIZE < UINT32 => d = n)
      BY ONLY <1>3, <1>4, KernelPages, Counted
    <3>7. s \subseteq DOMAIN r.pages
      <4>1. ASSUME NEW v \in h .. (h + n - 1) PROVE v \in DOMAIN r.pages
        <5>1. v - h + 1 \in 1 .. n /\ h + (v - h + 1) - 1 = v
          BY ONLY <1>3, <1>7, v \in h .. (h + n - 1)
        <5>2. vs[v - h + 1] = v
          BY <1>8, <5>1
        <5> QED BY <1>10, <2>2, <5>1, <5>2, Zenon
      <4> QED BY <1>12, <3>1, <4>1, Zenon
    <3>8. ASSUME p \notin overflowed' PROVE BelowEnd(s, h + d)
      <4>1. d = n /\ BelowEnd(mmapped[p], h)
        BY <1>12, <3>5, <3>6, <3>8
      <4>2. ASSUME NEW v \in s PROVE v \in Int /\ v < h + d
        <5>1. CASE v \in mmapped[p]
          <6>1. v \in Int /\ v < h
            BY <4>1, <5>1, Zenon DEF BelowEnd
          <6> QED BY ONLY <1>3, <1>7, <4>1, <6>1
        <5>2. CASE v \in h .. (h + n - 1)
          BY ONLY <1>3, <1>7, <4>1, <5>2
        <5> QED BY <3>1, <5>1, <5>2, Zenon
      <4> QED BY <4>2, Zenon DEF BelowEnd
    <3>9. h + d \in Int
      BY <1>7, <3>6
    <3>10. ASSUME NEW q \in DOMAIN procs
           PROVE  /\ heap_end'[q] \in Int /\ mmapped'[q] \subseteq DOMAIN procs'[q].pages
                  /\ q \notin overflowed' => BelowEnd(mmapped'[q], heap_end'[q])
      <4>1. CASE q = p
        <5>1. heap_end'[q] = h + d /\ mmapped'[q] = s /\ procs'[q].pages = r.pages
          BY <1>11, <3>3, <3>4, <4>1, Zenon
        <5> QED BY <3>7, <3>8, <3>9, <4>1, <5>1, Zenon
      <4>2. CASE q # p
        <5>1. heap_end'[q] = heap_end[q] /\ mmapped'[q] = mmapped[q] /\ procs'[q] = procs[q]
          BY <1>11, <3>3, <3>4, <4>2, Zenon
        <5>2. q \notin overflowed' => q \notin overflowed
          BY <3>5, Zenon
        <5> QED BY <5>1, <5>2, Zenon DEF MInv, HeapInv
      <4> QED BY <4>1, <4>2
    <3> QED BY <1>11, <3>3, <3>4, <3>10, Zenon DEF HeapInv
  <2> QED BY <2>1, <2>2
<1>14. ASSUME NEW x \in DOMAIN procs[p].pages
       PROVE  \/ procs'[p].pages[x] = procs[p].pages[x]
              \/ /\ heap_end[p] <= x /\ x < USR_STACK_BASE - StackPages
                 /\ x \in mmapped[p] => p \in overflowed
  <2>1. CASE \A j \in 1 .. n : x # vs[j]
    BY <1>7, <1>10, <1>11, <2>1, Zenon
  <2>2. CASE \E j \in 1 .. n : x = vs[j]
    <3>1. PICK j \in 1 .. n : x = h + j - 1
      BY <1>8, <2>2, Zenon
    <3>2. /\ USR_HEAP_BASE \in Int /\ MaxHeapPages \in Int /\ USR_STACK_BASE \in Int /\ StackPages \in Int
          /\ h + n <= USR_HEAP_BASE + MaxHeapPages /\ USR_HEAP_BASE + MaxHeapPages <= USR_STACK_BASE - StackPages
      BY <1>1, <1>2, <1>4, LayoutAssumption
    <3>3. h <= x /\ x < USR_STACK_BASE - StackPages /\ ~(x < h)
      BY ONLY <1>3, <1>7, <3>1, <3>2
    <3>4. x \in mmapped[p] => p \in overflowed
      BY <1>12, <3>3, Zenon DEF BelowEnd
    <3> QED BY <1>4, <3>3, <3>4, Zenon
  <2> QED BY <2>1, <2>2, Zenon
<1>15. PagesKept
  BY <1>11, <1>14, Zenon DEF PagesKept
<1> QED BY <1>11, <1>13, <1>15 DEF MInv

\* Every step keeps the invariant and the pages of the processes.
LEMMA MemoryStep == ASSUME KernelPages, MInv, [Next]_vars PROVE MInv' /\ PagesKept
<1>1. CASE HeapExpand
  BY <1>1, HeapExpandStep
<1>2. ASSUME NEW p \in Procs, ExecuteElf(p) PROVE MInv' /\ PagesKept
  BY <1>2, ExecuteElfStep
<1>3. ASSUME NEW p \in DOMAIN procs, SysAllocPages(p) PROVE MInv' /\ PagesKept
  BY <1>3, SysAllocPagesStep
<1>4. ASSUME NEW p \in DOMAIN procs, PageFault(p) PROVE MInv' /\ PagesKept
  BY <1>4, PageFaultStep
<1>5. ASSUME NEW p \in DOMAIN procs, SysFreePages(p) \/ UnhandledFault(p) PROVE MInv' /\ PagesKept
  <2>1. UNCHANGED <<memmap, total_pages, bitmap, procs, heap_end, mmapped, overflowed, kheap>>
    BY <1>5 DEF SysFreePages, UnhandledFault, heapVars
  <2> QED BY <2>1, SameFrames
<1>6. CASE UNCHANGED vars
  <2>1. UNCHANGED <<memmap, total_pages, bitmap, procs, heap_end, mmapped, overflowed, kheap>>
    BY <1>6 DEF vars, heapVars
  <2> QED BY <2>1, SameFrames
<1> QED BY <1>1, <1>2, <1>3, <1>4, <1>5, <1>6, Zenon DEF Next

\* After init_bitmap nothing is handed out.
LEMMA MemoryInit == ASSUME Init PROVE MInv
<1>1. DOMAIN procs = {} /\ DOMAIN heap_end = {} /\ DOMAIN mmapped = {} /\ kheap = {} /\ Booted
  BY DEF Init, NoMap, Booted
<1>2. Given(bitmap) = {}
  BY Zenon DEF Init, Given
<1>3. Frames(memmap) \ FreeAtBoot(memmap) \subseteq bitmap
  BY Zenon DEF Init
<1>4. BitmapOk(bitmap)
  BY <1>2, <1>3, Zenon DEF BitmapOk
<1> QED BY <1>1, <1>4, Zenon DEF MInv, FrameInv, HeapInv

-----------------------------------------------------------------------------
(* The theorems.                                                           *)

\* The invariant of the frames and the heaps.
LEMMA MemoryInvariant == ASSUME KernelPages PROVE Spec => []MInv
<1>1. Init => MInv
  BY MemoryInit
<1>2. MInv /\ [Next]_vars => MInv'
  BY MemoryStep
<1> QED BY <1>1, <1>2, PTL DEF Spec

\* Whatever memory map the boot loader reports, whatever programs are loaded and
\* however the heap, the stacks and the processes grow: a frame that pmm_alloc
\* returned has one use, and no use gets memory the map does not call usable.
THEOREM FramesCorrect == ASSUME KernelPages PROVE Spec => []FramesDisjoint
<1>1. ASSUME MInv PROVE FramesDisjoint
  <2>1. Given(bitmap) \subseteq UsableFrames(memmap)
    BY <1>1, FreeUsable, Zenon DEF MInv, FrameInv, Booted, Given
  <2>2. kheap \subseteq UsableFrames(memmap)
    BY <1>1, <2>1, Zenon DEF MInv, FrameInv
  <2>3. ASSUME NEW p \in DOMAIN procs
        PROVE  /\ OneUse(procs[p]) /\ FramesOwned(p) \cap kheap = {} /\ FramesOwned(p) \subseteq UsableFrames(memmap)
               /\ \A q \in DOMAIN procs \ {p} : FramesOwned(p) \cap FramesOwned(q) = {}
    BY <1>1, <2>1, Zenon DEF MInv, FrameInv, ProcOk, FramesOwned
  <2> QED BY <2>2, <2>3, Zenon DEF FramesDisjoint
<1>2. MInv => FramesDisjoint
  BY <1>1
<1> QED BY <1>2, MemoryInvariant, PTL

\* The frames that create_elf_process takes for granted below kernel_stack_top are
\* never those of another process: pmm_alloc goes upwards and the loop takes nothing
\* else in between.
THEOREM KernelStackCorrect == ASSUME KernelPages PROVE Spec => []KernelStackOwn
<1>1. ASSUME MInv, NEW p \in DOMAIN procs, NEW i \in 0 .. (nb_stack_page - 1), NEW f, f = procs[p].kstack[nb_stack_page] - i
      PROVE  f \in Range(procs[p].kstack) \/ f \notin FreeAtBoot(memmap)
  <2>1. PICK k, n : k = procs[p].kstack /\ n = nb_stack_page
    BY Zenon
  <2>2. StackOk(k) /\ Len(k) = num_stack_pages
    BY <1>1, <2>1, Zenon DEF MInv, FrameInv, ProcOk
  <2>3. n \in 1 .. Len(k) /\ Len(k) \in Nat /\ Len(k) > 0
    BY <2>1, <2>2, LayoutAssumption
  <2>4. 1 \in 1 .. Len(k) /\ Len(k) \in 1 .. Len(k) /\ 1 <= n /\ n <= Len(k)
    BY ONLY <2>3
  <2>5. k[1] \in Nat /\ k[n] \in Nat /\ k[Len(k)] \in Nat
    <3>1. k \in Seq(Nat)
      BY <2>2, Zenon DEF StackOk
    <3>2. \A j \in 1 .. Len(k) : k[j] \in Nat
      BY ONLY <3>1
    <3> QED BY ONLY <2>3, <2>4, <3>2, Zenon
  <2>6. k[n] - k[1] >= n - 1 /\ k[Len(k)] - k[n] >= Len(k) - n
    <3>1. \A a, c \in 1 .. Len(k) : a <= c => k[c] - k[a] >= c - a
      BY <2>2, Zenon DEF StackOk
    <3> QED BY ONLY <2>3, <2>4, <3>1, Zenon
  <2>7. i \in 0 .. n - 1 /\ f = k[n] - i
    BY <1>1, <2>1
  <2>8. f \in Nat /\ k[1] <= f /\ f <= k[Len(k)]
    <3>1. PICK a, c, e, l : a = k[1] /\ c = k[n] /\ e = k[Len(k)] /\ l = Len(k)
      BY Zenon
    <3>2. a \in Nat /\ c \in Nat /\ e \in Nat /\ l \in Nat /\ n \in 1 .. l /\ c - a >= n - 1 /\ e - c >= l - n /\ f = c - i
      BY <2>3, <2>5, <2>6, <2>7, <3>1, Zenon
    <3>3. f \in Nat /\ a <= f /\ f <= e
      BY ONLY <2>7, <3>2
    <3> QED BY <3>1, <3>3, Zenon
  <2> QED BY <2>1, <2>2, <2>3, <2>8, Zenon DEF StackOk
<1>2. MInv => KernelStackOwn
  BY <1>1, Zenon DEF KernelStackOwn
<1> QED BY <1>2, MemoryInvariant, PTL

\* init_bitmap hands out bytes of its own bitmap only in the frame that the bitmap
\* ends in the middle of.
THEOREM BitmapCorrect == ASSUME KernelPages PROVE Spec => []BitmapOverlapOnlyTail
<1>1. ASSUME MInv PROVE BitmapOverlapOnlyTail
  <2>1. Given(bitmap) \cap BitmapFrames(memmap) \subseteq TailFrame(memmap)
    BY <1>1, TailOnly, Zenon DEF MInv, FrameInv, Booted, Given
  <2>2. ASSUME NEW f \in (UNION {FramesOwned(p) : p \in DOMAIN procs}) \cup kheap PROVE f \in Given(bitmap)
    <3>1. kheap \subseteq Given(bitmap)
      BY <1>1 DEF MInv, FrameInv
    <3>2. \A p \in DOMAIN procs : FramesOwned(p) \subseteq Given(bitmap)
      BY <1>1, Zenon DEF MInv, FrameInv, ProcOk, FramesOwned
    <3>3. CASE f \in kheap
      BY <3>1, <3>3
    <3>4. CASE f \in UNION {FramesOwned(p) : p \in DOMAIN procs}
      <4>1. PICK p \in DOMAIN procs : f \in FramesOwned(p)
        BY <3>4, Zenon
      <4> QED BY <3>2, <4>1, Zenon
    <3> QED BY <3>3, <3>4, Zenon
  <2> QED BY <2>1, <2>2, Zenon DEF BitmapOverlapOnlyTail
<1>2. MInv => BitmapOverlapOnlyTail
  BY <1>1
<1> QED BY <1>2, MemoryInvariant, PTL

\* No step of any process, and no fault, changes memory under a process: what SC_MMAP
\* returned stays mapped and keeps its frames, whatever other calls fail half way, as long
\* as the process has not asked for 2^32 bytes at once (syscall.c:187).
THEOREM MappingCorrect == ASSUME KernelPages PROVE Spec => MappingStable
<1>1. MInv /\ [Next]_vars => MInv' /\ PagesKept
  BY MemoryStep
<1>2. MInv' /\ PagesKept =>
        [/\ MmappedThere'
         /\ \A p \in DOMAIN procs : \A v \in DOMAIN procs[p].pages :
             \/ procs'[p].pages[v] = procs[p].pages[v]
             \/ /\ heap_end[p] <= v /\ v < USR_STACK_BASE - StackPages
                /\ v \in mmapped[p] => p \in overflowed]_vars
  BY Zenon DEF MInv, HeapInv, MmappedThere, PagesKept
<1> QED BY <1>1, <1>2, MemoryInvariant, PTL DEF Spec, MappingStable

=============================================================================
