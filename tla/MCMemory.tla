------------------------------ MODULE MCMemory -------------------------------
EXTENDS Memory, TLC

Pages(first, n, t) == [base |-> first * PAGE_SIZE, length |-> n * PAGE_SIZE, type |-> t]

\* Usable memory up to page hole, two pages that are not, usable memory again up to
\* page 31, and a frame buffer that ends at page top.
MapWithHole(hole, top) ==
    <<Pages(0, 1, "reserved"), Pages(1, hole, "usable"), Pages(hole + 1, 2, "other"),
      Pages(hole + 3, 31 - (hole + 2), "usable"), Pages(40, top - 40, "other")>>

\* Bitmaps of one and a half and of two pages.
MCMemMaps == {MapWithHole(hole, top) : hole \in {1, 11, 12, 20, 23}, top \in {48, 64}}
MCSegments == <<1>>
ProcSymmetry == Permutations(Procs)
=============================================================================
