-------------------------------- MODULE MCHeap -------------------------------
EXTENDS Heap

\* One byte, half a page, a size that leaves less than a header behind in a page,
\* and one that needs a page more for its header.
MCSizes == {1, 2000, 4030, 4096}
=============================================================================
