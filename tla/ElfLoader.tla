------------------------------ MODULE ElfLoader ------------------------------
(***************************************************************************)
(* load_elf_binary (kernel/elf.c): the PT_LOAD segments of a program are   *)
(* copied page by page into fresh frames. The file's bytes are their own   *)
(* offsets, so that a byte in memory tells where it came from; frames come *)
(* with what their last user left in them. Which frames they are, and      *)
(* running out of them, is the business of module Memory.                  *)
(***************************************************************************)
EXTENDS Integers, Sequences

CONSTANTS
    PAGE_SIZE,  \* bytes of a page
    Programs    \* sequences of program headers

VARIABLES
    pheaders,   \* program headers of the file
    segment,    \* index of the header being loaded
    off,        \* offset of its next page
    mem         \* pages mapped so far: page number -> bytes

elfVars == <<pheaders, segment, off, mem>>

ZERO == -1   \* a byte set by memset
STALE == -2  \* a byte nobody wrote since the frame was allocated

Byte == 0 .. PAGE_SIZE - 1
ph == pheaders[segment]
page_offset == ph.p_vaddr % PAGE_SIZE

\* Size of the segment from the start of its first page, in whole pages.
total_size ==
    LET size == ph.p_memsz + page_offset
    IN  IF size % PAGE_SIZE # 0 THEN (size \div PAGE_SIZE + 1) * PAGE_SIZE ELSE size

\* Mutant of file_read_offset: the first page is taken to be full.
file_read_offset_aligned == off

\* Where the page starts in the segment, and where the segment in the page.
file_read_offset == IF off = 0 THEN 0 ELSE off - page_offset
dest_page_offset == IF off = 0 THEN page_offset ELSE 0

byte_to_copy ==
    LET left == ph.p_filesz - file_read_offset
        room == PAGE_SIZE - dest_page_offset
    IN  IF left <= 0 THEN 0 ELSE IF left > room THEN room ELSE left

\* The frame after memcpy and memset.
Frame ==
    [b \in Byte |->
        IF b < dest_page_offset THEN STALE
        ELSE IF b < dest_page_offset + byte_to_copy
        THEN ph.p_offset + file_read_offset + (b - dest_page_offset)
        ELSE ZERO]

ElfInit ==
    /\ pheaders \in Programs
    /\ segment = 1
    /\ off = 0
    /\ mem = << >>

\* One turn of the inner loop; map_page replaces what was mapped there.
LoadPage ==
    LET page == ph.p_vaddr \div PAGE_SIZE + off \div PAGE_SIZE
    IN  /\ segment <= Len(pheaders)
        /\ ph.p_type = "PT_LOAD"
        /\ off < total_size
        /\ mem' = [p \in DOMAIN mem \union {page} |-> IF p = page THEN Frame ELSE mem[p]]
        /\ off' = off + PAGE_SIZE
        /\ UNCHANGED <<pheaders, segment>>

\* The next program header.
NextHeader ==
    /\ segment <= Len(pheaders)
    /\ ph.p_type = "PT_LOAD" => off >= total_size
    /\ segment' = segment + 1
    /\ off' = 0
    /\ UNCHANGED <<pheaders, mem>>

ElfNext == LoadPage \/ NextHeader

ElfSpec == ElfInit /\ [][ElfNext]_elfVars

-----------------------------------------------------------------------------
(* Properties *)

\* The pages from the one a segment starts in to the one it ends in (an empty
\* segment that starts inside a page still has that page).
Pages(h) ==
    h.p_vaddr \div PAGE_SIZE .. (h.p_vaddr + h.p_memsz + PAGE_SIZE - 1) \div PAGE_SIZE - 1

\* No later segment touches a page of the h-th.
KeepsPages(h) ==
    \A k \in h + 1 .. Len(pheaders) :
        pheaders[k].p_type = "PT_LOAD" => Pages(pheaders[h]) \cap Pages(pheaders[k]) = {}

At(a) == mem[a \div PAGE_SIZE][a % PAGE_SIZE]

\* A segment that load_elf_binary has passed is in memory as the ELF format
\* asks: p_filesz bytes of the file and then zeros up to p_memsz, across page
\* borders and with a start anywhere in a page, unless a later segment shares a
\* page with it, whose fresh frame then replaces the page.
SegmentsInPlace ==
    \A h \in 1 .. segment - 1 : pheaders[h].p_type = "PT_LOAD" /\ KeepsPages(h) =>
        \A k \in 0 .. pheaders[h].p_memsz - 1 :
            /\ (pheaders[h].p_vaddr + k) \div PAGE_SIZE \in DOMAIN mem
            /\ At(pheaders[h].p_vaddr + k) =
                IF k < pheaders[h].p_filesz THEN pheaders[h].p_offset + k ELSE ZERO

\* Old contents of a frame remain only below the start of a segment in its
\* first page: the page's end is cleared even where no segment reaches.
StaleOnlyBelowStart ==
    \A p \in DOMAIN mem, b \in Byte : mem[p][b] = STALE =>
        \E h \in 1 .. Len(pheaders) :
            /\ p = pheaders[h].p_vaddr \div PAGE_SIZE
            /\ b < pheaders[h].p_vaddr % PAGE_SIZE

\* load_elf_binary puts every segment where the ELF format asks and leaves old
\* contents of a frame only below the start of a segment.
ProgramLoaded == SegmentsInPlace /\ StaleOnlyBelowStart
=============================================================================
