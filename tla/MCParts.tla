------------------------------ MODULE MCParts ------------------------------
(***************************************************************************)
(* Seven components that share no state: the clock, the ELF loader, the    *)
(* screen, enroll-config, the way from the keys to the shell's line, the   *)
(* entries into the kernel, and the list.  A behaviour runs one of them,   *)
(* part, while the others stay in an initial state.                        *)
(***************************************************************************)
EXTENDS Rtc, ElfLoader, Screen, Enroll, Shell, Entry, List

VARIABLE part

\* Times of day at the ends and where BCD differs from binary.
MCTimes == {<<0, 9, 59>>, <<23, 59, 10>>}

\* Two segments, starts and sizes around the page border, no more bytes in the file
\* than in memory.
Header(type, vaddr, offset, filesz, memsz) ==
    [p_type |-> type, p_vaddr |-> vaddr, p_offset |-> offset, p_filesz |-> filesz, p_memsz |-> memsz]

First == {Header("PT_LOAD", v, 10, n, m) : v \in 0 .. 3, n \in 0 .. 9, m \in 0 .. 9}
Second == {Header("PT_LOAD", v, 30, n, m) : v \in 8 .. 13, n \in {0, 3, 5}, m \in {1, 5, 6}}
          \union {Header("PT_NOTE", 0, 0, 4, 4)}

MCPrograms == {s \in First : s.p_filesz <= s.p_memsz} \X {s \in Second : s.p_filesz <= s.p_memsz}

\* All files over two byte values, a signature that overlaps itself.
MCFiles == UNION {[1 .. n -> {1, 2}] : n \in 5 .. 11}
MCSignature == <<1, 1, 2, 1, 1>>

\* c, backspace, enter, ctrl, and right shift with its release.
MCScancodes == {46, 14, 28, 29, 54, 182}
MCExit == <<"c", "c">>

-----------------------------------------------------------------------------

SomeProgram == CHOOSE x \in MCPrograms : TRUE
SomeFile == CHOOSE x \in MCFiles : TRUE

\* The inputs of a part, or one of them for a part that stays as it is.
Inputs(p, S, some) == IF part = p THEN S ELSE {some}

Init ==
    /\ part \in {"rtc", "elf", "screen", "enroll", "shell", "entry", "list"}
    /\ RtcInit
    /\ part # "rtc" => days = 10957 /\ binary
    /\ pheaders \in Inputs("elf", Programs, SomeProgram) /\ ElfInit
    /\ ScreenInit
    /\ original \in Inputs("enroll", Files, SomeFile) /\ EnrollInit
    /\ ShellInit
    /\ EntryInit
    /\ ListInit

Next ==
    /\ UNCHANGED part
    /\ \/ /\ part = "rtc" /\ RtcNext
          /\ UNCHANGED <<elfVars, screenVars, enrollVars, shellVars, entryVars, listVars>>
       \/ /\ part = "elf" /\ ElfNext
          /\ UNCHANGED <<rtcVars, screenVars, enrollVars, shellVars, entryVars, listVars>>
       \/ /\ part = "screen" /\ ScreenNext
          /\ UNCHANGED <<rtcVars, elfVars, enrollVars, shellVars, entryVars, listVars>>
       \/ /\ part = "enroll" /\ EnrollNext
          /\ UNCHANGED <<rtcVars, elfVars, screenVars, shellVars, entryVars, listVars>>
       \/ /\ part = "shell" /\ ShellNext
          /\ UNCHANGED <<rtcVars, elfVars, screenVars, enrollVars, entryVars, listVars>>
       \/ /\ part = "entry" /\ EntryNext
          /\ UNCHANGED <<rtcVars, elfVars, screenVars, enrollVars, shellVars, listVars>>
       \/ /\ part = "list" /\ ListNext
          /\ UNCHANGED <<rtcVars, elfVars, screenVars, enrollVars, shellVars, entryVars>>

vars == <<part, rtcVars, elfVars, screenVars, enrollVars, shellVars, entryVars, listVars>>

Spec == Init /\ [][Next]_vars
=============================================================================
