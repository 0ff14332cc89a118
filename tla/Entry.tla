------------------------------- MODULE Entry --------------------------------
(***************************************************************************)
(* How the processor gets into the kernel and out of it: the assembly of   *)
(* syscall.asm, the entries of interrupt.asm and kernel_yield of           *)
(* scheduler.asm, at the level of the stack pointer, of the two GS base    *)
(* registers and of the instructions between sti and sysret.  What the     *)
(* handlers do, and whom schedule() picks, is in Kernel; here schedule()   *)
(* may return the frame of any thread, and a key may come whenever         *)
(* interrupts are on.                                                      *)
(*                                                                         *)
(* A thread is the level that runs, entered from the one under it.  GS     *)
(* base is one register per processor and no switch saves it, so that a    *)
(* swapgs on the way in may meet the one on the way out of another thread. *)
(***************************************************************************)
EXTENDS Naturals

CONSTANTS Users,            \* threads of user processes, each with its own cr3
          MAIN, IDLE,       \* kernel threads
          FRAME,            \* words an entry, or kernel_yield, pushes
          CALL,             \* words of the C functions it calls
          STACK,            \* words of the smallest kernel stack, idle_loop's page
          MaxTurns          \* bound: yields of one level

VARIABLES gs, kernel_gs,    \* MSR_GS_BASE, MSR_KERNEL_GS_BASE
          current,
          level,            \* per thread, the innermost
          wild              \* "frame": one was popped from another thread's memory;
                            \* "stack": one was pushed below the stack; else "no"

entryVars == <<gs, kernel_gs, current, level, wild>>

Threads == Users \cup {MAIN, IDLE}

CPU_DATA == "cpu_data"

\* A key yields twice at most: behind a command and behind the table's character.
KEY_YIELDS == 2

\* An entry and one more on top of it fit, and so do the words a key loses.
ASSUME EntryAssumption ==
    /\ FRAME \in Nat /\ CALL \in Nat /\ STACK \in Nat /\ MaxTurns \in Nat
    /\ STACK > 2 * (FRAME + CALL) + KEY_YIELDS
    /\ MAIN # IDLE /\ MAIN \notin Users /\ IDLE \notin Users

Nothing == [kind |-> "none"]

\* turns: the yields since its C functions began; used: words from the stack's top.
Level(kind, stack, used, under) ==
    [kind |-> kind, turns |-> 0, stack |-> stack, used |-> used, under |-> under]

init_syscall_gs == [gs |-> CPU_DATA, kernel_gs |-> CPU_DATA]

\* kmain runs; every other thread has the frame it was created with.
EntryInit ==
    /\ gs = init_syscall_gs.gs
    /\ kernel_gs = init_syscall_gs.kernel_gs
    /\ current = MAIN
    /\ level = [t \in Threads |-> Level(IF t = MAIN THEN "C" ELSE "new",
                                       IF t \in Users THEN "user" ELSE "kernel", 0, Nothing)]
    /\ wild = "no"

swapgs(condition) ==
    /\ gs' = IF condition THEN kernel_gs ELSE gs
    /\ kernel_gs' = IF condition THEN gs ELSE kernel_gs

Running == level[current]

Becomes(l) == level' = [level EXCEPT ![current] = l]

\* Faulty variant: the vectors are trap gates, and only pit_interrupt has a cli.
InterruptsOn_trap_gates == Running.kind \in {"user", "sti", "C", "keyboard", "fault"}

\* The vectors are interrupt gates and SYSCALL clears the flag: interrupts are off
\* behind every entry, until iretq, sysret or sti.
InterruptsOn == Running.kind \in {"user", "sti", "C"}

\* One more frame, with what it calls, on a stack.  A user stack has no known end.
Fits(stack, used) == stack = "kernel" => used + FRAME + CALL <= STACK

-----------------------------------------------------------------------------
(* Entries and exits. *)

\* A level is entered: its frame goes to the stack the processor takes, the one
\* in TSS.rsp0 or cpu_data's stack_top when it comes from user mode.
Enter(kind) ==
    LET stack == IF Running.kind = "user" THEN "kernel" ELSE Running.stack
        used == IF Running.kind = "user" THEN 0 ELSE Running.used
    IN  /\ IF Fits(stack, used)
           THEN Becomes(Level(kind, stack, used + FRAME + CALL, Running)) /\ wild' = "no"
           ELSE UNCHANGED level /\ wild' = "stack"
        /\ UNCHANGED current

\* The C functions leave and the frame is popped from where it was pushed: at
\* -O0 their leave takes back what kernel_yield lost.
Leave(kind) ==
    /\ Running.kind = kind
    /\ Becomes(Running.under)
    /\ UNCHANGED <<current, wild>>

syscall_entry_asm ==
    /\ Running.kind = "user"
    /\ Enter("syscall")
    /\ swapgs(TRUE)

\* From mov rsp, rbp to swapgs: sti takes effect behind swapgs, before sysret.
SyscallExit ==
    /\ Running.kind = "syscall"
    /\ Becomes(Level("sti", "user", 0, Running.under))
    /\ swapgs(TRUE)
    /\ UNCHANGED <<current, wild>>

sysret ==
    /\ Leave("sti")
    /\ UNCHANGED <<gs, kernel_gs>>

\* The timer, or SC_YIELD's int $0x20.  pit_interrupt swaps when the frame's cs is the
\* user's, in and out.
pit_interrupt ==
    /\ InterruptsOn \/ Running.kind = "syscall"
    /\ Enter("pit")
    /\ swapgs(Running.kind = "user")

pit_interrupt_exit ==
    /\ Leave("pit")
    /\ swapgs(Running.under.kind = "user")

keyboard_interrupt ==
    /\ InterruptsOn
    /\ Enter("keyboard")
    /\ UNCHANGED <<gs, kernel_gs>>

KeyboardExit ==
    /\ Leave("keyboard")
    /\ UNCHANGED <<gs, kernel_gs>>

\* A fault of user mode, which page_fault_handler_c repairs; any other is the end.
pagefault_interrupt ==
    /\ Running.kind = "user"
    /\ Enter("fault")
    /\ UNCHANGED <<gs, kernel_gs>>

PageFaultExit ==
    /\ Leave("fault")
    /\ UNCHANGED <<gs, kernel_gs>>

-----------------------------------------------------------------------------
(* Switches. *)

\* A function that yielded returns to its caller, in kmain or in a system call;
\* idle_loop never does, keyboard_handler_c to its exit.
Return ==
    /\ current # IDLE
    /\ Running.kind \in {"C", "syscall"} /\ Running.turns > 0
    /\ Becomes([Running EXCEPT !.turns = 0, !.used = @ - Running.turns])
    /\ UNCHANGED <<gs, kernel_gs, current, wild>>

\* The frame kernel_yield makes holds the rsp at which the return address lies,
\* not the one above it: each turn loses a word.
Turned(l) == [l EXCEPT !.turns = @ + 1, !.used = @ + 1]

\* The first frame of a thread takes it to user mode, or to its C function.
Started(t) == [level[t] EXCEPT !.kind = IF t \in Users THEN "user" ELSE "C"]

\* schedule() runs on the caller's stack; once it has loaded another cr3, a stack in
\* user memory is another's.
kernel_yield(next) ==
    LET starts == level[next].kind = "new"
    IN  /\ Running.kind \in {"syscall", "keyboard", "C"}
        /\ Running.turns < IF Running.kind = "keyboard" THEN KEY_YIELDS ELSE MaxTurns
        /\ wild' = IF ~Fits(Running.stack, Running.used) THEN "stack"
                   ELSE IF Running.stack = "user" /\ next # current THEN "frame" ELSE "no"
        /\ IF wild' = "no"
           THEN /\ current' = next
                /\ level' = [level EXCEPT ![current] = Turned(@),
                                          ![next] = IF starts THEN Started(next) ELSE @]
                /\ swapgs(starts /\ next \in Users)
           ELSE UNCHANGED <<gs, kernel_gs, current, level>>

EntryNext ==
    /\ wild = "no"
    /\ \/ syscall_entry_asm \/ SyscallExit \/ sysret
       \/ pit_interrupt \/ pit_interrupt_exit
       \/ keyboard_interrupt \/ KeyboardExit
       \/ pagefault_interrupt \/ PageFaultExit
       \/ Return
       \/ \E next \in Threads : kernel_yield(next)

EntrySpec == EntryInit /\ [][EntryNext]_entryVars

-----------------------------------------------------------------------------

\* A loop of yields that has lost what a stack can spare.
LostTooMuch(l) ==
    l.kind \in {"C", "syscall"} /\ l.turns + 2 * (FRAME + CALL) + KEY_YIELDS > STACK

\* Whatever the threads are in the middle of, the next system call finds cpu_data
\* behind its swapgs (syscall.asm:13-15), although keyboard_interrupt and
\* pagefault_interrupt have no swapgs and switches pair one thread's with another's.
\* Entries alone never run a kernel stack out, although SC_YIELD's int $0x20
\* (syscall.c:232) enters inside a system call: only a single loop of yields does, by
\* the word that each of its turns loses (scheduler.asm:72), after as many turns as
\* two entries and a key leave words: idle_loop in the end (mt.c:16-26), or one that
\* never returns to its caller.  A frame is popped from foreign memory only if a key
\* came between sti and sysret (syscall.asm:72-74).
EntrySound ==
    /\ Running.kind = "user" => kernel_gs = CPU_DATA
    /\ wild = "stack" => LostTooMuch(Running) \/ LostTooMuch(Running.under)
    /\ wild = "frame" => Running.kind = "keyboard" /\ Running.under.kind = "sti"
=============================================================================
