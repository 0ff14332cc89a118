------------------------------- MODULE Kernel --------------------------------
(***************************************************************************)
(* The running kernel on its one processor: kmain, the idle thread, user   *)
(* threads and the system calls that change thread or process state, the   *)
(* console's blocking read, and the keyboard and timer interrupts.         *)
(*                                                                         *)
(* System calls run with interrupts masked (SFMASK and cli), so one is a   *)
(* step up to its return or its next kernel_yield.  kmain runs with        *)
(* interrupts on (clear_screen ends in sti), so its calls of execute_elf,  *)
(* sys_waitpid and kusleep are split wherever an interrupt handler could   *)
(* see the difference.                                                     *)
(*                                                                         *)
(* pc[t] is where thread t goes on when it runs next; in_irq[t] says that  *)
(* it was interrupted by a key and is still inside the handler.            *)
(***************************************************************************)
EXTENDS Scheduler, Sequences

CONSTANTS
    Keys,               \* the characters one keyboard event appends
    KDB_BUFFER_SIZE,
    SLEEP_MS,           \* kmain's kusleep(100)
    SLEEPS,             \* how often kmain calls it: 3
    MaxVruntime         \* bound: ticks charged to one thread

NUL == "nul"
Chars == {"char", NUL}

ASSUME KernelAssumption ==
    /\ Keys \subseteq Seq(Chars)
    /\ KDB_BUFFER_SIZE \in Nat \ {0}
    /\ SLEEP_MS \in Nat /\ SLEEPS \in Nat /\ MaxVruntime \in Nat
    \* Under RR a kusleep with no process but the kernel's returns at once and
    \* leaves its entry behind; the model stops at the first.
    /\ SCH_ALG = "RR" => SLEEPS <= 1

VARIABLES
    pc, in_irq,
    todo,               \* characters the interrupted handler has yet to append
    isr,                \* vector 0x21 in service: LAPIC holds back 0x20 and 0x21
    block_channel,      \* threads whose block_channel is console_read
    console_read_owner,
    kdb_queue,          \* keyboard ring buffer, oldest character first
    is_waiting, wait_target_pid, parent,         \* process_t
    child,              \* sys_waitpid's argument in the thread's frame
    sleeping_queue,     \* delta queue entries, head first
    sleeps              \* kusleep calls kmain has made

waitVars == <<is_waiting, wait_target_pid, parent, child>>
consoleVars == <<block_channel, console_read_owner, kdb_queue>>
irqVars == <<in_irq, todo, isr>>
sleepVars == <<sleeping_queue, sleeps>>
vars == <<schedVars, pc, irqVars, consoleVars, waitVars, sleepVars>>

\* What kernel_yield leaves alone.
yieldUnchanged == <<next_tid, vruntime, proc_cr3>>

Init ==
    /\ SchedInit
    /\ pc = [t \in Tids |-> CASE t = MAIN -> "launch"
                              [] t = IDLE -> "hlt"
                              [] OTHER    -> "user"]
    /\ in_irq = [t \in Tids |-> FALSE]
    /\ todo = [t \in Tids |-> <<>>]
    /\ isr = FALSE
    /\ block_channel = {}
    /\ console_read_owner = NULL
    /\ kdb_queue = <<>>
    /\ is_waiting = [p \in Tids |-> FALSE]
    /\ wait_target_pid = [p \in Tids |-> MAIN]
    /\ parent = [p \in Tids |-> NULL]
    /\ child = [t \in Tids |-> NULL]
    /\ sleeping_queue = <<>>
    /\ sleeps = 0

\* The machine is on, the processor has an address space and no thread has lost
\* its saved stack pointer.
Live == /\ cr3 # NoSpace
        /\ pc[MAIN] \notin {"off", "wild"} /\ pc[IDLE] # "wild"

\* Thread t is on the processor, at label l, and not in an interrupt handler.
At(t, l) ==
    /\ Live
    /\ current_thread = t
    /\ ~in_irq[t]
    /\ pc[t] = l

Goto(t, l) == pc' = [pc EXCEPT ![t] = l]

\* Labels inside a system call: a user thread resumes there with IF clear.
SyscallLabels == {"wait_ret", "read_own", "read_char", "exited"}

Labels == SyscallLabels \cup {"user", "hlt", "idle_yield", "launch", "set_cr3",
    "set_parent", "wait_check", "wait_mark", "wait_block", "wait_yield",
    "kusleep", "sleep_push", "sleep_yield", "off", "wild"}

InterruptsOn ==
    /\ Live
    /\ ~in_irq[current_thread]
    /\ current_thread = MAIN \/ pc[current_thread] \notin SyscallLabels

-----------------------------------------------------------------------------
(* Keyboard and timer interrupts.                                          *)

\* hlt ends when an interrupt is delivered.  One that comes between kernel_yield's
\* return and sti;hlt is taken to end it as well: the idle thread yields once more.
LeaveHlt ==
    pc' = [pc EXCEPT ![IDLE] = IF current_thread = IDLE THEN "idle_yield" ELSE @]

ConsoleWaiters == {t \in Listed : state[t] = "WAITING" /\ t \in block_channel}

\* Faulty variants: nobody is woken; the list is searched from its tail.
FirstWaiter_none == {}

FirstWaiter_oldest == {t \in ConsoleWaiters : \A u \in ConsoleWaiters : t <= u}

\* notify_wait_channel wakes the first waiter in the list, no other.
FirstWaiter == {t \in ConsoleWaiters : \A u \in ConsoleWaiters : u <= t}

\* append_to_input_buffer(c); a full buffer drops c.
append_to_input_buffer(c) ==
    kdb_queue' = IF Len(kdb_queue) < KDB_BUFFER_SIZE
                 THEN Append(kdb_queue, c) ELSE kdb_queue

\* keyboard_handler_c up to its next kernel_yield.
HandleChar(chars) ==
    /\ append_to_input_buffer(Head(chars))
    /\ block_channel' = block_channel \ FirstWaiter
    /\ in_irq' = [in_irq EXCEPT ![current_thread] = TRUE]
    /\ todo' = [todo EXCEPT ![current_thread] = Tail(chars)]
    /\ kernel_yield("keyboard",
            [t \in Tids |-> IF t \in FirstWaiter THEN "READY" ELSE state[t]])
    /\ UNCHANGED <<console_read_owner, yieldUnchanged, waitVars, sleepVars>>

\* A key is pressed (or released: no characters, the handler returns at once
\* and keyboard_interrupt writes the EOI).
KeyboardInterrupt ==
    /\ InterruptsOn
    /\ ~isr
    /\ LeaveHlt
    /\ \E chars \in Keys :
         IF chars = <<>>
         THEN UNCHANGED <<schedVars, irqVars, consoleVars, waitVars, sleepVars>>
         ELSE HandleChar(chars) /\ isr' = TRUE

\* The handler goes on after kernel_yield returned.
KeyboardResume ==
    /\ Live
    /\ in_irq[current_thread]
    /\ todo[current_thread] # <<>>
    /\ HandleChar(todo[current_thread])
    /\ UNCHANGED <<pc, isr>>

\* Faulty variant: no EOI.
KeyboardEOI_missing ==
    /\ Live
    /\ in_irq[current_thread]
    /\ todo[current_thread] = <<>>
    /\ in_irq' = [in_irq EXCEPT ![current_thread] = FALSE]
    /\ UNCHANGED <<schedVars, pc, todo, isr, consoleVars, waitVars, sleepVars>>

\* keyboard_interrupt: EOI and iretq.
KeyboardEOI ==
    /\ Live
    /\ in_irq[current_thread]
    /\ todo[current_thread] = <<>>
    /\ isr' = FALSE
    /\ in_irq' = [in_irq EXCEPT ![current_thread] = FALSE]
    /\ UNCHANGED <<schedVars, pc, todo, consoleVars, waitVars, sleepVars>>

\* Only system calls and handlers call kernel_yield with interrupts off.  A key
\* pressed while idle_loop or kmain is inside schedule(), past the store of k_rsp,
\* runs schedule() again for the same thread: k_rsp then names a frame that is
\* popped before it is used.  What happens afterwards is not modelled.
KeyInsideSchedule ==
    /\ InterruptsOn
    /\ ~isr
    /\ Keys \ {<<>>} # {}
    /\ pc[current_thread] \in {"idle_yield", "wait_yield", "sleep_yield"}
    /\ Goto(current_thread, "wild")
    /\ UNCHANGED <<schedVars, irqVars, consoleVars, waitVars, sleepVars>>

update_curr_thread ==
    /\ vruntime[current_thread] < MaxVruntime
    /\ vruntime' = [vruntime EXCEPT ![current_thread] = @ + 1]

\* Faulty variant: the entry that expired is not popped.
update_sleeping_queue_no_pop ==
    IF sleeping_queue = <<>> THEN UNCHANGED <<state, sleeping_queue>>
    ELSE LET top == Head(sleeping_queue) IN
         IF top.delta = 0
         THEN /\ state' = [state EXCEPT ![top.tid] = "READY"]
              /\ UNCHANGED sleeping_queue
         ELSE /\ sleeping_queue' = <<[delta |-> top.delta - 1, tid |-> top.tid]>>
                                   \o Tail(sleeping_queue)
              /\ UNCHANGED state

update_sleeping_queue ==
    IF sleeping_queue = <<>> THEN UNCHANGED <<state, sleeping_queue>>
    ELSE LET top == Head(sleeping_queue) IN
         IF top.delta = 0
         THEN /\ state' = [state EXCEPT ![top.tid] = "READY"]
              /\ sleeping_queue' = Tail(sleeping_queue)
         ELSE /\ sleeping_queue' = <<[delta |-> top.delta - 1, tid |-> top.tid]>>
                                   \o Tail(sleeping_queue)
              /\ UNCHANGED state

\* pit_interrupt; its EOI clears whatever is in service.
pit_interrupt ==
    /\ isr' = FALSE
    /\ update_curr_thread
    /\ update_sleeping_queue
    /\ UNCHANGED <<next_tid, current_thread, next_id, stack_top, proc_cr3, cr3,
                   in_irq, todo, consoleVars, waitVars, sleeps>>

TimerInterrupt == InterruptsOn /\ ~isr /\ LeaveHlt /\ pit_interrupt

-----------------------------------------------------------------------------
(* The idle thread.                                                        *)

\* Faulty variant: idle_loop halts again without kernel_yield.
IdleYield_missing ==
    /\ At(IDLE, "idle_yield")
    /\ Goto(IDLE, "hlt")
    /\ UNCHANGED <<schedVars, irqVars, consoleVars, waitVars, sleepVars>>

IdleYield ==
    /\ At(IDLE, "idle_yield")
    /\ Goto(IDLE, "hlt")
    /\ kernel_yield("idle", state)
    /\ UNCHANGED <<yieldUnchanged, irqVars, consoleVars, waitVars, sleepVars>>

-----------------------------------------------------------------------------
(* System calls of a user thread.                                          *)

\* Faulty variant: create_elf_process does not store the page table.
sys_exec_no_cr3(t) ==
    /\ At(t, "user")
    /\ new_elf_process(NoSpace)
    /\ parent' = [parent EXCEPT ![next_tid] = t]
    /\ UNCHANGED <<pc, irqVars, consoleVars, is_waiting, wait_target_pid, child,
                   sleepVars>>

\* SC_EXECVE: sys_exec, with interrupts off until the process is complete.
sys_exec(t) ==
    /\ At(t, "user")
    /\ new_elf_process(next_tid)
    /\ parent' = [parent EXCEPT ![next_tid] = t]
    /\ UNCHANGED <<pc, irqVars, consoleVars, is_waiting, wait_target_pid, child,
                   sleepVars>>

\* Faulty variant: a parent that waits is woken by any of its children.
sys_exit_any_child(t) ==
    LET p == parent[t]
        wake == p # NULL /\ is_waiting[p]
        dead == [state EXCEPT ![t] = "DEAD"]
    IN  /\ At(t, "user")
        /\ Goto(t, "exited")
        /\ is_waiting' = IF wake THEN [is_waiting EXCEPT ![p] = FALSE]
                                 ELSE is_waiting
        /\ kernel_yield("exit", IF wake THEN [dead EXCEPT ![p] = "READY"]
                                        ELSE dead)
        /\ UNCHANGED <<yieldUnchanged, irqVars, consoleVars, wait_target_pid,
                       parent, child, sleepVars>>

\* SC_EXIT.  A second label because the thread spins there if it comes back.
sys_exit(t) ==
    LET p == parent[t]
        wake == p # NULL /\ is_waiting[p] /\ wait_target_pid[p] = t
        dead == [state EXCEPT ![t] = "DEAD"]
    IN  /\ At(t, "user")
        /\ Goto(t, "exited")
        /\ is_waiting' = IF wake THEN [is_waiting EXCEPT ![p] = FALSE]
                                 ELSE is_waiting
        /\ kernel_yield("exit", IF wake THEN [dead EXCEPT ![p] = "READY"]
                                        ELSE dead)
        /\ UNCHANGED <<yieldUnchanged, irqVars, consoleVars, wait_target_pid,
                       parent, child, sleepVars>>

\* Faulty variant: no test for a child that is dead already.
sys_waitpid_no_check(t, c) ==
    /\ At(t, "user")
    /\ is_waiting' = [is_waiting EXCEPT ![t] = TRUE]
    /\ wait_target_pid' = [wait_target_pid EXCEPT ![t] = c]
    /\ child' = [child EXCEPT ![t] = c]
    /\ Goto(t, "wait_ret")
    /\ kernel_yield("waitpid", [state EXCEPT ![t] = "WAITING"])
    /\ UNCHANGED <<yieldUnchanged, irqVars, consoleVars, parent, sleepVars>>

\* SC_WAITID: sys_waitpid(c) in one step, its early return included.
sys_waitpid(t, c) ==
    /\ At(t, "user")
    /\ IF state[c] = "DEAD" THEN UNCHANGED vars
       ELSE /\ is_waiting' = [is_waiting EXCEPT ![t] = TRUE]
            /\ wait_target_pid' = [wait_target_pid EXCEPT ![t] = c]
            /\ child' = [child EXCEPT ![t] = c]
            /\ Goto(t, "wait_ret")
            /\ kernel_yield("waitpid", [state EXCEPT ![t] = "WAITING"])
            /\ UNCHANGED <<yieldUnchanged, irqVars, consoleVars, parent,
                           sleepVars>>

\* sys_waitpid after kernel_yield: it returns child->exit_code.
WaitReturn(t) ==
    /\ At(t, "wait_ret")
    /\ Goto(t, IF t = MAIN THEN "kusleep" ELSE "user")
    /\ UNCHANGED <<schedVars, irqVars, consoleVars, waitVars, sleepVars>>

\* SC_YIELD: int $0x20, the timer's handler.
sys_yield(t) ==
    /\ At(t, "user")
    /\ pit_interrupt
    /\ UNCHANGED pc
-----------------------------------------------------------------------------
(* SC_READ on the console.                                                 *)

BlockOnConsole(t, l) ==
    /\ block_channel' = block_channel \cup {t}
    /\ Goto(t, l)
    /\ kernel_yield("console", [state EXCEPT ![t] = "WAITING"])
    /\ UNCHANGED <<next_tid, vruntime, proc_cr3>>

\* Faulty variant: the reader keeps the console.
ReadChar_keeps_owner(t, owner) ==
    IF kdb_queue = <<>> \/ Head(kdb_queue) = NUL
    THEN /\ kdb_queue' = IF kdb_queue = <<>> THEN <<>> ELSE Tail(kdb_queue)
         /\ console_read_owner' = owner
         /\ BlockOnConsole(t, "read_char")
    ELSE /\ kdb_queue' = Tail(kdb_queue)
         /\ console_read_owner' = owner
         /\ block_channel' = block_channel \ ConsoleWaiters
         /\ state' = [u \in Tids |->
                        IF u \in ConsoleWaiters THEN "READY" ELSE state[u]]
         /\ Goto(t, "user")
         /\ UNCHANGED <<next_tid, vruntime, current_thread, next_id, stack_top,
                        proc_cr3, cr3>>

\* One turn of console_read's second loop.  keyboard_get_char returns 0 for an
\* empty buffer and for a NUL taken out of it; any other character ends the
\* call, which gives up ownership and wakes every thread on the channel.
ReadChar(t, owner) ==
    IF kdb_queue = <<>> \/ Head(kdb_queue) = NUL
    THEN /\ kdb_queue' = IF kdb_queue = <<>> THEN <<>> ELSE Tail(kdb_queue)
         /\ console_read_owner' = owner
         /\ BlockOnConsole(t, "read_char")
    ELSE /\ kdb_queue' = Tail(kdb_queue)
         /\ console_read_owner' = NULL
         /\ block_channel' = block_channel \ ConsoleWaiters
         /\ state' = [u \in Tids |->
                        IF u \in ConsoleWaiters THEN "READY" ELSE state[u]]
         /\ Goto(t, "user")
         /\ UNCHANGED <<next_tid, vruntime, current_thread, next_id, stack_top,
                        proc_cr3, cr3>>

\* console_read from its entry, or from the yield of its first loop.
console_read(t) ==
    /\ At(t, "user") \/ At(t, "read_own")
    /\ IF console_read_owner \notin {NULL, t}
       THEN /\ BlockOnConsole(t, "read_own")
            /\ UNCHANGED <<console_read_owner, kdb_queue>>
       ELSE ReadChar(t, t)
    /\ UNCHANGED <<irqVars, waitVars, sleepVars>>

\* console_read from the yield of its second loop.
ReadResume(t) ==
    /\ At(t, "read_char")
    /\ ReadChar(t, console_read_owner)
    /\ UNCHANGED <<irqVars, waitVars, sleepVars>>

-----------------------------------------------------------------------------
(* kmain, with interrupts on.                                              *)

\* execute_elf("/init.elf") up to push_new_thread, or failing.
Launch ==
    /\ At(MAIN, "launch")
    /\ \/ /\ new_elf_process(NoSpace)
          /\ child' = [child EXCEPT ![MAIN] = next_tid]
          /\ Goto(MAIN, "set_cr3")
       \/ /\ child' = [child EXCEPT ![MAIN] = NULL]
          /\ Goto(MAIN, "wait_check")
          /\ UNCHANGED schedVars
    /\ UNCHANGED <<irqVars, consoleVars, is_waiting, wait_target_pid, parent,
                   sleepVars>>

\* proc->cr3 = pml4_phys
SetCr3 ==
    /\ At(MAIN, "set_cr3")
    /\ proc_cr3' = [proc_cr3 EXCEPT ![child[MAIN]] = child[MAIN]]
    /\ Goto(MAIN, "set_parent")
    /\ UNCHANGED <<next_tid, state, vruntime, current_thread, next_id,
                   stack_top, cr3, irqVars, consoleVars, waitVars, sleepVars>>

\* proc->parent = get_current_process()
SetParent ==
    /\ At(MAIN, "set_parent")
    /\ parent' = [parent EXCEPT ![child[MAIN]] = Proc(current_thread)]
    /\ Goto(MAIN, "wait_check")
    /\ UNCHANGED <<schedVars, irqVars, consoleVars, is_waiting,
                   wait_target_pid, child, sleepVars>>

\* sys_waitpid(pid): the early returns.
WaitCheck ==
    /\ At(MAIN, "wait_check")
    /\ Goto(MAIN, IF child[MAIN] = NULL \/ state[child[MAIN]] = "DEAD"
                  THEN "kusleep" ELSE "wait_mark")
    /\ UNCHANGED <<schedVars, irqVars, consoleVars, waitVars, sleepVars>>

\* is_waiting = true; wait_target_pid = pid
WaitMark ==
    /\ At(MAIN, "wait_mark")
    /\ is_waiting' = [is_waiting EXCEPT ![MAIN] = TRUE]
    /\ wait_target_pid' = [wait_target_pid EXCEPT ![MAIN] = child[MAIN]]
    /\ Goto(MAIN, "wait_block")
    /\ UNCHANGED <<schedVars, irqVars, consoleVars, parent, child, sleepVars>>

\* state = STATE_WAITING
WaitBlock ==
    /\ At(MAIN, "wait_block")
    /\ state' = [state EXCEPT ![MAIN] = "WAITING"]
    /\ Goto(MAIN, "wait_yield")
    /\ UNCHANGED <<next_tid, vruntime, current_thread, next_id, stack_top,
                   proc_cr3, cr3, irqVars, consoleVars, waitVars, sleepVars>>

WaitYield ==
    /\ At(MAIN, "wait_yield")
    /\ Goto(MAIN, "wait_ret")
    /\ kernel_yield("waitpid", state)
    /\ UNCHANGED <<yieldUnchanged, irqVars, consoleVars, waitVars, sleepVars>>

\* kusleep: state = STATE_SLEEPING
SleepMark ==
    /\ At(MAIN, "kusleep")
    /\ sleeps < SLEEPS
    /\ state' = [state EXCEPT ![MAIN] = "SLEEPING"]
    /\ sleeps' = sleeps + 1
    /\ Goto(MAIN, "sleep_push")
    /\ UNCHANGED <<next_tid, vruntime, current_thread, next_id, stack_top,
                   proc_cr3, cr3, irqVars, consoleVars, waitVars,
                   sleeping_queue>>

\* The delta queue entry is pushed at the head.  Only kmain sleeps, so the
\* queue is empty and get_total_delta() is 0.
SleepPush ==
    /\ At(MAIN, "sleep_push")
    /\ sleeping_queue' = <<[delta |-> SLEEP_MS, tid |-> MAIN]>> \o sleeping_queue
    /\ Goto(MAIN, "sleep_yield")
    /\ UNCHANGED <<schedVars, irqVars, consoleVars, waitVars, sleeps>>

SleepYield ==
    /\ At(MAIN, "sleep_yield")
    /\ Goto(MAIN, "kusleep")
    /\ kernel_yield("sleep", state)
    /\ UNCHANGED <<yieldUnchanged, irqVars, consoleVars, waitVars, sleepVars>>

\* reboot()
Reboot ==
    /\ At(MAIN, "kusleep")
    /\ sleeps = SLEEPS
    /\ Goto(MAIN, "off")
    /\ UNCHANGED <<schedVars, irqVars, consoleVars, waitVars, sleepVars>>

-----------------------------------------------------------------------------
kmain ==
    \/ Launch \/ SetCr3 \/ SetParent
    \/ WaitCheck \/ WaitMark \/ WaitBlock \/ WaitYield \/ WaitReturn(MAIN)
    \/ SleepMark \/ SleepPush \/ SleepYield \/ Reboot

UserThreads == Tids \ {MAIN, IDLE}

user(t) ==
    \/ sys_exec(t) \/ sys_exit(t) \/ sys_yield(t)
    \/ \E c \in Listed \ {IDLE} : sys_waitpid(t, c)
    \/ WaitReturn(t)
    \/ console_read(t) \/ ReadResume(t)

Next ==
    \/ KeyboardInterrupt \/ KeyboardResume \/ KeyboardEOI \/ KeyInsideSchedule
    \/ TimerInterrupt
    \/ IdleYield
    \/ kmain
    \/ \E t \in UserThreads : user(t)

Spec == Init /\ [][Next]_vars

\* The processor goes on executing the kernel code it is in.  Keys come slowly
\* enough for the interrupted code to make a step between two of them, and a
\* tick that is held back while interrupts are off is delivered later: hence
\* strong fairness where interrupts are on, and for the timer.  User programs
\* may compute for ever.
Fairness ==
    /\ WF_vars(KeyboardResume) /\ WF_vars(KeyboardEOI)
    /\ SF_vars(IdleYield) /\ SF_vars(kmain) /\ SF_vars(TimerInterrupt)
    /\ \A t \in UserThreads :
         /\ WF_vars(WaitReturn(t)) /\ WF_vars(ReadResume(t))
         /\ WF_vars(pc[t] = "read_own" /\ console_read(t))

FairSpec == Spec /\ Fairness

-----------------------------------------------------------------------------
(* Properties.                                                             *)

\* Types of all the variables.
TypeOK ==
    /\ next_tid \in 2 .. MaxThreads
    /\ state \in [Tids -> States]
    /\ vruntime \in [Tids -> 0 .. MaxVruntime]
    /\ current_thread \in Listed
    /\ next_id \in 0 .. MaxThreads
    /\ stack_top \in Tids
    /\ proc_cr3 \in [Tids -> Tids \cup {NoSpace}]
    /\ cr3 \in Tids \cup {NoSpace}
    /\ pc \in [Tids -> Labels]
    /\ in_irq \in [Tids -> BOOLEAN]
    /\ todo \in [Tids -> Seq(Chars)]
    /\ isr \in BOOLEAN
    /\ block_channel \subseteq Tids
    /\ console_read_owner \in Tids \cup {NULL}
    /\ kdb_queue \in Seq(Chars) /\ Len(kdb_queue) <= KDB_BUFFER_SIZE
    /\ is_waiting \in [Tids -> BOOLEAN]
    /\ wait_target_pid \in [Tids -> Tids]
    /\ parent \in [Tids -> Tids \cup {NULL}]
    /\ child \in [Tids -> Tids \cup {NULL}]
    /\ sleeping_queue \in Seq([delta : 0 .. SLEEP_MS, tid : {MAIN}])
    /\ sleeps \in 0 .. SLEEPS

\* schedule() never leaves two threads RUNNING: a RUNNING thread is the one on
\* the processor, whoever called kernel_yield and with whatever in %rsi.
OnlyCurrentRuns == \A t \in Tids : state[t] = "RUNNING" => t = current_thread

\* The idle thread is READY whenever another thread runs, so get_next_thread_cfs
\* returns NULL only to the idle thread: find_idle_thread and the test for a
\* list of two are never reached under CFS.
IdleRunnable == state[IDLE] = IF current_thread = IDLE THEN "RUNNING" ELSE "READY"

\* TSS.rsp0 and cr3, written in schedule() only when it switches, always belong
\* to the thread on the processor.
ContextFollowsThread ==
    /\ stack_top = current_thread
    /\ cr3 = proc_cr3[Proc(current_thread)]

\* What schedule() keeps true over every switch, from whichever caller: one RUNNING
\* thread, an idle thread to fall back on, and the stack and the address space of
\* the thread on the processor.
SchedOK == OnlyCurrentRuns /\ IdleRunnable /\ ContextFollowsThread

\* console_read_owner is a thread inside console_read's second loop, and no
\* other thread is there: exactly one thread takes characters out of the buffer.
ConsoleOwnerInside ==
    \A t \in Tids : pc[t] = "read_char" <=> console_read_owner = t

\* A thread that may be chosen by get_next_thread has an address space, except
\* while kmain is between push_new_thread and proc->cr3 = pml4_phys (elf.c).
ReadyHasSpace ==
    \A t \in Tids : state[t] = "READY" /\ proc_cr3[Proc(t)] = NoSpace
                        => t = child[MAIN] /\ pc[MAIN] = "set_cr3"

\* A process asleep in sys_waitpid for a child of its own is recorded as its
\* waiter and the child is still alive: sys_exit cannot miss it.  kmain's call,
\* which runs with interrupts on, is the exception.
NoLostWakeup ==
    \A p \in UserThreads :
        pc[p] = "wait_ret" /\ state[p] = "WAITING" /\ parent[child[p]] = p
            => /\ is_waiting[p] /\ wait_target_pid[p] = child[p]
               /\ state[child[p]] # "DEAD"

\* kmain is SLEEPING exactly while it has an entry in the delta queue, but for
\* the window in kusleep before list_push: update_sleeping_queue, which does
\* not look at the state, only ever wakes a sleeper.
SleepingQueueExact ==
    (sleeping_queue # <<>>) <=>
        (state[MAIN] = "SLEEPING" /\ pc[MAIN] # "sleep_push")

\* While the LAPIC has the keyboard in service, some suspended handler will
\* write the EOI, and its thread can be scheduled; only kmain can be suspended
\* there while WAITING or SLEEPING.
EoiOwnerCanRun ==
    isr => \E t \in Tids :
             /\ in_irq[t]
             /\ \/ state[t] \in {"READY", "RUNNING"}
                \/ t = MAIN /\ pc[t] \in {"wait_yield", "sleep_push", "sleep_yield"}

\* The states the kernel does not leave: kmain rebooted; a key was pressed inside
\* the schedule() of kmain or of the idle thread; a keyboard interrupt
\* let a half-built process run; an exited thread spins with interrupts off;
\* the idle thread has halted while the EOI that would let an interrupt in is
\* owed by another thread.
Stuck ==
    \/ pc[MAIN] = "off" \/ "wild" \in {pc[MAIN], pc[IDLE]}
    \/ cr3 = NoSpace /\ in_irq[MAIN] /\ pc[MAIN] = "set_cr3"
    \/ pc[current_thread] = "exited" /\ "exit" \in StaleFrom
    \/ /\ current_thread = IDLE /\ pc[IDLE] = "hlt" /\ isr
       /\ ~in_irq[IDLE] /\ \E t \in Tids : in_irq[t]

\* The kernel comes to a stop in those five ways only, whatever the order of
\* keys, ticks and system calls.
StopsOnlyWhere == ~ ENABLED Next => Stuck

\* With keys that yield no NUL and one reader: a character in the buffer is
\* taken by the thread that owns the console, unless the kernel stops first.
KeyReachesReader ==
    \A t \in UserThreads :
        (console_read_owner = t /\ kdb_queue # <<>>)
            ~> (console_read_owner # t \/ Stuck)

\* The idle thread, which CFS may prefer to a READY thread of higher vruntime,
\* gives the processor up once an interrupt has ended its hlt, unless the kernel
\* stops first.
IdleGivesWay ==
    (/\ current_thread = IDLE /\ pc[IDLE] = "idle_yield"
     /\ \E t \in Tids \ {IDLE} : state[t] = "READY")
        ~> (current_thread # IDLE \/ Stuck)

\* Under RR the processor is given to the idle thread only when no other thread
\* is READY (CFS has no such rule: it compares vruntimes, idle's included).
IdleOnlyWithoutWork ==
    [][current_thread # IDLE /\ current_thread' = IDLE =>
         \A t \in Tids \ {IDLE, current_thread} : state'[t] # "READY"]_vars

\* With keys that yield no NUL: the owner of the console sleeps over a
\* character only if notify_wait_channel woke another, newer, reader instead.
OwnerMissesKeyOnlyWithRival ==
    \A t \in Tids :
        console_read_owner = t /\ state[t] = "WAITING" /\ kdb_queue # <<>>
            => \E r \in Tids : r > t /\ pc[r] = "read_own"

\* sys_waitpid prints "T%d goes to sleep while T%d is running".
SleepsWhileChildRuns ==
    pc[MAIN] = "wait_yield" /\ state[MAIN] = "WAITING"
        => state[child[MAIN]] # "DEAD"

\* The system calls implement ProcessLife: dead processes stay dead and
\* sys_waitpid returns only for a dead process.
Life == INSTANCE ProcessLife WITH
    Procs <- Tids,
    Nobody <- NULL,
    life <- [t \in Tids |-> CASE state[t] = "NEW"  -> "absent"
                              [] state[t] = "DEAD" -> "dead"
                              [] OTHER             -> "alive"],
    waits <- [t \in Tids |-> IF pc[t] = "wait_ret" THEN child[t] ELSE NULL]

ImplementsProcessLife == Life!Spec
=============================================================================
