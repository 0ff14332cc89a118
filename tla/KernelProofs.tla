---------------------------- MODULE KernelProofs ----------------------------
(***************************************************************************)
(* What is proved of Kernel, for any number of threads, any keys and buffer *)
(* size, and both scheduling algorithms: the invariants about the devices  *)
(* (the delta queue of the timer, the keyboard interrupt in service, the   *)
(* console's input) on top of the one of KernelInv, and the theorems.      *)
(***************************************************************************)
EXTENDS KernelSyscallProofs, TLAPS

-----------------------------------------------------------------------------
(* Which thread states each action hands to kernel_yield.                  *)

\* The step ends in a kernel_yield called with the thread states st.
YieldsWith(st) ==
    /\ st \in [Tids -> States] /\ st[IDLE] = state[IDLE]
    /\ \A t \in Tids : st[t] = "RUNNING" => state[t] = "RUNNING"
    /\ \E site \in Sites : kernel_yield(site, st)
    /\ UNCHANGED yieldUnchanged

Runnable == {"READY", "RUNNING"}

\* kernel_yield moves threads between READY and RUNNING only.
LEMMA YieldsFacts ==
    ASSUME IInv, NEW st, YieldsWith(st)
    PROVE  /\ \A t \in Tids : IF st[t] \in Runnable THEN state'[t] \in Runnable
                                                    ELSE state'[t] = st[t]
           /\ \/ state'[current_thread'] = "RUNNING"
              \/ current_thread' = current_thread
                 /\ state'[current_thread] = st[current_thread]
           /\ Listed' = Listed
<1>1. PICK site \in Sites : kernel_yield(site, st)
  BY DEF YieldsWith
<1> QED BY <1>1, YieldStep DEF YieldsWith, Runnable

\* A step that may wake the first reader, from the keyboard's handler.
Notified == [t \in Tids |-> IF t \in FirstWaiter THEN "READY" ELSE state[t]]

\* notify_wait_channel wakes a reader blocked in console_read.
LEMMA WaiterFacts ==
    ASSUME IInv, NEW t \in ConsoleWaiters
    PROVE  /\ t \in UserThreads /\ t \in Tids /\ t \in Listed /\ t \in block_channel
           /\ state[t] = "WAITING" /\ pc[t] \in {"read_own", "read_char"}
BY Groups, TidFacts DEF ConsoleOK, ChannelOK, ConsoleWaiters

\* keyboard_handler_c yields after it has woken the first reader.
LEMMA HandleCharYields ==
    ASSUME IInv, NEW chars, HandleChar(chars)
    PROVE  YieldsWith(Notified)
<1>1. state \in [Tids -> States] /\ IDLE \notin FirstWaiter
  BY WaiterFacts, TidFacts, Groups DEF SchedTypes, FirstWaiter
<1>2. kernel_yield("keyboard", Notified) /\ UNCHANGED yieldUnchanged
  BY DEF HandleChar, Notified
<1>3. /\ Notified \in [Tids -> States] /\ Notified[IDLE] = state[IDLE]
      /\ \A t \in Tids : Notified[t] = "RUNNING" => state[t] = "RUNNING"
  BY <1>1, TidFacts DEF Notified, States
<1> QED BY <1>2, <1>3 DEF YieldsWith, Sites

\* A thread that calls kernel_yield in the state it has.
LEMMA PlainYields ==
    ASSUME IInv, NEW site \in Sites, kernel_yield(site, state), UNCHANGED yieldUnchanged
    PROVE  YieldsWith(state)
BY Groups DEF SchedTypes, YieldsWith

\* A user thread that blocks.
LEMMA BlockYields ==
    ASSUME IInv, NEW t \in UserThreads, NEW site \in Sites,
           kernel_yield(site, [state EXCEPT ![t] = "WAITING"]), UNCHANGED yieldUnchanged
    PROVE  YieldsWith([state EXCEPT ![t] = "WAITING"])
<1>1. state \in [Tids -> States] /\ t \in Tids /\ t # IDLE
  BY Groups, TidFacts DEF SchedTypes
<1>2. /\ [state EXCEPT ![t] = "WAITING"] \in [Tids -> States]
      /\ [state EXCEPT ![t] = "WAITING"][IDLE] = state[IDLE]
      /\ \A u \in Tids : [state EXCEPT ![t] = "WAITING"][u] = "RUNNING" => state[u] = "RUNNING"
  BY <1>1 DEF States
<1> QED BY <1>2 DEF YieldsWith

\* The thread states sys_exit yields with.
Exited(t) ==
    LET p == parent[t]
        wake == p # NULL /\ is_waiting[p] /\ wait_target_pid[p] = t
        dead == [state EXCEPT ![t] = "DEAD"]
    IN  IF wake THEN [dead EXCEPT ![p] = "READY"] ELSE dead

\* sys_exit yields dead, having woken at most its parent out of sys_waitpid.
LEMMA ExitYields ==
    ASSUME IInv, NEW t \in UserThreads, sys_exit(t)
    PROVE  /\ YieldsWith(Exited(t))
           /\ \A u \in Tids :
                \/ u = t /\ Exited(t)[u] \in {"DEAD", "READY"}
                \/ Exited(t)[u] = state[u]
                \/ /\ Exited(t)[u] = "READY"
                   /\ u \in UserThreads /\ pc[u] = "wait_ret"
                \/ /\ Exited(t)[u] = "READY"
                   /\ u = MAIN /\ pc[u] \in {"wait_block", "wait_yield", "wait_ret"}
<1> DEFINE p == parent[t]
           wake == p # NULL /\ is_waiting[p] /\ wait_target_pid[p] = t
           dead == [state EXCEPT ![t] = "DEAD"]
<1>1. /\ state \in [Tids -> States] /\ t \in Tids /\ t # IDLE /\ IDLE \in Tids
      /\ p \in Tids \cup {NULL} /\ p # IDLE
  BY Groups, TidFacts DEF SchedTypes, ProcTypes, WaitOK, ParentOK
<1>2. Live /\ kernel_yield("exit", Exited(t)) /\ UNCHANGED yieldUnchanged
  BY DEF sys_exit, Exited, At
<1>3. wake => \/ p \in UserThreads /\ pc[p] = "wait_ret"
              \/ p = MAIN /\ pc[p] \in {"wait_block", "wait_yield", "wait_ret"}
  BY <1>1, <1>2, Groups DEF WaitOK, WaiterMarked, Live
<1>4. \A u \in Tids : Exited(t)[u] = IF wake /\ u = p THEN "READY"
                                     ELSE IF u = t THEN "DEAD" ELSE state[u]
  BY <1>1 DEF Exited
<1>5. Exited(t) \in [Tids -> States]
  BY <1>1 DEF Exited, States
<1>6. YieldsWith(Exited(t))
  <2> HIDE DEF p, wake
  <2> QED BY <1>1, <1>2, <1>4, <1>5 DEF YieldsWith, Sites
<1> QED BY <1>3, <1>4, <1>6

\* What the proofs below use of the types.
LEMMA Frames ==
    ASSUME IInv
    PROVE  /\ MAIN # IDLE /\ MAIN \in Tids /\ IDLE \in Tids /\ current_thread \in Tids
           /\ \A t \in UserThreads : t \in Tids /\ t # IDLE /\ t # MAIN
           /\ pc \in [Tids -> Labels] /\ state \in [Tids -> States]
           /\ in_irq \in [Tids -> BOOLEAN] /\ sleeps \in 0 .. SLEEPS
<1>1. in_irq \in [Tids -> BOOLEAN] /\ sleeps \in 0 .. SLEEPS
  BY DEF IInv, TypeOK
<1> QED BY <1>1, Groups, TidFacts, ListedFacts DEF ProcTypes, SchedTypes

\* The timer wakes kmain, if anyone.
LEMMA PitWakes ==
    ASSUME IInv, pit_interrupt
    PROVE  \A t \in Tids : state'[t] = state[t] \/ (t = MAIN /\ state'[t] = "READY")
<1>1. UNCHANGED state \/ state' = [state EXCEPT ![MAIN] = "READY"]
  BY SleepingQueueFacts DEF pit_interrupt
<1>2. CASE UNCHANGED state
  BY <1>2
<1>3. CASE state' = [state EXCEPT ![MAIN] = "READY"]
  BY <1>3, Frames
<1> QED BY <1>1, <1>2, <1>3

-----------------------------------------------------------------------------
(* What the steps outside the interrupt handlers change.                   *)

ReadLabels == {"read_own", "read_char"}

\* A step of thread t that leaves the devices alone, blocks no other thread, and
\* wakes kmain from sys_waitpid only.
QuietFor(t) ==
    /\ UNCHANGED <<irqVars, sleepVars>>
    /\ \E l : Goto(t, l)
    /\ \A u \in Tids \ {t} : state'[u] = state[u] \/ state'[u] \in Runnable
    /\ state[MAIN] = "SLEEPING" =>
          state'[MAIN] = "SLEEPING" \/ pc[MAIN] \in {"wait_block", "wait_yield", "wait_ret"}
    /\ state'[MAIN] = "RUNNING" \/ current_thread' # MAIN

\* A call of kernel_yield by thread t, which has changed no other thread but to wake it.
LEMMA YieldQuiet ==
    ASSUME IInv, NEW t \in Tids \ {MAIN}, current_thread = t, NEW st, YieldsWith(st),
           \A u \in Tids \ {t} : st[u] = state[u] \/ st[u] \in Runnable,
           st[MAIN] = state[MAIN] \/ pc[MAIN] \in {"wait_block", "wait_yield", "wait_ret"},
           UNCHANGED <<irqVars, sleepVars>>, NEW l, Goto(t, l)
    PROVE  QuietFor(t)
<1>1. \A u \in Tids : IF st[u] \in Runnable THEN state'[u] \in Runnable ELSE state'[u] = st[u]
  BY YieldsFacts
<1>2. state'[current_thread'] = "RUNNING" \/ current_thread' = current_thread
  BY YieldsFacts
<1>3. \A u \in Tids \ {t} : state'[u] = state[u] \/ state'[u] \in Runnable
  BY <1>1
<1>4. state[MAIN] = "SLEEPING" =>
        state'[MAIN] = "SLEEPING" \/ pc[MAIN] \in {"wait_block", "wait_yield", "wait_ret"}
  BY <1>1, TidFacts DEF Runnable
<1> QED BY <1>2, <1>3, <1>4 DEF QuietFor

\* A step of thread t that calls nobody.
LEMMA LocalQuiet ==
    ASSUME IInv, NEW t \in Tids \ {MAIN}, current_thread = t, UNCHANGED current_thread,
           UNCHANGED <<irqVars, sleepVars>>, NEW l, Goto(t, l),
           \A u \in Tids \ {t} : state'[u] = state[u] \/ state'[u] \in Runnable,
           state'[MAIN] = state[MAIN]
    PROVE  QuietFor(t)
BY DEF QuietFor

\* A thread blocks.
LEMMA BlockQuiet ==
    ASSUME IInv, NEW t \in UserThreads, current_thread = t, NEW site \in Sites,
           kernel_yield(site, [state EXCEPT ![t] = "WAITING"]), UNCHANGED yieldUnchanged,
           UNCHANGED <<irqVars, sleepVars>>, NEW l, Goto(t, l)
    PROVE  QuietFor(t)
<1> DEFINE blocked == [state EXCEPT ![t] = "WAITING"]
<1>1. t \in Tids /\ t # MAIN /\ MAIN \in Tids /\ \A u \in Tids \ {t} : blocked[u] = state[u]
  BY Frames
<1>2. YieldsWith(blocked)
  BY BlockYields
<1> HIDE DEF blocked
<1> QED BY <1>1, <1>2, YieldQuiet

\* One turn of console_read's second loop.
LEMMA ReadQuiet ==
    ASSUME IInv, NEW t \in UserThreads, current_thread = t, NEW owner, ReadChar(t, owner),
           UNCHANGED <<irqVars, sleepVars>>
    PROVE  QuietFor(t)
<1>1. CASE kdb_queue = <<>> \/ Head(kdb_queue) = NUL
  <2>1. BlockOnConsole(t, "read_char")
    BY <1>1 DEF ReadChar
  <2> QED BY <2>1, BlockQuiet DEF BlockOnConsole, yieldUnchanged, Sites
<1>2. CASE ~(kdb_queue = <<>> \/ Head(kdb_queue) = NUL)
  <2>1. /\ state' = [u \in Tids |-> IF u \in ConsoleWaiters THEN "READY" ELSE state[u]]
        /\ Goto(t, "user") /\ UNCHANGED current_thread
    BY <1>2 DEF ReadChar
  <2>2. MAIN \notin ConsoleWaiters
    BY WaiterFacts, TidFacts
  <2> QED BY <2>1, <2>2, Frames, LocalQuiet DEF Runnable
<1> QED BY <1>1, <1>2

\* A system call, other than SC_YIELD, leaves the devices alone.
LEMMA UserQuiet ==
    ASSUME IInv, NEW t \in UserThreads, user(t)
    PROVE  /\ current_thread = t /\ ~in_irq[t]
           /\ QuietFor(t) \/ sys_yield(t)
<1>0. /\ MAIN \in Tids /\ t \in Tids /\ t # MAIN
      /\ pc \in [Tids -> Labels] /\ state \in [Tids -> States]
  BY Frames
<1>1. current_thread = t /\ ~in_irq[t]
  BY DEF user, sys_exec, sys_exit, sys_yield, sys_waitpid, WaitReturn, console_read,
         ReadResume, At
<1>2. CASE sys_exec(t)
  <2>1. /\ UNCHANGED <<pc, irqVars, sleepVars, current_thread>> /\ next_tid # MAIN
        /\ state' = [state EXCEPT ![next_tid] = "READY"]
    BY <1>2, Groups DEF sys_exec, new_elf_process, SchedTypes, MAIN
  <2>2. Goto(t, pc[t])
    BY <1>0, <2>1 DEF Goto
  <2>3. state'[MAIN] = state[MAIN] /\ \A u \in Tids : state'[u] = state[u] \/ state'[u] \in Runnable
    BY <1>0, <2>1 DEF Runnable
  <2> QED BY <1>0, <1>1, <2>1, <2>2, <2>3, LocalQuiet
<1>3. CASE sys_exit(t)
  <2>1. UNCHANGED <<irqVars, sleepVars>> /\ Goto(t, "exited")
    BY <1>3 DEF sys_exit
  <2>2. \A u \in Tids \ {t} : Exited(t)[u] = state[u] \/ Exited(t)[u] \in Runnable
    BY <1>3, ExitYields DEF Runnable
  <2>3. \/ Exited(t)[MAIN] = state[MAIN]
        \/ pc[MAIN] \in {"wait_block", "wait_yield", "wait_ret"}
    BY <1>0, <1>3, ExitYields
  <2>4. YieldsWith(Exited(t))
    BY <1>3, ExitYields
  <2> QED BY <1>0, <1>1, <2>1, <2>2, <2>3, <2>4, YieldQuiet
<1>4. CASE \E c \in Listed \ {IDLE} : sys_waitpid(t, c)
  <2>1. CASE UNCHANGED vars
    <3>1. Goto(t, pc[t])
      BY <1>0, <2>1 DEF Goto, vars
    <3> QED BY <1>0, <1>1, <2>1, <3>1, LocalQuiet DEF vars, schedVars
  <2>2. CASE ~UNCHANGED vars
    <3>1. /\ kernel_yield("waitpid", [state EXCEPT ![t] = "WAITING"]) /\ Goto(t, "wait_ret")
          /\ UNCHANGED <<yieldUnchanged, irqVars, sleepVars>>
      BY <1>4, <2>2 DEF sys_waitpid
    <3> QED BY <1>1, <3>1, BlockQuiet DEF Sites
  <2> QED BY <2>1, <2>2
<1>5. CASE WaitReturn(t)
  <2>1. Goto(t, "user") /\ UNCHANGED <<state, current_thread, irqVars, sleepVars>>
    BY <1>0, <1>5 DEF WaitReturn, schedVars
  <2> QED BY <1>0, <1>1, <2>1, LocalQuiet
<1>6. CASE console_read(t)
  <2>1. UNCHANGED <<irqVars, sleepVars>>
    BY <1>6 DEF console_read
  <2>2. CASE BlockOnConsole(t, "read_own")
    BY <1>1, <2>1, <2>2, BlockQuiet DEF BlockOnConsole, yieldUnchanged, Sites
  <2>3. CASE ReadChar(t, t)
    BY <1>1, <2>1, <2>3, ReadQuiet
  <2> QED BY <1>6, <2>2, <2>3 DEF console_read
<1>7. CASE ReadResume(t)
  BY <1>1, <1>7, ReadQuiet DEF ReadResume
<1> QED BY <1>1, <1>2, <1>3, <1>4, <1>5, <1>6, <1>7 DEF user

\* So does idle_loop.
LEMMA IdleQuiet == ASSUME IInv, IdleYield PROVE QuietFor(IDLE)
<1>1. YieldsWith(state) /\ Goto(IDLE, "hlt") /\ current_thread = IDLE
      /\ UNCHANGED <<irqVars, sleepVars>>
  BY PlainYields DEF IdleYield, At, Sites
<1> QED BY <1>1, TidFacts, YieldQuiet

\* kmain changes no other thread than itself, but to create or to wake one.
LEMMA KmainFacts ==
    ASSUME IInv, kmain
    PROVE  /\ current_thread = MAIN /\ ~in_irq[MAIN] /\ pc[MAIN] \notin {"off", "wild"}
           /\ UNCHANGED <<irqVars, consoleVars>>
           /\ \E l \in Labels \ ReadLabels : Goto(MAIN, l)
           /\ \A u \in Tids \ {MAIN} : state'[u] = state[u] \/ state'[u] \in Runnable
<1>1. current_thread = MAIN /\ ~in_irq[MAIN] /\ pc[MAIN] \notin {"off", "wild"}
  BY DEF kmain, Launch, SetCr3, SetParent, WaitCheck, WaitMark, WaitBlock, WaitYield,
         WaitReturn, SleepMark, SleepPush, SleepYield, Reboot, At, Live
<1>2. UNCHANGED <<irqVars, consoleVars>>
  BY DEF kmain, Launch, SetCr3, SetParent, WaitCheck, WaitMark, WaitBlock, WaitYield,
         WaitReturn, SleepMark, SleepPush, SleepYield, Reboot
<1>3. \E l \in Labels \ ReadLabels : Goto(MAIN, l)
  <2>1. CASE Launch \/ SetCr3 \/ SetParent \/ WaitCheck \/ WaitMark \/ WaitBlock
    BY <2>1 DEF Launch, SetCr3, SetParent, WaitCheck, WaitMark, WaitBlock, Labels, ReadLabels
  <2>2. CASE WaitYield \/ WaitReturn(MAIN) \/ SleepMark \/ SleepPush \/ SleepYield \/ Reboot
    BY <2>2 DEF WaitYield, WaitReturn, SleepMark, SleepPush, SleepYield, Reboot, Labels,
                SyscallLabels, ReadLabels
  <2> QED BY <2>1, <2>2 DEF kmain
<1>4. \A u \in Tids \ {MAIN} : state'[u] = state[u] \/ state'[u] \in Runnable
  <2>0. state \in [Tids -> States]
    BY Frames
  <2>1. CASE Launch
    BY <2>0, <2>1 DEF Launch, new_elf_process, schedVars, Runnable
  <2>2. CASE WaitYield \/ SleepYield
    <3>1. YieldsWith(state)
      BY <2>2, PlainYields DEF WaitYield, SleepYield, Sites
    <3> QED BY <3>1, YieldsFacts
  <2>3. CASE WaitBlock \/ SleepMark
    BY <2>0, <2>3 DEF WaitBlock, SleepMark
  <2>4. CASE SetCr3 \/ SetParent \/ WaitCheck \/ WaitMark \/ WaitReturn(MAIN) \/ SleepPush \/ Reboot
    BY <2>4 DEF SetCr3, SetParent, WaitCheck, WaitMark, WaitReturn, SleepPush, Reboot, schedVars
  <2> QED BY <2>1, <2>2, <2>3, <2>4 DEF kmain
<1> QED BY <1>1, <1>2, <1>3, <1>4

-----------------------------------------------------------------------------
(* kusleep and the delta queue.                                            *)

\* kusleep's kernel_yield really calls the scheduler.
SleepYields == "sleep" \notin StaleFrom

\* The queue holds kmain's entry, if any.  Under CFS kmain is not on the processor
\* again before the timer has taken it out; under RR, where the idle thread is no
\* candidate, it can be, but does not sleep a second time.
SleepInv ==
    /\ SleepingQueueExact
    /\ Len(sleeping_queue) \in {0, 1}
    /\ state[MAIN] = "SLEEPING" =>
          pc[MAIN] \in {"kusleep", "sleep_push", "sleep_yield", "off", "wild"} /\ sleeps >= 1
    /\ pc[MAIN] = "sleep_push" => state[MAIN] = "SLEEPING"
    /\ current_thread = MAIN /\ pc[MAIN] = "kusleep" /\ state[MAIN] = "SLEEPING"
          => SCH_ALG = "RR"

\* A step that leaves kmain's sleep alone.
LEMMA SleepFrame ==
    ASSUME SleepInv, UNCHANGED sleepVars, pc'[MAIN] = pc[MAIN],
           state'[MAIN] = "SLEEPING" <=> state[MAIN] = "SLEEPING",
           current_thread' = MAIN => current_thread = MAIN \/ state'[MAIN] # "SLEEPING"
    PROVE  SleepInv'
BY DEF SleepInv, SleepingQueueExact, sleepVars

\* A step of kmain outside kusleep.
LEMMA AwakeFrame ==
    ASSUME SleepInv, UNCHANGED sleepVars, pc'[MAIN] # "sleep_push",
           state[MAIN] # "SLEEPING", state'[MAIN] # "SLEEPING"
    PROVE  SleepInv'
BY DEF SleepInv, SleepingQueueExact, sleepVars

\* A call of kernel_yield does not wake kmain from kusleep.
LEMMA SleepYielded ==
    ASSUME IInv, SleepInv, NEW st, YieldsWith(st), UNCHANGED sleepVars,
           pc'[MAIN] = pc[MAIN], st[MAIN] = "SLEEPING" <=> state[MAIN] = "SLEEPING"
    PROVE  SleepInv'
<1>1. /\ IF st[MAIN] \in Runnable THEN state'[MAIN] \in Runnable ELSE state'[MAIN] = st[MAIN]
      /\ state'[current_thread'] = "RUNNING" \/ current_thread' = current_thread
  BY YieldsFacts, TidFacts
<1> QED BY <1>1, SleepFrame DEF Runnable

\* keyboard_handler_c.
LEMMA SleepHandleChar ==
    ASSUME IInv, SleepInv, NEW chars, HandleChar(chars), pc'[MAIN] = pc[MAIN]
    PROVE  SleepInv'
<1>1. MAIN \notin FirstWaiter
  BY WaiterFacts, TidFacts DEF FirstWaiter
<1>2. Notified[MAIN] = state[MAIN]
  BY <1>1, TidFacts DEF Notified
<1>3. UNCHANGED sleepVars
  BY DEF HandleChar
<1> QED BY <1>2, <1>3, HandleCharYields, SleepYielded

\* A step of the timer: only an entry that has expired wakes kmain.
LEMMA SleepPit ==
    ASSUME IInv, SleepInv, pit_interrupt, pc'[MAIN] = pc[MAIN]
    PROVE  SleepInv'
<1> DEFINE Entry == [delta : 0 .. SLEEP_MS, tid : {MAIN}]
<1>1. sleeping_queue \in Seq(Entry) /\ state \in [Tids -> States]
  BY Groups DEF DeviceTypes, SchedTypes
<1>0. \A e \in Entry : e.tid = MAIN
  OBVIOUS
<1> HIDE DEF Entry
<1>2. UNCHANGED <<current_thread, sleeps>> /\ update_sleeping_queue
  BY DEF pit_interrupt
<1>3. CASE sleeping_queue = <<>>
  BY <1>2, <1>3, SleepFrame DEF update_sleeping_queue, sleepVars
<1>4. CASE sleeping_queue # <<>>
  <2>1. Len(sleeping_queue) = 1 /\ Len(Tail(sleeping_queue)) = 0
    <3>1. Len(sleeping_queue) # 0 /\ Len(Tail(sleeping_queue)) = Len(sleeping_queue) - 1
      BY <1>1, <1>4
    <3> QED BY <3>1 DEF SleepInv
  <2>2. Head(sleeping_queue).tid = MAIN
    BY <1>0, <1>1, <1>4
  <2>3. state[MAIN] = "SLEEPING" /\ pc[MAIN] # "sleep_push"
    BY <1>4 DEF SleepInv, SleepingQueueExact
  <2>4. CASE Head(sleeping_queue).delta = 0
    <3>1. state' = [state EXCEPT ![MAIN] = "READY"] /\ sleeping_queue' = Tail(sleeping_queue)
      BY <1>2, <1>4, <2>2, <2>4 DEF update_sleeping_queue
    <3>2. state'[MAIN] = "READY" /\ Tail(sleeping_queue) = <<>>
      BY <1>1, <2>1, <3>1, TidFacts
    <3> QED BY <1>2, <2>3, <3>1, <3>2 DEF SleepInv, SleepingQueueExact
  <2>5. CASE Head(sleeping_queue).delta # 0
    <3>1. /\ UNCHANGED state
          /\ sleeping_queue' = <<[delta |-> Head(sleeping_queue).delta - 1,
                                  tid |-> Head(sleeping_queue).tid]>> \o Tail(sleeping_queue)
      BY <1>2, <1>4, <2>5 DEF update_sleeping_queue
    <3>2. Len(sleeping_queue') = 1 /\ sleeping_queue' # <<>>
      BY <1>1, <1>4, <2>1, <3>1
    <3> QED BY <1>2, <2>3, <3>1, <3>2 DEF SleepInv, SleepingQueueExact
  <2> QED BY <2>4, <2>5
<1> QED BY <1>3, <1>4

\* A step of an interrupt handler keeps it.
LEMMA SleepInterrupts ==
    ASSUME IInv, SleepInv,
           \/ KeyboardInterrupt \/ KeyboardResume \/ KeyboardEOI \/ KeyInsideSchedule
           \/ TimerInterrupt
    PROVE  SleepInv'
<1>0. MAIN # IDLE /\ MAIN \in Tids /\ pc \in [Tids -> Labels]
  BY Frames
<1>1. CASE KeyboardInterrupt
  <2>1. pc'[MAIN] = pc[MAIN]
    BY <1>0, <1>1 DEF KeyboardInterrupt, LeaveHlt
  <2>2. CASE UNCHANGED <<schedVars, irqVars, consoleVars, waitVars, sleepVars>>
    BY <2>1, <2>2, SleepFrame DEF schedVars
  <2>3. CASE \E chars : HandleChar(chars)
    BY <2>1, <2>3, SleepHandleChar
  <2> QED BY <1>1, <2>2, <2>3 DEF KeyboardInterrupt
<1>2. CASE KeyboardResume
  BY <1>2, SleepHandleChar DEF KeyboardResume
<1>3. CASE KeyboardEOI
  BY <1>3, SleepFrame DEF KeyboardEOI, schedVars
<1>4. CASE KeyInsideSchedule
  <2>1. UNCHANGED <<schedVars, sleepVars>> /\ Goto(current_thread, "wild")
        /\ pc[current_thread] \in {"idle_yield", "wait_yield", "sleep_yield"}
    BY <1>4 DEF KeyInsideSchedule
  <2>2. CASE current_thread = MAIN
    <3>1. pc'[MAIN] = "wild" /\ pc[MAIN] # "sleep_push"
      BY <1>0, <2>1, <2>2 DEF Goto
    <3> QED BY <2>1, <3>1 DEF SleepInv, SleepingQueueExact, schedVars, sleepVars
  <2>3. CASE current_thread # MAIN
    <3>1. pc'[MAIN] = pc[MAIN]
      BY <1>0, <2>1, <2>3 DEF Goto
    <3> QED BY <2>1, <3>1, SleepFrame DEF schedVars
  <2> QED BY <2>2, <2>3
<1>5. CASE TimerInterrupt
  <2>1. pc'[MAIN] = pc[MAIN] /\ pit_interrupt
    BY <1>0, <1>5 DEF TimerInterrupt, LeaveHlt
  <2> QED BY <2>1, SleepPit
<1> QED BY <1>1, <1>2, <1>3, <1>4, <1>5

\* A step that leaves the devices alone keeps it.
LEMMA SleepQuiet ==
    ASSUME IInv, SleepInv, NEW t \in Tids \ {MAIN}, QuietFor(t)
    PROVE  SleepInv'
<1>1. pc'[MAIN] = pc[MAIN]
  BY Frames DEF QuietFor, Goto
<1>2. state'[MAIN] = "SLEEPING" <=> state[MAIN] = "SLEEPING"
  BY TidFacts DEF QuietFor, SleepInv, Runnable
<1> QED BY <1>1, <1>2, SleepFrame DEF QuietFor

\* A system call of a user thread keeps it.
LEMMA SleepUser ==
    ASSUME IInv, SleepInv, NEW t \in UserThreads, user(t)
    PROVE  SleepInv'
<1>1. CASE QuietFor(t)
  BY <1>1, TidFacts, SleepQuiet
<1>2. CASE sys_yield(t)
  BY <1>2, SleepPit DEF sys_yield
<1> QED BY <1>1, <1>2, UserQuiet

\* Under CFS a thread that is not READY or RUNNING leaves the processor: the idle
\* thread is always a candidate.
LEMMA YieldLeaves ==
    ASSUME IInv, SCH_ALG = "CFS", NEW site, site \notin StaleFrom, kernel_yield(site, state),
           UNCHANGED yieldUnchanged, state[current_thread] \notin Runnable
    PROVE  current_thread' # current_thread
<1>1. /\ next_tid \in 2 .. MaxThreads /\ current_thread \in Listed /\ current_thread # IDLE
      /\ state[IDLE] = "READY"
  BY Groups DEF SchedTypes, SchedOK, IdleRunnable, Runnable
<1>2. PICK n \in Listed \cup {NULL} :
        /\ get_next_thread(state, n)
        /\ IF n # NULL THEN SwitchTo(state, n)
           ELSE IF current_thread = IDLE \/ next_tid = 2
           THEN KeepRunning(state) ELSE SwitchTo(state, IDLE)
  BY DEF kernel_yield, schedule
<1>3. get_next_thread_cfs(state, n)
  BY <1>2 DEF get_next_thread
<1>4. CASE n # NULL
  <2>1. state[n] = "READY"
    BY <1>3, <1>4 DEF get_next_thread_cfs, get_lowest_runtime
  <2> QED BY <1>2, <1>4, <2>1 DEF SwitchTo, Runnable
<1>5. CASE n = NULL /\ next_tid # 2
  BY <1>1, <1>2, <1>5 DEF SwitchTo
<1>6. CASE n = NULL /\ next_tid = 2
  <2>1. Listed = {MAIN, IDLE} /\ current_thread = MAIN
    BY <1>1, <1>6 DEF Listed, MAIN, IDLE
  <2>2. {t \in Listed : state[t] = "READY"} = {IDLE}
    BY <1>1, <2>1 DEF Runnable
  <2>3. IDLE <= IDLE
    BY DEF IDLE
  <2>4. IDLE \in get_lowest_runtime(state)
    BY <2>2, <2>3 DEF get_lowest_runtime
  <2>5. n \notin Listed
    BY <1>6, <2>1 DEF NULL, MAIN, IDLE
  <2>6. n \in get_lowest_runtime(state)
    BY <1>3, <2>4 DEF get_next_thread_cfs
  <2> QED BY <2>5, <2>6 DEF get_lowest_runtime
<1> QED BY <1>4, <1>5, <1>6

\* A step of kmain keeps it: kmain pushes its entry once, and has left the
\* processor before it could come back to kusleep.
LEMMA SleepKmain ==
    ASSUME IInv, SleepInv, SleepYields, kmain
    PROVE  SleepInv'
<1>0. /\ MAIN # IDLE /\ MAIN \in Tids /\ pc \in [Tids -> Labels]
      /\ state \in [Tids -> States] /\ sleeps \in 0 .. SLEEPS
  BY Frames
<1>a. ASSUME NEW l, l # "sleep_push", Goto(MAIN, l), state[MAIN] # "SLEEPING",
             state'[MAIN] # "SLEEPING", UNCHANGED sleepVars
      PROVE  SleepInv'
  BY <1>0, <1>a, AwakeFrame DEF Goto
<1>b. pc[MAIN] \in {"launch", "set_cr3", "set_parent", "wait_check", "wait_mark",
                    "wait_block", "wait_yield", "wait_ret"} => state[MAIN] # "SLEEPING"
  BY DEF SleepInv
<1>1. CASE Launch
  <2>1. state'[MAIN] = state[MAIN]
    BY <1>0, <1>1, Groups DEF Launch, new_elf_process, schedVars, SchedTypes, MAIN
  <2>2. Goto(MAIN, "set_cr3") \/ Goto(MAIN, "wait_check")
    BY <1>1 DEF Launch
  <2> QED BY <1>1, <1>a, <1>b, <2>1, <2>2 DEF Launch, At
<1>2. CASE SetCr3 \/ SetParent \/ WaitMark
  <2>1. UNCHANGED <<state, sleepVars>> /\ pc[MAIN] \in {"set_cr3", "set_parent", "wait_mark"}
    BY <1>2 DEF SetCr3, SetParent, WaitMark, At, schedVars
  <2>2. Goto(MAIN, "set_parent") \/ Goto(MAIN, "wait_check") \/ Goto(MAIN, "wait_block")
    BY <1>2 DEF SetCr3, SetParent, WaitMark
  <2> QED BY <1>a, <1>b, <2>1, <2>2
<1>3. CASE WaitCheck
  <2>1. UNCHANGED <<state, sleepVars>> /\ pc[MAIN] = "wait_check"
    BY <1>3 DEF WaitCheck, At, schedVars
  <2>2. Goto(MAIN, "kusleep") \/ Goto(MAIN, "wait_mark")
    BY <1>3 DEF WaitCheck
  <2> QED BY <1>a, <1>b, <2>1, <2>2
<1>4. CASE WaitBlock
  <2>1. state'[MAIN] = "WAITING" /\ pc[MAIN] = "wait_block"
    BY <1>0, <1>4 DEF WaitBlock, At
  <2> QED BY <1>4, <1>a, <1>b, <2>1 DEF WaitBlock
<1>5. CASE WaitYield
  <2>1. YieldsWith(state) /\ pc[MAIN] = "wait_yield"
    BY <1>5, PlainYields DEF WaitYield, At, Sites
  <2>2. state'[MAIN] # "SLEEPING"
    BY <1>0, <1>b, <2>1, YieldsFacts DEF Runnable
  <2> QED BY <1>5, <1>a, <1>b, <2>1, <2>2 DEF WaitYield
<1>6. CASE WaitReturn(MAIN)
  <2>1. UNCHANGED <<state, sleepVars>> /\ pc[MAIN] = "wait_ret" /\ Goto(MAIN, "kusleep")
    BY <1>6 DEF WaitReturn, At, schedVars
  <2> QED BY <1>a, <1>b, <2>1
<1>7. CASE SleepMark
  <2>1. /\ current_thread = MAIN /\ pc[MAIN] = "kusleep" /\ sleeps < SLEEPS
        /\ state'[MAIN] = "SLEEPING" /\ sleeps' = sleeps + 1 /\ pc'[MAIN] = "sleep_push"
        /\ UNCHANGED sleeping_queue
    BY <1>0, <1>7 DEF SleepMark, At, Goto
  <2>2. state[MAIN] # "SLEEPING"
    BY <1>0, <2>1, KernelAssumption DEF SleepInv
  <2>3. sleeping_queue = <<>> /\ sleeps' >= 1
    BY <1>0, <2>1, <2>2 DEF SleepInv, SleepingQueueExact
  <2> QED BY <2>1, <2>3 DEF SleepInv, SleepingQueueExact
<1>8. CASE SleepPush
  <2>1. /\ pc[MAIN] = "sleep_push" /\ pc'[MAIN] = "sleep_yield"
        /\ UNCHANGED <<state, sleeps>>
        /\ sleeping_queue' = <<[delta |-> SLEEP_MS, tid |-> MAIN]>> \o sleeping_queue
    BY <1>0, <1>8 DEF SleepPush, At, Goto, schedVars
  <2>2. sleeping_queue = <<>> /\ state[MAIN] = "SLEEPING"
    BY <2>1 DEF SleepInv, SleepingQueueExact
  <2>3. Len(sleeping_queue') = 1 /\ sleeping_queue' # <<>>
    BY <2>1, <2>2
  <2> QED BY <2>1, <2>2, <2>3 DEF SleepInv, SleepingQueueExact
<1>9. CASE SleepYield
  <2>1. /\ current_thread = MAIN /\ pc[MAIN] = "sleep_yield" /\ pc'[MAIN] = "kusleep"
        /\ kernel_yield("sleep", state) /\ UNCHANGED <<yieldUnchanged, sleepVars>>
    BY <1>0, <1>9 DEF SleepYield, At, Goto
  <2>2. YieldsWith(state)
    BY <2>1, PlainYields DEF Sites
  <2>3. state'[MAIN] = "SLEEPING" <=> state[MAIN] = "SLEEPING"
    BY <1>0, <2>2, YieldsFacts DEF Runnable
  <2>4. state[MAIN] = "SLEEPING" /\ SCH_ALG = "CFS" => current_thread' # MAIN
    BY <2>1, YieldLeaves DEF SleepYields, Runnable
  <2> QED BY <2>1, <2>3, <2>4, SchedulerAssumption DEF SleepInv, SleepingQueueExact, sleepVars
<1>10. CASE Reboot
  <2>1. UNCHANGED <<state, sleepVars, current_thread>> /\ pc[MAIN] = "kusleep" /\ pc'[MAIN] = "off"
    BY <1>0, <1>10 DEF Reboot, At, Goto, schedVars
  <2> QED BY <2>1 DEF SleepInv, SleepingQueueExact, sleepVars
<1> QED BY <1>1, <1>2, <1>3, <1>4, <1>5, <1>6, <1>7, <1>8, <1>9, <1>10 DEF kmain

\* Every step keeps what is known of the delta queue.
LEMMA SleepNext ==
    ASSUME IInv, SleepInv, SleepYields, [Next]_vars
    PROVE  SleepInv'
<1>1. CASE UNCHANGED vars
  BY <1>1, SleepFrame DEF vars, schedVars
<1>2. CASE IdleYield
  BY <1>2, TidFacts, IdleQuiet, SleepQuiet
<1> QED BY <1>1, <1>2, SleepInterrupts, SleepKmain, SleepUser DEF Next

\* The delta queue is empty when the kernel starts.
LEMMA SleepInit == ASSUME Init PROVE SleepInv
<1>1. state[MAIN] = "RUNNING" /\ pc[MAIN] = "launch" /\ sleeping_queue = <<>>
  BY TidFacts DEF Init, SchedInit
<1> QED BY <1>1 DEF SleepInv, SleepingQueueExact

-----------------------------------------------------------------------------
(* The keyboard interrupt in service.                                      *)

\* A thread suspended in the keyboard's handler was interrupted in code that runs
\* with interrupts on, and has not blocked; kmain may have marked itself so, between
\* the mark and its kernel_yield.
MainInterruptible ==
    state[MAIN] \in Runnable \/ pc[MAIN] \in {"wait_yield", "sleep_push", "sleep_yield"}

EoiInv ==
    /\ isr => \E t \in Tids : in_irq[t]
    /\ \A t \in UserThreads : in_irq[t] => pc[t] = "user" /\ state[t] \in Runnable
    /\ in_irq[MAIN] => MainInterruptible
    /\ state[MAIN] = "WAITING" => pc[MAIN] \in {"wait_yield", "wait_ret", "wild"}

\* It is what EoiOwnerCanRun needs: the idle thread can always run.
LEMMA EoiImplies == ASSUME IInv, EoiInv PROVE EoiOwnerCanRun
<1>1. state[IDLE] \in Runnable
  BY Groups DEF SchedOK, IdleRunnable, Runnable
<1>2. \A t \in Tids : t = MAIN \/ t = IDLE \/ t \in UserThreads
  BY DEF UserThreads
<1> QED BY <1>1, <1>2 DEF EoiInv, EoiOwnerCanRun, MainInterruptible, Runnable

\* A step that suspends nobody and moves no suspended thread.
LEMMA EoiFrame ==
    ASSUME IInv, EoiInv, isr' => isr, UNCHANGED in_irq,
           \A t \in UserThreads : in_irq[t] => pc'[t] = pc[t]
              /\ (state[t] \in Runnable => state'[t] \in Runnable),
           pc'[MAIN] = pc[MAIN],
           state'[MAIN] = state[MAIN] \/ state'[MAIN] \in Runnable
    PROVE  EoiInv'
BY DEF EoiInv, MainInterruptible, Runnable

\* The thread on the processor may be suspended in the keyboard's handler.
CurrentInterruptible ==
    /\ current_thread \in UserThreads =>
          pc[current_thread] = "user" /\ state[current_thread] \in Runnable
    /\ current_thread = MAIN => MainInterruptible

\* keyboard_handler_c suspends the thread on the processor.
LEMMA EoiHandleChar ==
    ASSUME IInv, EoiInv, CurrentInterruptible, NEW chars, HandleChar(chars),
           \A t \in Tids \ {IDLE} : pc'[t] = pc[t]
    PROVE  EoiInv'
<1>1. /\ in_irq' = [in_irq EXCEPT ![current_thread] = TRUE] /\ in_irq \in [Tids -> BOOLEAN]
      /\ current_thread \in Tids
  BY Frames DEF HandleChar
<1>2. \A t \in Tids : IF Notified[t] \in Runnable THEN state'[t] \in Runnable
                                                  ELSE state'[t] = Notified[t]
  BY HandleCharYields, YieldsFacts
<1>3. \A t \in Tids : Notified[t] = state[t] \/ Notified[t] \in Runnable
  BY DEF Notified, Runnable
<1>4. MAIN \notin FirstWaiter
  BY WaiterFacts, TidFacts DEF FirstWaiter
<1>5. Notified[MAIN] = state[MAIN]
  BY <1>4, TidFacts DEF Notified
<1>6. \E t \in Tids : in_irq'[t]
  BY <1>1
<1>7. \A t \in UserThreads : in_irq'[t] => pc'[t] = "user" /\ state'[t] \in Runnable
  <2>1. \A t \in UserThreads : t \in Tids /\ t # IDLE /\ (in_irq'[t] => in_irq[t] \/ t = current_thread)
    BY <1>1, TidFacts
  <2>2. \A t \in UserThreads : in_irq'[t] => pc[t] = "user" /\ state[t] \in Runnable
    BY <2>1 DEF EoiInv, CurrentInterruptible
  <2> QED BY <1>2, <1>3, <2>1, <2>2
<1>8. pc'[MAIN] = pc[MAIN] /\ (state'[MAIN] = state[MAIN] \/ state'[MAIN] \in Runnable)
      /\ (state[MAIN] \in Runnable => state'[MAIN] \in Runnable)
  BY <1>2, <1>5, TidFacts
<1>9. in_irq'[MAIN] => MainInterruptible
  BY <1>1, TidFacts DEF EoiInv, CurrentInterruptible
<1>10. in_irq'[MAIN] => MainInterruptible'
  BY <1>8, <1>9 DEF MainInterruptible
<1>11. state'[MAIN] = "WAITING" => pc'[MAIN] \in {"wait_yield", "wait_ret", "wild"}
  BY <1>8 DEF EoiInv, Runnable
<1> QED BY <1>6, <1>7, <1>10, <1>11 DEF EoiInv

\* A thread that is interrupted has not blocked.  Under RR kmain may have, on its
\* way back from a kusleep that found no other thread.
LEMMA InterruptedRuns ==
    ASSUME IInv, SleepInv, EoiInv, SCH_ALG = "CFS", InterruptsOn
    PROVE  CurrentInterruptible
<1>1. CASE current_thread \in UserThreads
  <2>1. pc[current_thread] = "user"
    BY <1>1, Groups, TidFacts DEF InterruptsOn, ThreadsOK, LabelsOK
  <2>2. state[current_thread] = "RUNNING"
    BY <1>1, <2>1, Groups, TidFacts DEF ThreadsOK, CurrentOK, DeadOK
  <2> QED BY <1>1, <2>1, <2>2, TidFacts DEF CurrentInterruptible, Runnable
<1>2. CASE current_thread = MAIN
  <2>1. pc[MAIN] \in MainLabels /\ pc[MAIN] \notin {"off", "wild"}
    BY Groups DEF ThreadsOK, LabelsOK, InterruptsOn, Live
  <2>2. state[MAIN] \in States /\ state[MAIN] # "NEW" /\ state[MAIN] # "DEAD"
    BY <1>2, <2>1, Groups, TidFacts DEF SchedTypes, ThreadsOK, ListOK, DeadOK, MainLabels
  <2>3. state[MAIN] = "WAITING" => pc[MAIN] = "wait_yield"
    BY <1>2, <2>1, Groups DEF EoiInv, ThreadsOK, CurrentOK
  <2>4. state[MAIN] = "SLEEPING" => pc[MAIN] \in {"sleep_push", "sleep_yield"}
    BY <1>2, <2>1 DEF SleepInv
  <2>5. MainInterruptible
    BY <2>2, <2>3, <2>4 DEF MainInterruptible, Runnable, States
  <2> QED BY <1>2, <2>5, TidFacts DEF CurrentInterruptible
<1> QED BY <1>1, <1>2 DEF CurrentInterruptible

\* The steps of the interrupt handlers.
LEMMA EoiInterrupts ==
    ASSUME IInv, SleepInv, EoiInv, SCH_ALG = "CFS",
           \/ KeyboardInterrupt \/ KeyboardResume \/ KeyboardEOI \/ KeyInsideSchedule
           \/ TimerInterrupt
    PROVE  EoiInv'
<1>0. /\ MAIN # IDLE /\ MAIN \in Tids /\ pc \in [Tids -> Labels] /\ current_thread \in Tids
      /\ \A t \in UserThreads : t \in Tids /\ t # IDLE /\ t # MAIN
      /\ in_irq \in [Tids -> BOOLEAN]
  BY Frames
<1>1. CASE KeyboardInterrupt
  <2>1. \A t \in Tids \ {IDLE} : pc'[t] = pc[t]
    BY <1>0, <1>1 DEF KeyboardInterrupt, LeaveHlt
  <2>2. CASE UNCHANGED <<schedVars, irqVars, consoleVars, waitVars, sleepVars>>
    BY <1>0, <2>1, <2>2, EoiFrame DEF schedVars, irqVars
  <2>3. CASE \E chars : HandleChar(chars)
    BY <1>1, <2>1, <2>3, InterruptedRuns, EoiHandleChar DEF KeyboardInterrupt
  <2> QED BY <1>1, <2>2, <2>3 DEF KeyboardInterrupt
<1>2. CASE KeyboardResume
  <2>1. CurrentInterruptible
    BY <1>2 DEF KeyboardResume, EoiInv, CurrentInterruptible
  <2> QED BY <1>2, <2>1, EoiHandleChar DEF KeyboardResume
<1>3. CASE KeyboardEOI
  <2>1. ~isr' /\ UNCHANGED <<pc, state>> /\ \A t \in Tids : in_irq'[t] => in_irq[t]
    BY <1>0, <1>3 DEF KeyboardEOI, schedVars
  <2> QED BY <1>0, <2>1 DEF EoiInv, MainInterruptible
<1>4. CASE KeyInsideSchedule
  <2>1. /\ UNCHANGED <<state, in_irq, isr>> /\ ~in_irq[current_thread]
        /\ pc'[current_thread] = "wild" /\ \A t \in Tids \ {current_thread} : pc'[t] = pc[t]
    BY <1>0, <1>4 DEF KeyInsideSchedule, InterruptsOn, Goto, schedVars, irqVars
  <2> QED BY <1>0, <2>1 DEF EoiInv, MainInterruptible
<1>5. CASE TimerInterrupt
  <2>1. \A t \in Tids \ {IDLE} : pc'[t] = pc[t]
    BY <1>0, <1>5 DEF TimerInterrupt, LeaveHlt
  <2>2. ~isr' /\ UNCHANGED in_irq /\ pit_interrupt
    BY <1>5 DEF TimerInterrupt, pit_interrupt
  <2>3. \A t \in Tids : state'[t] = state[t] \/ (t = MAIN /\ state'[t] = "READY")
    BY <2>2, PitWakes
  <2> QED BY <1>0, <2>1, <2>2, <2>3, EoiFrame DEF Runnable
<1> QED BY <1>1, <1>2, <1>3, <1>4, <1>5

\* A step that leaves the devices alone.
LEMMA EoiQuiet ==
    ASSUME IInv, EoiInv, NEW t \in Tids \ {MAIN}, ~in_irq[t], QuietFor(t)
    PROVE  EoiInv'
<1>1. UNCHANGED <<in_irq, isr>> /\ \A u \in Tids \ {t} : state'[u] = state[u] \/ state'[u] \in Runnable
  BY DEF QuietFor, irqVars
<1>2. \A u \in Tids \ {t} : pc'[u] = pc[u]
  BY Frames DEF QuietFor, Goto
<1>3. \A u \in UserThreads : in_irq[u] => u \in Tids \ {t}
  BY Frames
<1> QED BY <1>1, <1>2, <1>3, TidFacts, EoiFrame

\* A system call of a user thread, which is not suspended.
LEMMA EoiUser ==
    ASSUME IInv, EoiInv, NEW t \in UserThreads, user(t)
    PROVE  EoiInv'
<1>1. CASE QuietFor(t)
  BY <1>1, TidFacts, UserQuiet, EoiQuiet
<1>2. CASE sys_yield(t)
  <2>1. ~isr' /\ UNCHANGED <<in_irq, pc>> /\ pit_interrupt
    BY <1>2 DEF sys_yield, pit_interrupt
  <2> QED BY <2>1, Frames, PitWakes, EoiFrame DEF Runnable
<1> QED BY <1>1, <1>2, UserQuiet

\* A step of kmain, which is not suspended then: it waits only where it has called
\* sys_waitpid.
LEMMA EoiKmain == ASSUME IInv, EoiInv, kmain PROVE EoiInv'
<1>0. /\ MAIN \in Tids /\ pc \in [Tids -> Labels] /\ state \in [Tids -> States]
      /\ \A u \in UserThreads : u \in Tids /\ u # MAIN
  BY Frames
<1>1. /\ current_thread = MAIN /\ ~in_irq[MAIN] /\ pc[MAIN] # "wild" /\ UNCHANGED <<in_irq, isr>>
      /\ \A u \in Tids \ {MAIN} : state'[u] = state[u] \/ state'[u] \in Runnable
  BY KmainFacts DEF irqVars
<1>2. \A u \in Tids \ {MAIN} : pc'[u] = pc[u]
  BY <1>0, KmainFacts DEF Goto
<1>3. state[MAIN] = "WAITING" => pc[MAIN] = "wait_yield"
  BY <1>1, Groups DEF EoiInv, ThreadsOK, CurrentOK
<1>4. state'[MAIN] = "WAITING" => pc'[MAIN] \in {"wait_yield", "wait_ret"}
  <2>1. CASE WaitBlock
    BY <1>0, <2>1 DEF WaitBlock, Goto
  <2>2. CASE WaitYield
    BY <1>0, <2>2 DEF WaitYield, Goto
  <2>3. CASE SleepYield
    <3>1. YieldsWith(state) /\ pc[MAIN] = "sleep_yield"
      BY <2>3, PlainYields DEF SleepYield, Sites, At
    <3> QED BY <1>0, <1>3, <3>1, YieldsFacts DEF Runnable
  <2>4. CASE SleepMark
    BY <1>0, <2>4 DEF SleepMark
  <2>5. CASE Launch \/ SetCr3 \/ SetParent \/ WaitCheck \/ WaitMark \/ WaitReturn(MAIN)
             \/ SleepPush \/ Reboot
    <3>1. pc[MAIN] # "wait_yield"
      BY <2>5 DEF Launch, SetCr3, SetParent, WaitCheck, WaitMark, WaitReturn, SleepPush,
                  Reboot, At
    <3>2. state'[MAIN] \in {state[MAIN], "READY"}
      BY <1>0, <2>5 DEF Launch, new_elf_process, SetCr3, SetParent, WaitCheck, WaitMark,
                        WaitReturn, SleepPush, Reboot, schedVars
    <3> QED BY <1>3, <3>1, <3>2
  <2> QED BY <2>1, <2>2, <2>3, <2>4, <2>5 DEF kmain
<1> QED BY <1>0, <1>1, <1>2, <1>4 DEF EoiInv

\* Every step keeps what is known of the keyboard interrupt in service.
LEMMA EoiNext ==
    ASSUME IInv, SleepInv, EoiInv, SCH_ALG = "CFS", [Next]_vars
    PROVE  EoiInv'
<1>1. CASE UNCHANGED vars
  BY <1>1, EoiFrame DEF vars, schedVars, irqVars
<1>2. CASE IdleYield
  <2>1. ~in_irq[IDLE]
    BY <1>2 DEF IdleYield, At
  <2> QED BY <1>2, <2>1, TidFacts, IdleQuiet, EoiQuiet
<1> QED BY <1>1, <1>2, EoiInterrupts, EoiKmain, EoiUser DEF Next

\* No key has been pressed when the kernel starts.
LEMMA EoiInit == ASSUME Init PROVE EoiInv
<1>1. state[MAIN] = "RUNNING" /\ ~isr /\ \A t \in Tids : ~in_irq[t]
  BY TidFacts DEF Init, SchedInit
<1> QED BY <1>1, TidFacts DEF EoiInv

-----------------------------------------------------------------------------
(* The theorems.                                                           *)

\* Every step preserves the inductive invariant.
LEMMA NextInv == ASSUME IInv, BlockingCallsYield, [Next]_vars PROVE IInv'
<1>1. CASE UNCHANGED vars
  BY <1>1, StutterInv
<1>2. CASE KeyboardInterrupt \/ KeyboardResume \/ KeyboardEOI \/ KeyInsideSchedule
  BY <1>2, KeyboardInterruptInv, KeyboardResumeInv, KeyboardEOIInv, KeyInsideScheduleInv
<1>3. CASE TimerInterrupt
  BY <1>3, PitInv DEF TimerInterrupt
<1>4. CASE IdleYield
  BY <1>4, IdleYieldInv
<1>5. CASE kmain
  BY <1>5, TidFacts, LaunchInv, SetCr3Inv, SetParentInv, WaitCheckInv, WaitMarkInv,
     WaitBlockInv, WaitYieldInv, WaitReturnInv, SleepMarkInv, SleepPushInv,
     SleepYieldInv, RebootInv
  DEF kmain
<1>6. ASSUME NEW t \in UserThreads, user(t) PROVE IInv'
  <2>1. CASE sys_yield(t)
    BY <2>1, PitInv DEF sys_yield
  <2>2. CASE WaitReturn(t)
    BY <2>2, WaitReturnInv DEF UserThreads
  <2>3. CASE sys_exec(t) \/ sys_exit(t) \/ console_read(t) \/ ReadResume(t)
    BY <2>3, sys_execInv, sys_exitInv, console_readInv, ReadResumeInv
  <2>4. CASE \E c \in Listed \ {IDLE} : sys_waitpid(t, c)
    BY <2>4, sys_waitpidInv
  <2> QED BY <1>6, <2>1, <2>2, <2>3, <2>4 DEF user
<1> QED BY <1>1, <1>2, <1>3, <1>4, <1>5, <1>6 DEF Next

-----------------------------------------------------------------------------
(* The theorems.                                                           *)

\* The inductive invariant holds throughout, whatever the keys, the ticks, the
\* programs and the scheduling algorithm.
THEOREM Invariance == ASSUME BlockingCallsYield PROVE Spec => []IInv
<1>1. Init => IInv
  BY InitInv
<1>2. IInv /\ [Next]_vars => IInv'
  BY NextInv
<1> QED BY <1>1, <1>2, PTL DEF Spec

\* Every variable of the kernel keeps its type: in particular the keyboard buffer
\* never overfills and the delta queue holds no thread but kmain's.
THEOREM TypeCorrect == ASSUME BlockingCallsYield PROVE Spec => []TypeOK
<1>1. IInv => TypeOK
  BY DEF IInv
<1> QED BY <1>1, Invariance, PTL

\* schedule() leaves at most one thread RUNNING, keeps the idle thread runnable
\* and switches stack and address space with the thread.
THEOREM SchedulerCorrect ==
    ASSUME BlockingCallsYield
    PROVE  Spec => []SchedOK
<1>1. IInv => SchedOK
  BY DEF IInv
<1> QED BY <1>1, Invariance, PTL

\* The owner of the console is the one thread inside console_read's second loop.
THEOREM ConsoleCorrect == ASSUME BlockingCallsYield PROVE Spec => []ConsoleOwnerInside
<1>1. IInv => ConsoleOwnerInside
  BY DEF IInv
<1> QED BY <1>1, Invariance, PTL

\* A thread get_next_thread may choose has an address space, except in the window
\* of execute_elf between push_new_thread and the store of cr3.
THEOREM SpaceCorrect == ASSUME BlockingCallsYield PROVE Spec => []ReadyHasSpace
<1>1. IInv => ReadyHasSpace
  <2> SUFFICES ASSUME IInv, NEW t \in Tids, state[t] = "READY",
                      proc_cr3[Proc(t)] = NoSpace
               PROVE  t = child[MAIN] /\ pc[MAIN] = "set_cr3"
    BY DEF ReadyHasSpace
  <2> USE Groups, TidFacts, ListedFacts
  <2>1. t \in Listed
    BY DEF ThreadsOK, ListOK
  <2>2. t # IDLE
    BY DEF SchedTypes, SpaceOK, MainOK, Proc
  <2> QED BY <2>1, <2>2 DEF SpaceOK, Proc
<1> QED BY <1>1, Invariance, PTL

\* sys_exit cannot miss a user process that sleeps in sys_waitpid for its child.
THEOREM WaitCorrect == ASSUME BlockingCallsYield PROVE Spec => []NoLostWakeup
<1>1. IInv => NoLostWakeup
  BY TidFacts DEF IInv, WaitOK, SleeperMarked, WaiterMarked, NoLostWakeup
<1> QED BY <1>1, Invariance, PTL

-----------------------------------------------------------------------------
(* The kernel implements ProcessLife.                                      *)

\* The refinement mapping, read off the list, the labels and the arguments.
lifeBar == [t \in Tids |-> IF t \notin Listed THEN "absent"
                           ELSE IF pc[t] = "exited" THEN "dead" ELSE "alive"]

waitsBar == [t \in Tids |-> IF pc[t] = "wait_ret" THEN child[t] ELSE NULL]

\* The abstract life of a process depends on next_tid and pc alone.
LEMMA LifeBar ==
    ASSUME IInv
    PROVE  [t \in Tids |-> CASE state[t] = "NEW"  -> "absent"
                             [] state[t] = "DEAD" -> "dead"
                             [] OTHER             -> "alive"] = lifeBar
BY Groups DEF ThreadsOK, ListOK, DeadOK, lifeBar

\* The same after a step.
LEMMA LifeBarNext ==
    ASSUME IInv'
    PROVE  [t \in Tids |-> CASE state[t] = "NEW"  -> "absent"
                             [] state[t] = "DEAD" -> "dead"
                             [] OTHER             -> "alive"]' = lifeBar'
BY DEF IInv, ListOK, DeadOK, lifeBar

\* A step in which no thread is created, exits, blocks in or returns from
\* sys_waitpid is a stuttering step.
LEMMA LifeStutter ==
    ASSUME Listed' = Listed,
           \A u \in Tids : {pc[u], pc'[u]} \cap {"exited", "wait_ret"} # {}
                               => pc'[u] = pc[u] /\ child'[u] = child[u]
    PROVE  lifeBar' = lifeBar /\ waitsBar' = waitsBar
BY DEF lifeBar, waitsBar

\* One step of the kernel, seen through the mapping.
LifeStep ==
    \/ lifeBar' = lifeBar /\ waitsBar' = waitsBar
    \/ \E p \in Tids :
         \/ /\ lifeBar[p] = "absent"
            /\ lifeBar' = [lifeBar EXCEPT ![p] = "alive"] /\ waitsBar' = waitsBar
         \/ /\ lifeBar[p] = "alive" /\ waitsBar[p] = NULL
            /\ lifeBar' = [lifeBar EXCEPT ![p] = "dead"] /\ waitsBar' = waitsBar
         \/ /\ waitsBar[p] # NULL /\ lifeBar[waitsBar[p]] = "dead"
            /\ waitsBar' = [waitsBar EXCEPT ![p] = NULL] /\ lifeBar' = lifeBar
         \/ \E c \in Tids :
              /\ lifeBar[p] = "alive" /\ waitsBar[p] = NULL /\ lifeBar[c] # "absent"
              /\ waitsBar' = [waitsBar EXCEPT ![p] = c] /\ lifeBar' = lifeBar

\* new_elf_process is ProcessLife's Create.
LEMMA CreateStep ==
    ASSUME IInv, NEW space, new_elf_process(space),
           \A u \in Tids : {pc[u], pc'[u]} \cap {"exited", "wait_ret"} # {}
                               => pc'[u] = pc[u] /\ child'[u] = child[u]
    PROVE  LifeStep
<1>1. /\ next_tid \in Tids /\ next_tid \notin Listed
      /\ Listed' = Listed \cup {next_tid}
  BY Groups, NewListed, TidFacts DEF SchedTypes
<1>2. pc[next_tid] # "exited"
  BY <1>1, Groups DEF ThreadsOK, ListOK, DeadOK
<1>3. waitsBar' = waitsBar
  BY DEF waitsBar
<1>4. lifeBar[next_tid] = "absent" /\ lifeBar' = [lifeBar EXCEPT ![next_tid] = "alive"]
  BY <1>1, <1>2 DEF lifeBar
<1> QED BY <1>1, <1>3, <1>4 DEF LifeStep

\* sys_waitpid's return is ProcessLife's Return: the child is dead.
LEMMA ReturnStep == ASSUME IInv, NEW t \in Tids, WaitReturn(t) PROVE LifeStep
<1> USE Groups, TidFacts DEF WaitReturn, At, Goto, schedVars, waitVars
<1>1. Listed' = Listed
  BY SameListed
<1>2. /\ child[t] \in Listed /\ child[t] \in Tids /\ state[child[t]] = "DEAD"
  <2>1. state[t] # "WAITING"
    BY DEF ThreadsOK, CurrentOK, LabelsOK, UserThreads
  <2> QED BY <2>1, ListedFacts DEF SchedTypes, WaitOK, WokenByDeath
<1>3. waitsBar[t] # NULL /\ lifeBar[waitsBar[t]] = "dead"
  BY <1>2 DEF waitsBar, lifeBar, ThreadsOK, DeadOK
<1>4. waitsBar' = [waitsBar EXCEPT ![t] = NULL] /\ lifeBar' = lifeBar
  BY <1>1 DEF waitsBar, lifeBar, ProcTypes
<1> QED BY <1>3, <1>4 DEF LifeStep

\* sys_waitpid going to sleep is ProcessLife's Block.
LEMMA BlockStep ==
    ASSUME IInv, NEW t \in Tids \ {IDLE}, current_thread = t,
           pc[t] \notin {"exited", "wait_ret"}, Goto(t, "wait_ret"),
           NEW c \in Listed, child'[t] = c,
           \A u \in Tids \ {t} : child'[u] = child[u], UNCHANGED next_tid
    PROVE  LifeStep
<1> USE Groups, TidFacts
<1>1. Listed' = Listed /\ c \in Tids /\ t \in Listed
  BY SameListed, ListedFacts DEF SchedTypes
<1>2. lifeBar[t] = "alive" /\ waitsBar[t] = NULL /\ lifeBar[c] # "absent"
  BY <1>1 DEF lifeBar, waitsBar
<1>3. waitsBar' = [waitsBar EXCEPT ![t] = c] /\ lifeBar' = lifeBar
  BY <1>1 DEF waitsBar, lifeBar, ProcTypes, Goto
<1> QED BY <1>1, <1>2, <1>3 DEF LifeStep

\* sys_exit is ProcessLife's Exit.
LEMMA ExitStep == ASSUME IInv, NEW t \in UserThreads, sys_exit(t) PROVE LifeStep
<1> USE Groups, TidFacts
<1>1. /\ current_thread = t /\ pc[t] = "user" /\ Goto(t, "exited")
      /\ UNCHANGED child /\ UNCHANGED next_tid
  BY DEF sys_exit, At, yieldUnchanged
<1>2. Listed' = Listed /\ t \in Listed
  BY <1>1, SameListed DEF SchedTypes
<1>3. lifeBar[t] = "alive" /\ waitsBar[t] = NULL
  BY <1>1, <1>2 DEF lifeBar, waitsBar
<1>4. pc'[t] = "exited" /\ \A u \in Tids \ {t} : pc'[u] = pc[u]
  BY <1>1 DEF ProcTypes, Goto
<1>5. waitsBar' = waitsBar
  BY <1>1, <1>4 DEF waitsBar
<1>6. lifeBar' = [lifeBar EXCEPT ![t] = "dead"]
  BY <1>2, <1>4 DEF lifeBar
<1> QED BY <1>3, <1>5, <1>6 DEF LifeStep

\* The steps that leave all processes as they are.
LEMMA QuietStep ==
    ASSUME IInv, UNCHANGED <<next_tid, child>>,
           \A u \in Tids : {pc[u], pc'[u]} \cap {"exited", "wait_ret"} # {} => pc'[u] = pc[u]
    PROVE  LifeStep
BY SameListed, LifeStutter DEF LifeStep

\* Interrupts and idle_loop stutter.
LEMMA InterruptStep ==
    ASSUME IInv, LeaveHlt \/ UNCHANGED pc, UNCHANGED <<next_tid, child>>
    PROVE  LifeStep
<1>1. \A u \in Tids : {pc[u], pc'[u]} \cap {"exited", "wait_ret"} # {} => pc'[u] = pc[u]
  BY HltFacts, Groups DEF ThreadsOK, LabelsOK
<1> QED BY <1>1, QuietStep

\* A step of thread t between two labels outside "exited" and "wait_ret".
LEMMA LocalStep ==
    ASSUME IInv, NEW t \in Tids, NEW l, Goto(t, l),
           {pc[t], l} \cap {"exited", "wait_ret"} = {}, UNCHANGED <<next_tid, child>>
    PROVE  LifeStep
<1>1. \A u \in Tids : {pc[u], pc'[u]} \cap {"exited", "wait_ret"} # {} => pc'[u] = pc[u]
  BY Groups DEF Goto, ProcTypes
<1> QED BY <1>1, QuietStep

\* Every step of kmain is a step of ProcessLife, or stutters.
LEMMA KmainStep == ASSUME IInv, kmain PROVE LifeStep
<1> USE Groups, TidFacts DEF At, schedVars, waitVars, yieldUnchanged
<1>1. CASE Launch
  <2>1. \A u \in Tids : {pc[u], pc'[u]} \cap {"exited", "wait_ret"} # {}
                            => pc'[u] = pc[u] /\ child'[u] = child[u]
    BY <1>1 DEF Launch, Goto, ProcTypes
  <2>2. CASE new_elf_process(NoSpace)
    BY <2>1, <2>2, CreateStep
  <2>3. CASE UNCHANGED schedVars
    BY <2>1, <2>3, SameListed, LifeStutter DEF LifeStep
  <2> QED BY <1>1, <2>2, <2>3 DEF Launch
<1>2. CASE SetCr3 \/ SetParent \/ WaitMark \/ WaitBlock
  BY <1>2, LocalStep DEF SetCr3, SetParent, WaitMark, WaitBlock
<1>3. CASE WaitCheck
  BY <1>3, LocalStep DEF WaitCheck
<1>4. CASE SleepMark \/ SleepPush \/ SleepYield \/ Reboot
  BY <1>4, LocalStep DEF SleepMark, SleepPush, SleepYield, Reboot
<1>5. CASE WaitYield
  BY <1>5, BlockStep DEF WaitYield, MainOK
<1>6. CASE WaitReturn(MAIN)
  BY <1>6, ReturnStep
<1> QED BY <1>1, <1>2, <1>3, <1>4, <1>5, <1>6 DEF kmain

\* Every step of a user thread is a step of ProcessLife, or stutters.
LEMMA UserStep == ASSUME IInv, NEW t \in UserThreads, user(t) PROVE LifeStep
<1> USE Groups, TidFacts DEF At, schedVars, waitVars, yieldUnchanged
<1>1. CASE sys_exec(t)
  BY <1>1, CreateStep DEF sys_exec
<1>2. CASE sys_exit(t)
  BY <1>2, ExitStep
<1>3. CASE sys_yield(t)
  BY <1>3, QuietStep DEF sys_yield, pit_interrupt
<1>4. CASE WaitReturn(t)
  BY <1>4, ReturnStep
<1>5. ASSUME NEW c \in Listed \ {IDLE}, sys_waitpid(t, c) PROVE LifeStep
  <2>1. CASE state[c] = "DEAD"
    BY <1>5, <2>1, QuietStep DEF sys_waitpid, vars
  <2>2. CASE state[c] # "DEAD"
    <3>1. /\ current_thread = t /\ pc[t] = "user" /\ Goto(t, "wait_ret")
          /\ child' = [child EXCEPT ![t] = c] /\ UNCHANGED next_tid
      BY <1>5, <2>2 DEF sys_waitpid
    <3>2. child'[t] = c /\ \A u \in Tids \ {t} : child'[u] = child[u]
      BY <3>1 DEF ProcTypes
    <3> QED BY <3>1, <3>2, BlockStep
  <2> QED BY <2>1, <2>2
<1>6. CASE console_read(t) \/ ReadResume(t)
  <2>1. pc[t] \notin {"exited", "wait_ret"} /\ UNCHANGED <<next_tid, child>>
    BY <1>6 DEF console_read, ReadResume, ReadChar, BlockOnConsole
  <2>2. Goto(t, "read_own") \/ Goto(t, "read_char") \/ Goto(t, "user")
    BY <1>6 DEF console_read, ReadResume, ReadChar, BlockOnConsole
  <2> QED BY <2>1, <2>2, LocalStep
<1> QED BY <1>1, <1>2, <1>3, <1>4, <1>5, <1>6 DEF user

\* Every step is a step of ProcessLife, or stutters.
LEMMA NextStep == ASSUME IInv, [Next]_vars PROVE LifeStep
<1> USE DEF vars, schedVars, waitVars, yieldUnchanged
<1>1. CASE UNCHANGED vars
  BY <1>1, InterruptStep
<1>2. CASE KeyboardInterrupt
  <2>1. LeaveHlt /\ UNCHANGED <<next_tid, child>>
    BY <1>2 DEF KeyboardInterrupt, HandleChar
  <2> QED BY <2>1, InterruptStep
<1>3. CASE KeyboardResume \/ KeyboardEOI
  BY <1>3, InterruptStep DEF KeyboardResume, KeyboardEOI, HandleChar
<1>4. CASE TimerInterrupt
  BY <1>4, InterruptStep DEF TimerInterrupt, pit_interrupt
<1>5. CASE IdleYield
  BY <1>5, TidFacts, LocalStep DEF IdleYield, At
<1>6. CASE kmain
  BY <1>6, KmainStep
<1>7. CASE \E t \in UserThreads : user(t)
  BY <1>7, UserStep
<1>8. CASE KeyInsideSchedule
  <2>1. current_thread \in Tids
    BY Groups, ListedFacts DEF SchedTypes
  <2> QED BY <1>8, <2>1, LocalStep DEF KeyInsideSchedule
<1> QED BY <1>1, <1>2, <1>3, <1>4, <1>5, <1>6, <1>7, <1>8 DEF Next

\* Every behaviour of the kernel is one of ProcessLife: a dead process stays dead
\* and sys_waitpid returns only for a dead one.
THEOREM Refinement == ASSUME BlockingCallsYield PROVE Spec => ImplementsProcessLife
<1>1. Init => Life!Init
  <2> SUFFICES ASSUME Init PROVE Life!Init
    OBVIOUS
  <2> QED BY DEF Init, SchedInit, Life!Init
<1>2. IInv /\ IInv' /\ [Next]_vars => [Life!Next]_(Life!lifeVars)
  <2> SUFFICES ASSUME IInv, IInv', [Next]_vars
               PROVE  [Life!Next]_(Life!lifeVars)
    OBVIOUS
  <2>1. LifeStep
    BY NextStep
  <2> QED BY <2>1, LifeBar, LifeBarNext
          DEF LifeStep, waitsBar, Life!Next, Life!Create, Life!Exit, Life!Return,
              Life!Block, Life!lifeVars
<1> QED BY <1>1, <1>2, Invariance, PTL DEF Spec, ImplementsProcessLife, Life!Spec

-----------------------------------------------------------------------------
(* The owner of the console and the characters in the buffer.              *)

\* No key yields a NUL character.
KeysYieldNoNul == Keys \subseteq Seq({"char"})

InputPlain == kdb_queue \in Seq({"char"}) /\ todo \in [Tids -> Seq({"char"})]

ReadersOnChannel ==
    \A t \in Tids : state[t] = "WAITING" /\ pc[t] \in ReadLabels => t \in block_channel

\* A thread blocked in console_read is on the channel, so a key that does not wake
\* the owner wakes a newer reader.
OwnerInv ==
    /\ InputPlain
    /\ ReadersOnChannel
    /\ OwnerMissesKeyOnlyWithRival

\* A step that leaves console_read alone.
LEMMA OwnerFrame ==
    ASSUME IInv, OwnerInv, UNCHANGED consoleVars, UNCHANGED todo,
           \A t \in Tids : pc[t] \in ReadLabels \/ pc'[t] \in ReadLabels => pc'[t] = pc[t],
           \A t \in Tids : pc[t] \in ReadLabels /\ state'[t] = "WAITING" => state[t] = "WAITING"
    PROVE  OwnerInv'
<1>1. \A t \in Tids : console_read_owner = t => pc[t] = "read_char"
  BY Groups DEF ConsoleOK, ConsoleOwnerInside
<1>2. \A t \in Tids : state'[t] = "WAITING" /\ pc'[t] \in ReadLabels
                         => state[t] = "WAITING" /\ pc[t] \in ReadLabels
  OBVIOUS
<1>3. \A t \in Tids : pc[t] = "read_own" => pc'[t] = "read_own"
  BY DEF ReadLabels
<1>4. \A t \in Tids : console_read_owner = t /\ state'[t] = "WAITING" => state[t] = "WAITING"
  BY <1>1 DEF ReadLabels
<1>5. InputPlain'
  BY DEF OwnerInv, InputPlain, consoleVars
<1>6. ReadersOnChannel'
  BY <1>2 DEF OwnerInv, ReadersOnChannel, consoleVars
<1>7. OwnerMissesKeyOnlyWithRival'
  BY <1>3, <1>4 DEF OwnerInv, OwnerMissesKeyOnlyWithRival, consoleVars
<1> QED BY <1>5, <1>6, <1>7 DEF OwnerInv

\* A step of thread t outside console_read.
LEMMA OwnerLocal ==
    ASSUME IInv, OwnerInv, UNCHANGED consoleVars, UNCHANGED todo,
           NEW t \in Tids, NEW l, Goto(t, l), {pc[t], l} \cap ReadLabels = {},
           \A u \in Tids \ {t} : state'[u] = "WAITING" => state[u] = "WAITING"
    PROVE  OwnerInv'
<1>1. \A u \in Tids : pc'[u] = IF u = t THEN l ELSE pc[u]
  BY Frames DEF Goto
<1> QED BY <1>1, OwnerFrame

\* kernel_yield blocks nobody.
LEMMA YieldsBlock ==
    ASSUME IInv, NEW st, YieldsWith(st), NEW t \in Tids, state'[t] = "WAITING"
    PROVE  st[t] = "WAITING"
BY YieldsFacts DEF Runnable

\* A character arrives: it wakes the owner, or else a newer thread that is on the
\* channel and waits for the console.
LEMMA OwnerHandleChar ==
    ASSUME IInv, OwnerInv, NEW chars \in Seq({"char"}), chars # <<>>, HandleChar(chars),
           \A t \in Tids : pc[t] \in ReadLabels \/ pc'[t] \in ReadLabels => pc'[t] = pc[t]
    PROVE  OwnerInv'
<1>1. /\ kdb_queue' = IF Len(kdb_queue) < KDB_BUFFER_SIZE
                      THEN Append(kdb_queue, Head(chars)) ELSE kdb_queue
      /\ block_channel' = block_channel \ FirstWaiter
      /\ todo' = [todo EXCEPT ![current_thread] = Tail(chars)]
      /\ UNCHANGED console_read_owner
  BY DEF HandleChar, append_to_input_buffer
<1>2. kdb_queue' \in Seq({"char"})
  <2>1. Head(chars) \in {"char"} /\ kdb_queue \in Seq({"char"})
    BY DEF OwnerInv, InputPlain
  <2>2. Append(kdb_queue, Head(chars)) \in Seq({"char"})
    BY ONLY <2>1
  <2> QED BY <1>1, <2>1, <2>2
<1>3. todo' \in [Tids -> Seq({"char"})]
  <2>1. Tail(chars) \in Seq({"char"})
    OBVIOUS
  <2> DEFINE Plain == Seq({"char"})
  <2>2. todo \in [Tids -> Plain]
    BY DEF OwnerInv, InputPlain
  <2> HIDE DEF Plain
  <2>3. [todo EXCEPT ![current_thread] = Tail(chars)] \in [Tids -> Plain]
    BY <2>1, <2>2 DEF Plain
  <2> QED BY <1>1, <2>3 DEF Plain
<1>4. \A t \in Tids : state'[t] = "WAITING" => state[t] = "WAITING" /\ t \notin FirstWaiter
  <2>1. \A t \in Tids : state'[t] = "WAITING" => Notified[t] = "WAITING"
    BY HandleCharYields, YieldsBlock
  <2> QED BY <2>1 DEF Notified
<1>5. ASSUME NEW t \in Tids, state'[t] = "WAITING", pc'[t] \in ReadLabels
      PROVE  t \in block_channel'
  BY <1>1, <1>4, <1>5 DEF OwnerInv, ReadersOnChannel
<1>6. ASSUME NEW t \in Tids, console_read_owner = t, state'[t] = "WAITING"
      PROVE  \E r \in Tids : r > t /\ pc'[r] = "read_own"
  <2>1. pc[t] = "read_char" /\ state[t] = "WAITING" /\ t \notin FirstWaiter
    BY <1>4, <1>6, Groups DEF ConsoleOK, ConsoleOwnerInside
  <2>2. t \in block_channel
    BY <2>1 DEF OwnerInv, ReadersOnChannel, ReadLabels
  <2>3. t \in Listed
    BY <2>1, Groups DEF ThreadsOK, ListOK
  <2>4. t \in ConsoleWaiters
    BY <2>1, <2>2, <2>3 DEF ConsoleWaiters
  <2>5. PICK r \in ConsoleWaiters : ~(r <= t)
    BY <2>1, <2>4 DEF FirstWaiter
  <2>6. r \in Tids /\ r \in Int /\ t \in Int /\ pc[r] \in {"read_own", "read_char"}
    BY WaiterFacts, TidFacts
  <2>7. r > t /\ r # t
    BY <2>5, <2>6
  <2>8. pc[r] # "read_char"
    BY <1>6, <2>6, <2>7, Groups DEF ConsoleOK, ConsoleOwnerInside
  <2>9. pc'[r] = "read_own"
    BY <2>6, <2>8 DEF ReadLabels
  <2> QED BY <2>6, <2>7, <2>9
<1>7. OwnerMissesKeyOnlyWithRival'
  BY <1>1, <1>6 DEF OwnerMissesKeyOnlyWithRival
<1> QED BY <1>2, <1>3, <1>5, <1>7 DEF OwnerInv, InputPlain, ReadersOnChannel

\* The steps of the interrupt handlers.
LEMMA OwnerInterrupts ==
    ASSUME IInv, OwnerInv, KeysYieldNoNul,
           \/ KeyboardInterrupt \/ KeyboardResume \/ KeyboardEOI \/ KeyInsideSchedule
           \/ TimerInterrupt
    PROVE  OwnerInv'
<1>0. /\ IDLE \in Tids /\ current_thread \in Tids /\ pc \in [Tids -> Labels]
      /\ pc[IDLE] \notin ReadLabels
  BY Frames, Groups DEF ThreadsOK, LabelsOK, ReadLabels
<1>a. ASSUME LeaveHlt
      PROVE  \A t \in Tids : pc[t] \in ReadLabels \/ pc'[t] \in ReadLabels => pc'[t] = pc[t]
  BY <1>0, <1>a DEF LeaveHlt, ReadLabels
<1>1. CASE KeyboardInterrupt
  <2>1. PICK chars \in Keys :
          IF chars = <<>>
          THEN UNCHANGED <<schedVars, irqVars, consoleVars, waitVars, sleepVars>>
          ELSE HandleChar(chars)
    BY <1>1 DEF KeyboardInterrupt
  <2>2. LeaveHlt /\ chars \in Seq({"char"})
    BY <1>1 DEF KeyboardInterrupt, KeysYieldNoNul
  <2>3. CASE chars = <<>>
    BY <1>a, <2>1, <2>2, <2>3, OwnerFrame DEF schedVars, irqVars
  <2>4. CASE chars # <<>>
    BY <1>a, <2>1, <2>2, <2>4, OwnerHandleChar
  <2> QED BY <2>3, <2>4
<1>2. CASE KeyboardResume
  <2>1. /\ todo[current_thread] \in Seq({"char"}) /\ todo[current_thread] # <<>>
        /\ HandleChar(todo[current_thread]) /\ UNCHANGED pc
    BY <1>0, <1>2 DEF KeyboardResume, OwnerInv, InputPlain
  <2> QED BY <2>1, OwnerHandleChar
<1>3. CASE KeyboardEOI
  BY <1>3, OwnerFrame DEF KeyboardEOI, schedVars
<1>4. CASE KeyInsideSchedule
  BY <1>0, <1>4, OwnerLocal DEF KeyInsideSchedule, schedVars, irqVars, ReadLabels
<1>5. CASE TimerInterrupt
  <2>1. LeaveHlt /\ pit_interrupt /\ UNCHANGED <<consoleVars, todo>>
    BY <1>5 DEF TimerInterrupt, pit_interrupt
  <2>2. \A t \in Tids : state'[t] = "WAITING" => state[t] = "WAITING"
    BY <2>1, PitWakes
  <2> QED BY <1>a, <2>1, <2>2, OwnerFrame
<1> QED BY <1>1, <1>2, <1>3, <1>4, <1>5

\* A thread blocks in console_read: behind the owner, or as the owner over an empty
\* buffer.
LEMMA OwnerBlock ==
    ASSUME IInv, OwnerInv, NEW t \in UserThreads, NEW l \in ReadLabels, BlockOnConsole(t, l),
           UNCHANGED todo, UNCHANGED kdb_queue,
           \/ kdb_queue = <<>>
           \/ console_read_owner # t /\ UNCHANGED console_read_owner /\ l = "read_own"
    PROVE  OwnerInv'
<1>1. /\ block_channel' = block_channel \cup {t}
      /\ kernel_yield("console", [state EXCEPT ![t] = "WAITING"])
      /\ UNCHANGED yieldUnchanged /\ Goto(t, l)
  BY DEF BlockOnConsole, yieldUnchanged
<1>2. t \in Tids /\ pc \in [Tids -> Labels] /\ state \in [Tids -> States]
  BY Frames
<1>3. \A u \in Tids : pc'[u] = IF u = t THEN l ELSE pc[u]
  BY <1>1, <1>2 DEF Goto
<1>4. \A u \in Tids \ {t} : state'[u] = "WAITING" => state[u] = "WAITING"
  <2> DEFINE blocked == [state EXCEPT ![t] = "WAITING"]
  <2>1. YieldsWith(blocked) /\ \A u \in Tids \ {t} : blocked[u] = state[u]
    BY <1>1, <1>2, BlockYields DEF Sites
  <2> HIDE DEF blocked
  <2> QED BY <2>1, YieldsBlock
<1>5. \A u \in Tids : state'[u] = "WAITING" /\ pc'[u] \in ReadLabels => u \in block_channel'
  BY <1>1, <1>3, <1>4 DEF OwnerInv, ReadersOnChannel
<1>6. OwnerMissesKeyOnlyWithRival'
  <2>1. CASE kdb_queue = <<>>
    BY <2>1 DEF OwnerMissesKeyOnlyWithRival
  <2>2. CASE console_read_owner # t /\ UNCHANGED console_read_owner /\ l = "read_own"
    BY <1>3, <1>4, <2>2 DEF OwnerInv, OwnerMissesKeyOnlyWithRival
  <2> QED BY <2>1, <2>2
<1>7. InputPlain'
  BY <1>1 DEF OwnerInv, InputPlain
<1> QED BY <1>5, <1>6, <1>7 DEF OwnerInv, ReadersOnChannel

\* One turn of console_read's second loop.
LEMMA OwnerReadChar ==
    ASSUME IInv, OwnerInv, NEW t \in UserThreads, NEW owner, ReadChar(t, owner), UNCHANGED todo
    PROVE  OwnerInv'
<1>0. t \in Tids /\ pc \in [Tids -> Labels] /\ NULL \notin Tids
  BY Frames, TidFacts
<1>1. CASE kdb_queue = <<>>
  <2>1. BlockOnConsole(t, "read_char") /\ UNCHANGED kdb_queue
    BY <1>1 DEF ReadChar
  <2> QED BY <1>1, <2>1, OwnerBlock DEF ReadLabels
<1>2. CASE kdb_queue # <<>>
  <2>1. kdb_queue \in Seq({"char"}) /\ Head(kdb_queue) # NUL
    BY <1>2 DEF OwnerInv, InputPlain, NUL
  <2>2. /\ kdb_queue' = Tail(kdb_queue) /\ console_read_owner' = NULL
        /\ block_channel' = block_channel \ ConsoleWaiters /\ Goto(t, "user")
        /\ state' = [u \in Tids |-> IF u \in ConsoleWaiters THEN "READY" ELSE state[u]]
    BY <1>2, <2>1 DEF ReadChar
  <2>3. kdb_queue' \in Seq({"char"})
    BY <1>2, <2>1, <2>2
  <2>4. \A u \in Tids : pc'[u] = IF u = t THEN "user" ELSE pc[u]
    BY <1>0, <2>2 DEF Goto
  <2>5. \A u \in Tids : state'[u] = "WAITING" => state[u] = "WAITING" /\ u \notin ConsoleWaiters
    BY <2>2
  <2>6. \A u \in Tids : state'[u] = "WAITING" /\ pc'[u] \in ReadLabels => u \in block_channel'
    BY <2>2, <2>4, <2>5 DEF OwnerInv, ReadersOnChannel, ReadLabels
  <2>7. OwnerMissesKeyOnlyWithRival'
    BY <1>0, <2>2 DEF OwnerMissesKeyOnlyWithRival
  <2> QED BY <2>3, <2>6, <2>7 DEF OwnerInv, InputPlain, ReadersOnChannel
<1> QED BY <1>1, <1>2

\* A step outside console_read that leaves the devices alone.
LEMMA OwnerQuiet ==
    ASSUME IInv, OwnerInv, NEW t \in Tids, QuietFor(t), UNCHANGED consoleVars,
           {pc[t], pc'[t]} \cap ReadLabels = {}
    PROVE  OwnerInv'
<1>1. PICK l : Goto(t, l)
  BY DEF QuietFor
<1>2. pc'[t] = l
  BY <1>1, Frames DEF Goto
<1>3. \A u \in Tids \ {t} : state'[u] = "WAITING" => state[u] = "WAITING"
  BY DEF QuietFor, Runnable
<1>4. UNCHANGED todo
  BY DEF QuietFor, irqVars
<1> QED BY <1>1, <1>2, <1>3, <1>4, OwnerLocal

\* The system calls of a user thread.
LEMMA OwnerUser ==
    ASSUME IInv, OwnerInv, NEW t \in UserThreads, user(t)
    PROVE  OwnerInv'
<1>0. t \in Tids /\ t # MAIN /\ pc \in [Tids -> Labels] /\ (QuietFor(t) \/ sys_yield(t))
  BY Frames, UserQuiet
<1>1. CASE sys_yield(t)
  <2>1. UNCHANGED <<pc, todo, consoleVars>> /\ pit_interrupt
    BY <1>1 DEF sys_yield, pit_interrupt
  <2>2. \A u \in Tids : state'[u] = "WAITING" => state[u] = "WAITING"
    BY <2>1, PitWakes
  <2> QED BY <2>1, <2>2, OwnerFrame
<1>2. CASE sys_exec(t) \/ sys_exit(t) \/ WaitReturn(t) \/ \E c \in Listed \ {IDLE} : sys_waitpid(t, c)
  <2>1. UNCHANGED consoleVars
    BY <1>2 DEF sys_exec, sys_exit, WaitReturn, sys_waitpid, vars
  <2>2. {pc[t], pc'[t]} \cap ReadLabels = {}
    <3>1. pc[t] \in {"user", "wait_ret"}
      BY <1>2 DEF sys_exec, sys_exit, WaitReturn, sys_waitpid, At
    <3>2. UNCHANGED pc \/ \E l \in {"user", "exited", "wait_ret"} : Goto(t, l)
      BY <1>0, <1>2 DEF sys_exec, sys_exit, WaitReturn, sys_waitpid, vars
    <3>3. pc'[t] \in {"user", "exited", "wait_ret"}
      BY <1>0, <3>1, <3>2 DEF Goto
    <3> QED BY <3>1, <3>3 DEF ReadLabels
  <2> QED BY <1>0, <1>2, <1>1, <2>1, <2>2, OwnerQuiet
<1>3. CASE console_read(t)
  <2>1. UNCHANGED todo
    BY <1>3 DEF console_read, irqVars
  <2>2. CASE console_read_owner \notin {NULL, t}
    <3>1. BlockOnConsole(t, "read_own") /\ UNCHANGED <<console_read_owner, kdb_queue>>
      BY <1>3, <2>2 DEF console_read
    <3> QED BY <2>1, <2>2, <3>1, OwnerBlock DEF ReadLabels
  <2>3. CASE console_read_owner \in {NULL, t}
    <3>1. ReadChar(t, t)
      BY <1>3, <2>3 DEF console_read
    <3> QED BY <2>1, <3>1, OwnerReadChar
  <2> QED BY <2>2, <2>3
<1>4. CASE ReadResume(t)
  BY <1>4, OwnerReadChar DEF ReadResume, irqVars
<1> QED BY <1>1, <1>2, <1>3, <1>4 DEF user

\* kmain reads no characters.
LEMMA OwnerKmain == ASSUME IInv, OwnerInv, kmain PROVE OwnerInv'
<1>1. MAIN \in Tids /\ pc[MAIN] \notin ReadLabels
  BY TidFacts, Groups DEF ThreadsOK, LabelsOK, MainLabels, ReadLabels
<1>2. PICK l \in Labels \ ReadLabels : Goto(MAIN, l)
  BY KmainFacts
<1>3. /\ UNCHANGED <<todo, consoleVars>>
      /\ \A u \in Tids \ {MAIN} : state'[u] = "WAITING" => state[u] = "WAITING"
  BY KmainFacts DEF irqVars, Runnable
<1> QED BY <1>1, <1>2, <1>3, OwnerLocal

\* Every step keeps what is known of the console's owner.
LEMMA OwnerNext ==
    ASSUME IInv, OwnerInv, KeysYieldNoNul, [Next]_vars
    PROVE  OwnerInv'
<1>1. CASE UNCHANGED vars
  BY <1>1, OwnerFrame DEF vars, schedVars, irqVars
<1>2. CASE IdleYield
  <2>1. UNCHANGED consoleVars /\ Goto(IDLE, "hlt") /\ pc[IDLE] = "idle_yield"
    BY <1>2 DEF IdleYield, At
  <2>2. {pc[IDLE], pc'[IDLE]} \cap ReadLabels = {}
    BY <2>1, Frames DEF Goto, ReadLabels
  <2> QED BY <1>2, <2>1, <2>2, TidFacts, IdleQuiet, OwnerQuiet
<1> QED BY <1>1, <1>2, OwnerInterrupts, OwnerKmain, OwnerUser DEF Next

\* No key has been pressed and no thread reads when the kernel starts.
LEMMA OwnerInit == ASSUME Init PROVE OwnerInv
<1>1. /\ kdb_queue = <<>> /\ todo = [t \in Tids |-> <<>>]
      /\ \A t \in Tids : state[t] # "WAITING"
  BY DEF Init, SchedInit
<1>2. <<>> \in Seq({"char"})
  OBVIOUS
<1> QED BY <1>1, <1>2 DEF OwnerInv, InputPlain, ReadersOnChannel, OwnerMissesKeyOnlyWithRival

-----------------------------------------------------------------------------
\* A position inside the list, or one turn further, is that position.
LEMMA ModTurn ==
    ASSUME NEW n \in Nat, n > 0, NEW i \in 0 .. (n - 1)
    PROVE  i % n = i /\ (i + n) % n = i
<1>1. i % n = i
  OBVIOUS
<1>2. (i + n) % n = i
  OBVIOUS
<1> QED BY <1>1, <1>2

\* The round robin looks at every thread of the list.
LEMMA RRCovers ==
    ASSUME next_tid \in 2 .. MaxThreads, next_id \in 0 .. MaxThreads, NEW t \in Listed
    PROVE  \E j \in 0 .. (next_tid - 1) : t = list_get_at(RRPosition(j))
<1> DEFINE start == IF next_id >= next_tid THEN 0 ELSE next_id
           i == next_tid - 1 - t
<1>1. /\ start \in 0 .. (next_tid - 1) /\ i \in 0 .. (next_tid - 1)
      /\ next_tid \in Nat /\ next_tid > 0 /\ t = next_tid - 1 - i
  BY SchedulerAssumption DEF Listed
<1>2. \A j : RRPosition(j) = (start + j) % next_tid
  BY DEF RRPosition
<1> HIDE DEF start, i
<1>3. CASE i >= start
  <2>1. start + (i - start) = i /\ i - start \in 0 .. (next_tid - 1)
    BY <1>1, <1>3
  <2>2. RRPosition(i - start) = i
    BY <1>1, <1>2, <2>1, ModTurn
  <2> QED BY <1>1, <2>1, <2>2 DEF list_get_at
<1>4. CASE i < start
  <2>1. start + (i + next_tid - start) = i + next_tid /\ i + next_tid - start \in 0 .. (next_tid - 1)
    BY <1>1, <1>4
  <2>2. RRPosition(i + next_tid - start) = i
    BY <1>1, <1>2, <2>1, ModTurn
  <2> QED BY <1>1, <2>1, <2>2 DEF list_get_at
<1> QED BY <1>1, <1>3, <1>4

\* The round robin hands the processor to the idle thread only when it has found no
\* other thread READY.
LEMMA RRIdle ==
    ASSUME IInv, SCH_ALG = "RR", NEW st, YieldsWith(st), current_thread # IDLE,
           current_thread' = IDLE, NEW t \in Listed \ {IDLE}
    PROVE  st[t] # "READY"
<1>1. next_tid \in 2 .. MaxThreads /\ next_id \in 0 .. MaxThreads
  BY Groups DEF SchedTypes
<1>2. PICK n \in Listed \cup {NULL} :
        /\ get_next_thread_rr(st, n)
        /\ IF n # NULL THEN SwitchTo(st, n)
           ELSE IF current_thread = IDLE \/ next_tid = 2
           THEN KeepRunning(st) ELSE SwitchTo(st, IDLE)
  <2>1. ~KeepRunning(st)
    BY DEF KeepRunning
  <2> QED BY <2>1 DEF YieldsWith, kernel_yield, schedule, get_next_thread
<1>3. n \in {NULL, IDLE}
  BY <1>2 DEF SwitchTo
<1>4. PICK k \in RRSkips(st) :
        IF k = next_tid THEN n = NULL ELSE n = list_get_at(RRPosition(k))
  BY <1>2 DEF get_next_thread_rr
<1>5. k \in 0 .. next_tid
  BY <1>4 DEF RRSkips
<1>6. k = next_tid
  <2> SUFFICES ASSUME k # next_tid PROVE FALSE
    OBVIOUS
  <2>1. k < next_tid
    BY <1>1, <1>5
  <2>2. list_get_at(RRPosition(k)) # IDLE
    BY <1>4, <2>1 DEF RRSkips
  <2>3. RRPosition(k) \in 0 .. (next_tid - 1)
    BY <1>1, <1>5, SchedulerAssumption DEF RRPosition
  <2>4. list_get_at(RRPosition(k)) # NULL
    BY <1>1, <2>3 DEF list_get_at, NULL
  <2> QED BY <1>3, <1>4, <2>2, <2>4
<1>7. \A j \in 0 .. (next_tid - 1) :
        list_get_at(RRPosition(j)) = IDLE \/ st[list_get_at(RRPosition(j))] # "READY"
  BY <1>4, <1>6 DEF RRSkips
<1> QED BY <1>1, <1>7, RRCovers

\* What a step may do to the thread on the processor: leave it there, or yield.
KeepsOrYields == UNCHANGED current_thread \/ \E st : YieldsWith(st)

\* Only kernel_yield changes the thread on the processor.
LEMMA OnlyYieldSwitches == ASSUME IInv, [Next]_vars PROVE KeepsOrYields
<1> USE DEF schedVars
<1>0. ASSUME NEW chars, HandleChar(chars) PROVE KeepsOrYields
  BY <1>0, HandleCharYields DEF KeepsOrYields
<1>1. CASE UNCHANGED vars \/ KeyboardInterrupt \/ KeyboardResume \/ KeyboardEOI \/ KeyInsideSchedule
           \/ TimerInterrupt
  BY <1>0, <1>1 DEF vars, KeyboardInterrupt, KeyboardResume, KeyboardEOI, KeyInsideSchedule,
                    TimerInterrupt, pit_interrupt, KeepsOrYields
<1>2. CASE IdleYield \/ WaitYield \/ SleepYield
  BY <1>2, PlainYields DEF IdleYield, WaitYield, SleepYield, Sites, KeepsOrYields
<1>3. CASE kmain /\ ~WaitYield /\ ~SleepYield
  BY <1>3 DEF kmain, Launch, new_elf_process, SetCr3, SetParent, WaitCheck, WaitMark, WaitBlock,
              WaitReturn, SleepMark, SleepPush, Reboot, KeepsOrYields
<1>4. ASSUME NEW t \in UserThreads, user(t) PROVE KeepsOrYields
  <2>0. ASSUME NEW site \in Sites, kernel_yield(site, [state EXCEPT ![t] = "WAITING"]),
               UNCHANGED yieldUnchanged
        PROVE  KeepsOrYields
    BY <2>0, BlockYields DEF KeepsOrYields
  <2>1. CASE sys_exec(t) \/ sys_yield(t) \/ WaitReturn(t)
    BY <2>1 DEF sys_exec, new_elf_process, sys_yield, pit_interrupt, WaitReturn, KeepsOrYields
  <2>2. CASE sys_exit(t)
    BY <2>2, ExitYields DEF KeepsOrYields
  <2>3. CASE \E c \in Listed \ {IDLE} : sys_waitpid(t, c)
    <3>1. UNCHANGED vars \/ /\ kernel_yield("waitpid", [state EXCEPT ![t] = "WAITING"])
                            /\ UNCHANGED yieldUnchanged
      BY <2>3 DEF sys_waitpid
    <3> QED BY <2>0, <3>1 DEF Sites, vars, KeepsOrYields
  <2>4. CASE console_read(t) \/ ReadResume(t)
    <3>1. ASSUME NEW l, BlockOnConsole(t, l) PROVE KeepsOrYields
      BY <2>0, <3>1 DEF BlockOnConsole, yieldUnchanged, Sites
    <3> QED BY <2>4, <3>1 DEF console_read, ReadResume, ReadChar, KeepsOrYields
  <2> QED BY <1>4, <2>1, <2>2, <2>3, <2>4 DEF user
<1> QED BY <1>1, <1>2, <1>3, <1>4 DEF Next, kmain

\* Under the round robin.
LEMMA RRStep ==
    ASSUME IInv, IInv', SCH_ALG = "RR", [Next]_vars, current_thread # IDLE,
           current_thread' = IDLE, NEW t \in Tids \ {IDLE, current_thread}
    PROVE  state'[t] # "READY"
<1>1. PICK st : YieldsWith(st)
  BY OnlyYieldSwitches DEF KeepsOrYields
<1>2. Listed' = Listed
  BY <1>1, YieldsFacts
<1>3. CASE t \notin Listed
  BY <1>2, <1>3 DEF IInv, ListOK
<1>4. CASE t \in Listed
  <2>1. st[t] # "READY"
    BY <1>1, <1>4, RRIdle
  <2>2. st[t] # "RUNNING"
    BY <1>1, Groups DEF YieldsWith, SchedOK, OnlyCurrentRuns
  <2> QED BY <1>1, <2>1, <2>2, YieldsFacts DEF Runnable
<1> QED BY <1>3, <1>4

-----------------------------------------------------------------------------
(* The theorems about devices and the round robin.                         *)

\* update_sleeping_queue only ever wakes a sleeper: kmain has an entry in the delta
\* queue exactly while it sleeps, but for the window before list_push.
THEOREM SleepCorrect ==
    ASSUME BlockingCallsYield, SleepYields
    PROVE  Spec => []SleepingQueueExact
<1>1. Init => SleepInv
  BY SleepInit
<1>2. IInv /\ SleepInv /\ [Next]_vars => SleepInv'
  BY SleepNext
<1>3. SleepInv => SleepingQueueExact
  BY DEF SleepInv
<1> QED BY <1>1, <1>2, <1>3, Invariance, PTL DEF Spec

\* Under CFS the EOI of a keyboard interrupt in service is owed by a thread that can
\* be scheduled, or by kmain on its way into kernel_yield.
THEOREM EoiCorrect ==
    ASSUME BlockingCallsYield, SleepYields, SCH_ALG = "CFS"
    PROVE  Spec => []EoiOwnerCanRun
<1>1. Init => SleepInv /\ EoiInv
  BY SleepInit, EoiInit
<1>2. IInv /\ SleepInv /\ EoiInv /\ [Next]_vars => SleepInv' /\ EoiInv'
  BY SleepNext, EoiNext
<1>3. IInv /\ EoiInv => EoiOwnerCanRun
  BY EoiImplies
<1> QED BY <1>1, <1>2, <1>3, Invariance, PTL DEF Spec

\* When no key yields a NUL, the owner of the console sleeps over a character only if
\* notify_wait_channel woke a newer reader.
THEOREM OwnerCorrect ==
    ASSUME BlockingCallsYield, KeysYieldNoNul
    PROVE  Spec => []OwnerMissesKeyOnlyWithRival
<1>1. Init => OwnerInv
  BY OwnerInit
<1>2. IInv /\ OwnerInv /\ [Next]_vars => OwnerInv'
  BY OwnerNext
<1>3. OwnerInv => OwnerMissesKeyOnlyWithRival
  BY DEF OwnerInv
<1> QED BY <1>1, <1>2, <1>3, Invariance, PTL DEF Spec

\* The round robin gives the processor to the idle thread only when no other thread
\* is READY.
THEOREM RoundRobinCorrect ==
    ASSUME BlockingCallsYield, SCH_ALG = "RR"
    PROVE  Spec => IdleOnlyWithoutWork
<1>1. IInv /\ IInv' /\ [Next]_vars =>
        [current_thread # IDLE /\ current_thread' = IDLE =>
           \A t \in Tids \ {IDLE, current_thread} : state'[t] # "READY"]_vars
  BY RRStep
<1> QED BY <1>1, Invariance, PTL DEF Spec, IdleOnlyWithoutWork

=============================================================================
