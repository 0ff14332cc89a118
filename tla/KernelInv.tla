----------------------------- MODULE KernelInv ------------------------------
(***************************************************************************)
(* The inductive invariant of Kernel, the facts about kernel_yield, the    *)
(* frame lemmas that the proofs of its steps share, and the steps of the   *)
(* interrupt handlers and of kmain's kusleep, power and yields.            *)
(***************************************************************************)
EXTENDS Kernel, TLAPS

\* The calls of kernel_yield that must really give the processor up: there the
\* caller leaves a pointer or a pixel row in %rsi, never 1.
BlockingCallsYield == StaleFrom \cap {"waitpid", "console"} = {}

-----------------------------------------------------------------------------
(* The inductive invariant.                                                *)

MainLabels == {"launch", "set_cr3", "set_parent", "wait_check", "wait_mark",
               "wait_block", "wait_yield", "wait_ret", "kusleep", "sleep_push",
               "sleep_yield", "off", "wild"}

\* Which code each thread can be in.
LabelsOK ==
    /\ pc[IDLE] \in {"hlt", "idle_yield", "wild"}
    /\ pc[MAIN] \in MainLabels
    /\ \A t \in UserThreads : pc[t] \in SyscallLabels \cup {"user"}

\* NEW threads are the ones not yet listed; the DEAD ones have
\* been through sys_exit.
ListOK == \A t \in Tids : state[t] = "NEW" <=> t \notin Listed

DeadOK == \A t \in Tids : state[t] = "DEAD" <=> pc[t] = "exited"

\* The thread on the processor is not one that blocked.
CurrentOK ==
    /\ current_thread \in UserThreads => state[current_thread] \in {"RUNNING", "DEAD"}
    /\ current_thread = MAIN /\ pc[MAIN] = "wait_ret" => state[MAIN] # "WAITING"

\* A thread on the console's channel is blocked in console_read.
ChannelOK ==
    \A t \in block_channel : /\ state[t] = "WAITING"
                             /\ t \in UserThreads
                             /\ pc[t] \in {"read_own", "read_char"}

\* What processes record about the calls of sys_waitpid in progress.
ParentOK == \A p \in Tids : parent[p] # IDLE /\ (parent[p] # NULL => parent[p] \in Listed)

WaiterMarked ==
    \A p \in Tids : is_waiting[p] =>
        /\ wait_target_pid[p] = child[p]
        /\ \/ p \in UserThreads /\ pc[p] = "wait_ret"
           \/ p = MAIN /\ pc[p] \in {"wait_block", "wait_yield", "wait_ret", "wild"}
        /\ pc[p] \in {"wait_yield", "wait_ret"} => state[p] = "WAITING"

\* Whoever has been woken from sys_waitpid finds its child dead.
WokenByDeath ==
    \A p \in Tids : pc[p] \in {"wait_yield", "wait_ret"} =>
        /\ child[p] \in Listed
        /\ state[p] = "WAITING" \/ state[child[p]] = "DEAD"

SleeperMarked ==
    \A p \in UserThreads : pc[p] = "wait_ret" /\ state[p] = "WAITING" =>
        /\ is_waiting[p]
        /\ parent[child[p]] = p => state[child[p]] # "DEAD"

WaitOK == ParentOK /\ WaiterMarked /\ WokenByDeath /\ SleeperMarked

\* kmain's child, and its entry in the delta queue.
MainOK ==
    /\ pc[MAIN] \in {"set_cr3", "set_parent", "wait_mark", "wait_block",
                     "wait_yield", "wait_ret"}
          => child[MAIN] \in UserThreads /\ child[MAIN] \in Listed
    /\ pc[MAIN] = "wait_check" =>
          child[MAIN] = NULL \/ (child[MAIN] \in UserThreads /\ child[MAIN] \in Listed)
    /\ sleeping_queue # <<>> =>
          pc[MAIN] \in {"kusleep", "sleep_push", "sleep_yield", "off", "wild"}

\* Every listed process has its address space, but for the one being built.
SpaceOK ==
    \A t \in Listed \ {IDLE} :
        proc_cr3[t] = NoSpace => t = child[MAIN] /\ pc[MAIN] = "set_cr3"

IInv == /\ TypeOK /\ LabelsOK /\ ListOK /\ DeadOK /\ SchedOK /\ CurrentOK
        /\ ConsoleOwnerInside /\ ChannelOK /\ WaitOK /\ MainOK /\ SpaceOK

-----------------------------------------------------------------------------
(* What kernel_yield does to the thread states st it is called with.       *)

YieldPre(st) ==
    /\ st \in [Tids -> States]
    /\ next_tid \in 2 .. MaxThreads
    /\ current_thread \in Listed
    /\ next_id \in 0 .. MaxThreads
    /\ proc_cr3 \in [Tids -> Tids \cup {NoSpace}]
    /\ \A t \in Tids : st[t] = "RUNNING" => t = current_thread
    /\ st[IDLE] = IF current_thread = IDLE THEN "RUNNING" ELSE "READY"
    /\ ContextFollowsThread

\* Threads that are neither READY nor RUNNING are left alone.
YieldPost(st) ==
    /\ state' \in [Tids -> States]
    /\ current_thread' \in Listed
    /\ stack_top' = current_thread'
    /\ cr3' = proc_cr3[Proc(current_thread')]
    /\ \A t \in Tids : state'[t] = "RUNNING" => t = current_thread'
    /\ state'[IDLE] = IF current_thread' = IDLE THEN "RUNNING" ELSE "READY"
    /\ \A t \in Tids : \/ state'[t] = st[t]
                       \/ st[t] \in {"READY", "RUNNING"} /\ state'[t] \in {"READY", "RUNNING"}
    /\ \/ state'[current_thread'] = "RUNNING"
       \/ current_thread' = current_thread /\ state'[current_thread] = st[current_thread]

\* SwitchTo, given a READY thread, hands the processor to it.
LEMMA SwitchToFacts ==
    ASSUME NEW st, YieldPre(st), NEW n \in Listed, st[n] = "READY", SwitchTo(st, n)
    PROVE  YieldPost(st) /\ current_thread' = n
<1>1. n \in Tids /\ current_thread \in Tids /\ IDLE \in Tids
  BY SchedulerAssumption DEF YieldPre, Tids, Listed, IDLE
<1>2. CASE n = current_thread
  BY <1>1, <1>2 DEF YieldPre, YieldPost, SwitchTo, States, ContextFollowsThread
<1>3. CASE n # current_thread
  BY <1>1, <1>3 DEF YieldPre, YieldPost, SwitchTo, States, ContextFollowsThread
<1> QED BY <1>2, <1>3

\* The thread get_next_thread returns is READY, with either algorithm.
LEMMA NextThreadReady ==
    ASSUME NEW st, YieldPre(st), NEW n \in Listed \cup {NULL}, n # NULL,
           get_next_thread(st, n)
    PROVE  st[n] = "READY" /\ n \in Listed
<1>1. CASE SCH_ALG = "CFS"
  BY <1>1 DEF get_next_thread, get_next_thread_cfs, get_lowest_runtime
<1>2. CASE SCH_ALG # "CFS"
  <2>1. PICK k \in RRSkips(st) :
          IF k = next_tid THEN n = NULL ELSE n = list_get_at(RRPosition(k))
    BY <1>2 DEF get_next_thread, get_next_thread_rr
  <2>2. k \in 0 .. next_tid /\ k # next_tid
    BY <2>1 DEF RRSkips
  <2>3. k < next_tid
    BY <2>2 DEF YieldPre
  <2> QED BY <2>1, <2>2, <2>3 DEF RRSkips
<1> QED BY <1>1, <1>2

\* next_id stays a position of the list, or one past it.
LEMMA NextIdType ==
    ASSUME NEW st, YieldPre(st), NEW n, get_next_thread(st, n)
    PROVE  next_id' \in 0 .. MaxThreads
<1>1. \A k \in Nat : RRPosition(k) \in 0 .. (next_tid - 1)
  BY SchedulerAssumption DEF RRPosition, YieldPre
<1>2. CASE SCH_ALG = "CFS"
  BY <1>2 DEF get_next_thread, get_next_thread_cfs, YieldPre
<1>3. CASE SCH_ALG # "CFS"
  <2>1. PICK k \in RRSkips(st) :
          next_id' = RRPosition(IF k = next_tid THEN next_tid - 1 ELSE k) + 1
    BY <1>3 DEF get_next_thread, get_next_thread_rr
  <2>2. k \in Nat /\ next_tid - 1 \in Nat
    BY <2>1 DEF RRSkips, YieldPre
  <2> QED BY <1>1, <2>1, <2>2, SchedulerAssumption DEF YieldPre
<1> QED BY <1>2, <1>3

\* kernel_yield keeps the scheduler's invariant, and a caller that blocked
\* itself leaves the processor when %rsi is not 1.
LEMMA YieldFacts ==
    ASSUME NEW st, YieldPre(st), NEW site, kernel_yield(site, st)
    PROVE  /\ YieldPost(st) /\ next_id' \in 0 .. MaxThreads
           /\ site \notin StaleFrom /\ st[current_thread] \notin {"READY", "RUNNING"}
                 /\ next_tid # 2 => current_thread' # current_thread
<1>1. PICK from \in {0, 1} : schedule(st, from) /\ (site \notin StaleFrom => from = 0)
  BY DEF kernel_yield
<1>2. CASE from = 1
  <2>1. KeepRunning(st) /\ UNCHANGED next_id
    BY <1>1, <1>2 DEF schedule
  <2> QED BY <1>1, <1>2, <2>1 DEF KeepRunning, YieldPre, YieldPost, ContextFollowsThread
<1>3. CASE from = 0
  <2>1. PICK n \in Listed \cup {NULL} :
          /\ get_next_thread(st, n)
          /\ IF n # NULL THEN SwitchTo(st, n)
             ELSE IF current_thread = IDLE \/ next_tid = 2
             THEN KeepRunning(st) ELSE SwitchTo(st, IDLE)
    BY <1>1, <1>3 DEF schedule
  <2>2. next_id' \in 0 .. MaxThreads
    BY <2>1, NextIdType
  <2>3. CASE n # NULL
    BY <2>1, <2>2, <2>3, SwitchToFacts, NextThreadReady DEF YieldPost
  <2>4. CASE n = NULL /\ (current_thread = IDLE \/ next_tid = 2)
    BY <2>1, <2>2, <2>4 DEF KeepRunning, YieldPre, YieldPost, ContextFollowsThread
  <2>5. CASE n = NULL /\ ~(current_thread = IDLE \/ next_tid = 2)
    <3>1. IDLE \in Listed /\ st[IDLE] = "READY"
      BY <2>5 DEF YieldPre, Listed, IDLE
    <3> QED BY <2>1, <2>2, <2>5, <3>1, SwitchToFacts DEF YieldPre
  <2> QED BY <2>3, <2>4, <2>5
<1> QED BY <1>1, <1>2, <1>3

-----------------------------------------------------------------------------
(* Facts used by all the actions.                                          *)

\* kmain, the idle thread and the user threads are all there is.
LEMMA TidFacts ==
    /\ MAIN \in Tids /\ IDLE \in Tids /\ MAIN # IDLE
    /\ NULL \notin Tids /\ NoSpace \notin Tids
    /\ \A t \in Tids : t \in Int /\ Proc(t) \in Tids
    /\ \A t \in UserThreads : t \in Tids /\ t # MAIN /\ t # IDLE
BY SchedulerAssumption DEF Tids, MAIN, IDLE, NULL, NoSpace, Proc, UserThreads

\* Threads 0 and 1 are always in thread_list; the rest of it are user threads.
LEMMA ListedFacts ==
    ASSUME next_tid \in 2 .. MaxThreads
    PROVE  /\ Listed \subseteq Tids /\ MAIN \in Listed /\ IDLE \in Listed
           /\ \A t \in UserThreads : t \in Listed => next_tid # 2
BY SchedulerAssumption DEF Tids, MAIN, IDLE, Listed, UserThreads

\* thread_list grows with next_tid only.
LEMMA SameListed == ASSUME UNCHANGED next_tid PROVE Listed' = Listed
BY DEF Listed

\* A new thread is a user thread that was not in the list.
LEMMA NewListed ==
    ASSUME next_tid \in 2 .. MaxThreads, NEW space, new_elf_process(space)
    PROVE  /\ next_tid \in UserThreads /\ next_tid \notin Listed
           /\ Listed' = Listed \cup {next_tid}
           /\ next_tid' \in 2 .. MaxThreads
BY SchedulerAssumption
DEF new_elf_process, UserThreads, Tids, MAIN, IDLE, Listed

\* TypeOK, by the part of the kernel a variable belongs to.
SchedTypes ==
    /\ next_tid \in 2 .. MaxThreads
    /\ state \in [Tids -> States]
    /\ vruntime \in [Tids -> 0 .. MaxVruntime]
    /\ current_thread \in Listed
    /\ next_id \in 0 .. MaxThreads
    /\ stack_top \in Tids
    /\ proc_cr3 \in [Tids -> Tids \cup {NoSpace}]
    /\ cr3 \in Tids \cup {NoSpace}

ProcTypes ==
    /\ pc \in [Tids -> Labels]
    /\ is_waiting \in [Tids -> BOOLEAN]
    /\ wait_target_pid \in [Tids -> Tids]
    /\ parent \in [Tids -> Tids \cup {NULL}]
    /\ child \in [Tids -> Tids \cup {NULL}]

DeviceTypes ==
    /\ in_irq \in [Tids -> BOOLEAN]
    /\ todo \in [Tids -> Seq(Chars)]
    /\ isr \in BOOLEAN
    /\ block_channel \subseteq Tids
    /\ console_read_owner \in Tids \cup {NULL}
    /\ kdb_queue \in Seq(Chars) /\ Len(kdb_queue) <= KDB_BUFFER_SIZE
    /\ sleeping_queue \in Seq([delta : 0 .. SLEEP_MS, tid : {MAIN}])
    /\ sleeps \in 0 .. SLEEPS

\* IInv in the groups the proofs below establish one by one.
ThreadsOK == LabelsOK /\ ListOK /\ DeadOK /\ CurrentOK
ConsoleOK == ConsoleOwnerInside /\ ChannelOK

\* The invariant, in the groups of conjuncts the proofs work with.
LEMMA Groups ==
    IInv <=> /\ SchedTypes /\ ProcTypes /\ DeviceTypes /\ SchedOK /\ ThreadsOK
             /\ ConsoleOK /\ WaitOK /\ MainOK /\ SpaceOK
BY DEF IInv, TypeOK, SchedTypes, ProcTypes, DeviceTypes, ThreadsOK, ConsoleOK

\* The same for the state after a step.
LEMMA GroupsNext ==
    ASSUME SchedTypes', ProcTypes', DeviceTypes', SchedOK', ThreadsOK',
           ConsoleOK', WaitOK', MainOK', SpaceOK'
    PROVE  IInv'
BY DEF IInv, TypeOK, SchedTypes, ProcTypes, DeviceTypes, ThreadsOK, ConsoleOK

\* A step that changes no thread state, list or processor register.
LEMMA SchedFrame ==
    ASSUME IInv, UNCHANGED schedVars
    PROVE  SchedTypes' /\ SchedOK' /\ ListOK' /\ Listed' = Listed
BY Groups, SameListed
DEF schedVars, SchedTypes, SchedOK, ThreadsOK, ListOK, OnlyCurrentRuns, IdleRunnable,
    ContextFollowsThread

\* A step that leaves the calls of sys_waitpid in progress as they are.
SameWaits ==
    /\ UNCHANGED <<next_tid, waitVars>>
    /\ \A u \in Tids :
        /\ {pc[u], pc'[u]} \cap {"wait_block", "wait_yield", "wait_ret"} # {}
              => pc'[u] = pc[u]
        /\ u # IDLE => (pc'[u] = "wild" <=> pc[u] = "wild")
        /\ pc[u] \in {"wait_yield", "wait_ret"}
              => (state'[u] = "WAITING" <=> state[u] = "WAITING")
        /\ state'[u] = "DEAD" <=> state[u] = "DEAD"

\* What is recorded about sys_waitpid survives a step that leaves it alone.
LEMMA WaitFrame == ASSUME IInv, SameWaits PROVE WaitOK'
<1>1. Listed' = Listed /\ Listed \subseteq Tids
  BY Groups, SameListed, ListedFacts DEF SameWaits, SchedTypes
<1>2. \A u \in Tids :
        /\ \A l \in {"wait_block", "wait_yield", "wait_ret"} : pc'[u] = l <=> pc[u] = l
        /\ u # IDLE => (pc'[u] = "wild" <=> pc[u] = "wild")
        /\ pc[u] \in {"wait_yield", "wait_ret"}
              => (state'[u] = "WAITING" <=> state[u] = "WAITING")
        /\ state'[u] = "DEAD" <=> state[u] = "DEAD"
  BY DEF SameWaits
<1>3. UNCHANGED <<is_waiting, wait_target_pid, parent, child>>
  BY DEF SameWaits, waitVars
<1>4. ParentOK' /\ WaiterMarked'
  BY <1>1, <1>2, <1>3, Groups, TidFacts DEF WaitOK, ParentOK, WaiterMarked
<1>5. WokenByDeath'
  BY <1>1, <1>2, <1>3, Groups DEF WaitOK, WokenByDeath
<1>6. SleeperMarked'
  BY <1>1, <1>2, <1>3, Groups, TidFacts DEF WaitOK, WokenByDeath, SleeperMarked
<1> QED BY <1>4, <1>5, <1>6 DEF WaitOK

\* A step that leaves kmain's call and the address spaces as they are.
SameMain ==
    /\ UNCHANGED <<next_tid, proc_cr3, child>>
    /\ pc'[MAIN] = pc[MAIN]
    /\ sleeping_queue' # <<>> => sleeping_queue # <<>>

\* What is known of kmain survives a step that leaves it alone.
LEMMA MainFrame == ASSUME IInv, SameMain PROVE MainOK' /\ SpaceOK'
BY Groups, SameListed DEF SameMain, MainOK, SpaceOK

\* kernel_yield called with states that differ from state, if at all, in threads
\* that are not the idle thread and do not become RUNNING.
LEMMA YieldStep ==
    ASSUME IInv, NEW st, NEW site, st \in [Tids -> States], st[IDLE] = state[IDLE],
           \A t \in Tids : st[t] = "RUNNING" => state[t] = "RUNNING",
           kernel_yield(site, st), UNCHANGED yieldUnchanged
    PROVE  /\ SchedTypes' /\ SchedOK' /\ Listed' = Listed
           /\ \A t \in Tids :
                 \/ state'[t] = st[t]
                 \/ st[t] \in {"READY", "RUNNING"} /\ state'[t] \in {"READY", "RUNNING"}
           /\ \/ state'[current_thread'] = "RUNNING"
              \/ current_thread' = current_thread
                 /\ state'[current_thread] = st[current_thread]
           /\ site \notin StaleFrom /\ st[current_thread] \notin {"READY", "RUNNING"}
                 /\ next_tid # 2 => state'[current_thread'] = "RUNNING"
<1>1. YieldPre(st)
  BY Groups DEF YieldPre, SchedTypes, SchedOK, OnlyCurrentRuns, IdleRunnable
<1>2. /\ YieldPost(st) /\ next_id' \in 0 .. MaxThreads
      /\ site \notin StaleFrom /\ st[current_thread] \notin {"READY", "RUNNING"}
            /\ next_tid # 2 => current_thread' # current_thread
  BY <1>1, YieldFacts
<1>3. Listed' = Listed /\ Listed \subseteq Tids
  BY Groups, SameListed, ListedFacts DEF yieldUnchanged, SchedTypes
<1>4. SchedTypes'
  BY <1>2, <1>3, Groups, TidFacts DEF YieldPost, SchedTypes, yieldUnchanged
<1>5. SchedOK'
  BY <1>2 DEF YieldPost, SchedOK, OnlyCurrentRuns, IdleRunnable, ContextFollowsThread,
              yieldUnchanged
<1> QED BY <1>2, <1>3, <1>4, <1>5 DEF YieldPost

-----------------------------------------------------------------------------
(* The invariant holds initially and every action keeps it.                *)

\* The state after init_multitasking satisfies the invariant.
LEMMA InitInv == Init => IInv
<1> SUFFICES ASSUME Init PROVE IInv
  OBVIOUS
<1> USE DEF Init, SchedInit
<1>1. SchedTypes
  BY SchedulerAssumption, KernelAssumption, TidFacts
  DEF SchedTypes, Listed, States, MAIN, IDLE
<1>2. ProcTypes
  BY TidFacts DEF ProcTypes, Labels, SyscallLabels
<1>3. DeviceTypes
  <2>1. <<>> \in Seq(Chars) /\ <<>> \in Seq([delta : 0 .. SLEEP_MS, tid : {MAIN}])
        /\ Len(<<>>) = 0
    OBVIOUS
  <2>2. sleeps \in 0 .. SLEEPS /\ console_read_owner \in Tids \cup {NULL}
        /\ block_channel \subseteq Tids
    BY KernelAssumption
  <2>3. in_irq \in [Tids -> BOOLEAN] /\ isr \in BOOLEAN
    OBVIOUS
  <2>4. todo \in [Tids -> Seq(Chars)]
    BY <2>1
  <2>5. kdb_queue \in Seq(Chars) /\ Len(kdb_queue) <= KDB_BUFFER_SIZE
    BY <2>1, KernelAssumption
  <2> QED BY <2>1, <2>2, <2>3, <2>4, <2>5 DEF DeviceTypes
<1>4. SchedOK
  BY TidFacts DEF SchedOK, OnlyCurrentRuns, IdleRunnable, ContextFollowsThread, Proc
<1>5. ThreadsOK
  BY TidFacts DEF ThreadsOK, LabelsOK, ListOK, DeadOK, CurrentOK, MainLabels,
                  UserThreads, MAIN, IDLE, Tids, Listed
<1>6. ConsoleOK /\ WaitOK
  BY TidFacts DEF ConsoleOK, ConsoleOwnerInside, ChannelOK, WaitOK, ParentOK,
                  WaiterMarked, WokenByDeath, SleeperMarked, NULL, IDLE
<1>7. MainOK /\ SpaceOK
  BY TidFacts DEF MainOK, SpaceOK, Listed, MAIN, IDLE
<1> QED BY <1>1, <1>2, <1>3, <1>4, <1>5, <1>6, <1>7, Groups

\* Stuttering preserves the invariant.
LEMMA StutterInv == ASSUME IInv, UNCHANGED vars PROVE IInv'
<1> USE DEF vars, schedVars, irqVars, consoleVars, waitVars, sleepVars
<1>1. SchedTypes' /\ SchedOK' /\ ListOK' /\ Listed' = Listed
  BY SchedFrame
<1>2. ProcTypes' /\ DeviceTypes'
  BY Groups DEF ProcTypes, DeviceTypes
<1>3. ThreadsOK' /\ ConsoleOK'
  BY <1>1, Groups DEF ThreadsOK, LabelsOK, DeadOK, CurrentOK, ConsoleOK,
                      ConsoleOwnerInside, ChannelOK
<1>4. WaitOK' /\ MainOK' /\ SpaceOK'
  BY WaitFrame, MainFrame DEF SameWaits, SameMain
<1> QED BY <1>1, <1>2, <1>3, <1>4, GroupsNext

-----------------------------------------------------------------------------
(* The timer and keyboard interrupts preserve the inductive invariant.     *)

\* What LeaveHlt, or no change of pc, does to pc.
LEMMA HltFacts ==
    ASSUME IInv, LeaveHlt \/ UNCHANGED pc
    PROVE  /\ pc' \in [Tids -> Labels] /\ pc'[IDLE] \in {"hlt", "idle_yield", "wild"}
           /\ \A u \in Tids \ {IDLE} : pc'[u] = pc[u]
BY Groups, TidFacts DEF LeaveHlt, ProcTypes, Labels, ThreadsOK, LabelsOK

\* keyboard_interrupt's EOI and iretq preserve the invariant.
LEMMA KeyboardEOIInv == ASSUME IInv, KeyboardEOI PROVE IInv'
<1> USE Groups DEF KeyboardEOI
<1>1. SchedTypes' /\ SchedOK' /\ ListOK' /\ Listed' = Listed
  BY SchedFrame
<1>2. ProcTypes'
  BY DEF ProcTypes, waitVars
<1>3. DeviceTypes'
  <2>1. in_irq' \in [Tids -> BOOLEAN] /\ isr' \in BOOLEAN
    BY DEF DeviceTypes
  <2> QED BY <2>1 DEF DeviceTypes, consoleVars, sleepVars
<1>4. ThreadsOK' /\ ConsoleOK'
  BY <1>1 DEF ThreadsOK, LabelsOK, DeadOK, CurrentOK, ConsoleOK, ConsoleOwnerInside,
              ChannelOK, schedVars, consoleVars
<1>5. WaitOK' /\ MainOK' /\ SpaceOK'
  BY WaitFrame, MainFrame DEF SameWaits, SameMain, schedVars, waitVars, sleepVars
<1> QED BY <1>1, <1>2, <1>3, <1>4, <1>5, GroupsNext

\* The handler of vector 0x20 wakes kmain, if anyone: only kmain is in the queue.
LEMMA SleepingQueueFacts ==
    ASSUME IInv, update_sleeping_queue
    PROVE  /\ sleeping_queue' \in Seq([delta : 0 .. SLEEP_MS, tid : {MAIN}])
           /\ sleeping_queue' # <<>> => sleeping_queue # <<>>
           /\ \/ UNCHANGED state
              \/ /\ sleeping_queue # <<>>
                 /\ state' = [state EXCEPT ![MAIN] = "READY"]
<1> DEFINE Entry == [delta : 0 .. SLEEP_MS, tid : {MAIN}]
           top == Head(sleeping_queue)
<1>1. sleeping_queue \in Seq(Entry)
  BY Groups DEF DeviceTypes
<1>2. CASE sleeping_queue = <<>>
  BY <1>1, <1>2 DEF update_sleeping_queue
<1>3. CASE sleeping_queue # <<>>
  <2>1. top \in Entry /\ Tail(sleeping_queue) \in Seq(Entry)
    <3> HIDE DEF Entry
    <3> QED BY <1>1, <1>3
  <2>2. top.tid = MAIN /\ top.delta \in 0 .. SLEEP_MS
    BY <2>1
  <2>3. CASE top.delta = 0
    BY <1>3, <2>1, <2>2, <2>3 DEF update_sleeping_queue
  <2>4. CASE top.delta # 0
    <3>1. [delta |-> top.delta - 1, tid |-> top.tid] \in Entry
      BY <2>2, <2>4, KernelAssumption
    <3>2. /\ sleeping_queue' = <<[delta |-> top.delta - 1, tid |-> top.tid]>>
                                  \o Tail(sleeping_queue)
          /\ UNCHANGED state
      BY <1>3, <2>4 DEF update_sleeping_queue
    <3> HIDE DEF Entry
    <3>3. <<[delta |-> top.delta - 1, tid |-> top.tid]>> \in Seq(Entry)
      BY <3>1
    <3>4. sleeping_queue' \in Seq(Entry)
      BY <2>1, <3>2, <3>3
    <3> QED BY <1>3, <3>2, <3>4 DEF Entry
  <2> QED BY <2>3, <2>4
<1> QED BY <1>2, <1>3

\* TimerInterrupt and SC_YIELD.
LEMMA PitInv == ASSUME IInv, pit_interrupt, LeaveHlt \/ UNCHANGED pc PROVE IInv'
<1> USE Groups, TidFacts
<1>1. /\ isr' = FALSE /\ update_curr_thread
      /\ UNCHANGED <<next_tid, current_thread, next_id, stack_top, proc_cr3, cr3,
                     in_irq, todo, consoleVars, waitVars, sleeps>>
  BY DEF pit_interrupt
<1>2. /\ sleeping_queue' \in Seq([delta : 0 .. SLEEP_MS, tid : {MAIN}])
      /\ sleeping_queue' # <<>> => sleeping_queue # <<>>
      /\ \/ UNCHANGED state
         \/ /\ sleeping_queue # <<>>
            /\ state' = [state EXCEPT ![MAIN] = "READY"]
  BY SleepingQueueFacts DEF pit_interrupt
<1>3. /\ pc' \in [Tids -> Labels] /\ pc'[IDLE] \in {"hlt", "idle_yield", "wild"}
      /\ \A u \in Tids \ {IDLE} : pc'[u] = pc[u]
  BY HltFacts
<1>4. /\ state' \in [Tids -> States]
      /\ \A u \in Tids \ {MAIN} : state'[u] = state[u]
      /\ \/ state'[MAIN] = state[MAIN]
         \/ /\ state'[MAIN] = "READY"
            /\ pc[MAIN] \in {"kusleep", "sleep_push", "sleep_yield", "off", "wild"}
  BY <1>2 DEF SchedTypes, States, MainOK
<1>5. Listed' = Listed
  BY <1>1, SameListed
<1>6. SchedTypes'
  <2>1. current_thread \in Tids /\ vruntime[current_thread] \in 0 .. MaxVruntime
    BY ListedFacts DEF SchedTypes
  <2>2. vruntime[current_thread] + 1 \in 0 .. MaxVruntime
    BY <1>1, <2>1, KernelAssumption DEF update_curr_thread
  <2>3. vruntime' \in [Tids -> 0 .. MaxVruntime]
    BY <1>1, <2>2 DEF SchedTypes, update_curr_thread
  <2> QED BY <1>1, <1>4, <1>5, <2>3 DEF SchedTypes
<1>7. SchedOK'
  BY <1>1, <1>4 DEF SchedOK, OnlyCurrentRuns, IdleRunnable, ContextFollowsThread
<1>8. ProcTypes' /\ DeviceTypes'
  <2>1. isr' \in BOOLEAN
    BY <1>1
  <2>2. ProcTypes'
    BY <1>1, <1>3 DEF ProcTypes, waitVars
  <2>3. DeviceTypes'
    BY <1>1, <1>2, <2>1 DEF DeviceTypes, consoleVars
  <2> QED BY <2>2, <2>3
<1>9. LabelsOK' /\ ListOK' /\ DeadOK' /\ CurrentOK'
  <2>1. MAIN \in Listed /\ state[MAIN] # "DEAD"
    BY ListedFacts DEF SchedTypes, ThreadsOK, DeadOK, LabelsOK, MainLabels
  <2>2. LabelsOK'
    BY <1>3 DEF ThreadsOK, LabelsOK
  <2>3. ListOK' /\ DeadOK'
    BY <1>3, <1>4, <1>5, <2>1 DEF ThreadsOK, LabelsOK, ListOK, DeadOK
  <2>4. CurrentOK'
    BY <1>1, <1>3, <1>4 DEF ThreadsOK, CurrentOK
  <2> QED BY <2>2, <2>3, <2>4
<1>10. ConsoleOK'
  BY <1>1, <1>3, <1>4 DEF ConsoleOK, ConsoleOwnerInside, ChannelOK,
                          ThreadsOK, LabelsOK, consoleVars
<1>11. WaitOK'
  <2>1. state[MAIN] # "DEAD"
    BY DEF ThreadsOK, DeadOK, LabelsOK, MainLabels
  <2>2. pc[IDLE] \in {"hlt", "idle_yield", "wild"}
    BY DEF ThreadsOK, LabelsOK
  <2> QED BY <1>1, <1>3, <1>4, <2>1, <2>2, WaitFrame DEF SameWaits
<1>12. MainOK' /\ SpaceOK'
  BY <1>1, <1>2, <1>3, MainFrame DEF SameMain, waitVars
<1> QED BY <1>6, <1>7, <1>8, <1>9, <1>10, <1>11, <1>12, GroupsNext DEF ThreadsOK

\* One turn of the keyboard handler, from an interrupt or resumed.
LEMMA HandleCharInv ==
    ASSUME IInv, NEW chars \in Seq(Chars), chars # <<>>, HandleChar(chars),
           LeaveHlt \/ UNCHANGED pc, isr' \in BOOLEAN
    PROVE  IInv'
<1> DEFINE st == [t \in Tids |-> IF t \in FirstWaiter THEN "READY" ELSE state[t]]
<1> USE Groups, TidFacts
<1>1. /\ append_to_input_buffer(Head(chars))
      /\ block_channel' = block_channel \ FirstWaiter
      /\ in_irq' = [in_irq EXCEPT ![current_thread] = TRUE]
      /\ todo' = [todo EXCEPT ![current_thread] = Tail(chars)]
      /\ kernel_yield("keyboard", st)
      /\ UNCHANGED <<console_read_owner, yieldUnchanged, waitVars, sleepVars>>
  BY DEF HandleChar
<1>2. /\ pc' \in [Tids -> Labels] /\ pc'[IDLE] \in {"hlt", "idle_yield", "wild"}
      /\ \A u \in Tids \ {IDLE} : pc'[u] = pc[u]
      /\ pc[IDLE] \in {"hlt", "idle_yield", "wild"}
  BY HltFacts DEF ThreadsOK, LabelsOK
<1>3. \A u \in FirstWaiter : /\ u \in UserThreads /\ u \in Listed
                             /\ pc[u] \in {"read_own", "read_char"}
                             /\ state[u] = "WAITING"
  BY DEF ConsoleOK, ChannelOK, FirstWaiter, ConsoleWaiters
<1>4. /\ st \in [Tids -> States] /\ st[IDLE] = state[IDLE]
      /\ \A u \in Tids : st[u] = "RUNNING" => state[u] = "RUNNING"
  BY <1>3 DEF SchedTypes, States
<1>5. /\ SchedTypes' /\ SchedOK' /\ Listed' = Listed
      /\ \A u \in Tids :
            \/ state'[u] = st[u]
            \/ st[u] \in {"READY", "RUNNING"} /\ state'[u] \in {"READY", "RUNNING"}
      /\ \/ state'[current_thread'] = "RUNNING"
         \/ current_thread' = current_thread
            /\ state'[current_thread] = st[current_thread]
  <2> HIDE DEF st
  <2> QED BY <1>1, <1>4, YieldStep
<1>6. \A u \in Tids :
        IF u \in FirstWaiter THEN state'[u] \in {"READY", "RUNNING"}
        ELSE \A s \in {"WAITING", "DEAD", "NEW"} : state'[u] = s <=> state[u] = s
  BY <1>5
<1>7. ProcTypes' /\ DeviceTypes'
  <2>1. /\ Head(chars) \in Chars /\ Tail(chars) \in Seq(Chars)
        /\ Append(kdb_queue, Head(chars)) \in Seq(Chars)
        /\ Len(Append(kdb_queue, Head(chars))) = Len(kdb_queue) + 1
    <3>1. kdb_queue \in Seq(Chars)
      BY DEF DeviceTypes
    <3> QED BY <3>1
  <2>2. kdb_queue' \in Seq(Chars) /\ Len(kdb_queue') <= KDB_BUFFER_SIZE
    <3>1. /\ kdb_queue' = kdb_queue \/ kdb_queue' = Append(kdb_queue, Head(chars))
          /\ Len(kdb_queue) < KDB_BUFFER_SIZE \/ kdb_queue' = kdb_queue
      BY <1>1 DEF append_to_input_buffer
    <3>2. kdb_queue \in Seq(Chars) /\ Len(kdb_queue) <= KDB_BUFFER_SIZE /\ Len(kdb_queue) \in Nat
      BY DEF DeviceTypes
    <3> QED BY ONLY <2>1, <3>1, <3>2, KernelAssumption
  <2>3. todo' \in [Tids -> Seq(Chars)]
    BY <1>1, <2>1 DEF DeviceTypes
  <2>4. in_irq' \in [Tids -> BOOLEAN]
    BY <1>1 DEF DeviceTypes
  <2>5. DeviceTypes'
    BY <1>1, <2>2, <2>3, <2>4 DEF DeviceTypes, sleepVars
  <2>6. ProcTypes'
    BY <1>1, <1>2 DEF ProcTypes, waitVars
  <2> QED BY <2>5, <2>6
<1>8. LabelsOK' /\ ListOK' /\ DeadOK'
  <2>1. ThreadsOK
    OBVIOUS
  <2> QED BY ONLY <1>2, <1>3, <1>5, <1>6, <2>1, TidFacts
          DEF ThreadsOK, LabelsOK, ListOK, DeadOK
<1>9. CurrentOK'
  <2>1. CASE state'[current_thread'] = "RUNNING"
    BY <2>1 DEF CurrentOK
  <2>2. CASE current_thread' = current_thread /\ state'[current_thread] = st[current_thread]
    <3>1. current_thread \in Tids /\ current_thread \notin FirstWaiter
      BY <1>3, ListedFacts DEF SchedTypes, ThreadsOK, CurrentOK
    <3>2. state'[current_thread] = state[current_thread]
      BY <2>2, <3>1
    <3> QED BY <1>2, <2>2, <3>2 DEF ThreadsOK, CurrentOK
  <2> QED BY <1>5, <2>1, <2>2
<1>10. ConsoleOK'
  <2>1. ConsoleOwnerInside'
    BY <1>1, <1>2 DEF ConsoleOK, ConsoleOwnerInside
  <2>2. ChannelOK'
    BY <1>1, <1>2, <1>6 DEF ConsoleOK, ChannelOK
  <2> QED BY <2>1, <2>2 DEF ConsoleOK
<1>11. WaitOK'
  BY <1>1, <1>2, <1>3, <1>6, WaitFrame DEF SameWaits, yieldUnchanged
<1>12. MainOK' /\ SpaceOK'
  BY <1>1, <1>2, MainFrame DEF SameMain, yieldUnchanged, waitVars, sleepVars
<1> QED BY <1>5, <1>7, <1>8, <1>9, <1>10, <1>11, <1>12, GroupsNext DEF ThreadsOK

\* The release of a key, or a key without a character.
LEMMA ReleaseInv ==
    ASSUME IInv, LeaveHlt,
           UNCHANGED <<schedVars, irqVars, consoleVars, waitVars, sleepVars>>
    PROVE  IInv'
<1> USE Groups, TidFacts
<1>1. SchedTypes' /\ SchedOK' /\ ListOK' /\ Listed' = Listed
  BY SchedFrame
<1>2. /\ pc' \in [Tids -> Labels] /\ pc'[IDLE] \in {"hlt", "idle_yield", "wild"}
      /\ \A u \in Tids \ {IDLE} : pc'[u] = pc[u]
      /\ pc[IDLE] \in {"hlt", "idle_yield", "wild"}
  BY HltFacts DEF ThreadsOK, LabelsOK
<1>3. ProcTypes' /\ DeviceTypes'
  BY <1>2 DEF ProcTypes, DeviceTypes, irqVars, consoleVars, waitVars, sleepVars
<1>4. ThreadsOK'
  BY <1>1, <1>2 DEF ThreadsOK, LabelsOK, DeadOK, CurrentOK, schedVars
<1>5. ConsoleOK'
  BY <1>2 DEF ConsoleOK, ConsoleOwnerInside, ChannelOK, schedVars, consoleVars
<1>6. WaitOK'
  BY <1>2, WaitFrame DEF SameWaits, schedVars
<1>7. MainOK' /\ SpaceOK'
  BY <1>2, MainFrame DEF SameMain, schedVars, waitVars, sleepVars
<1> QED BY <1>1, <1>3, <1>4, <1>5, <1>6, <1>7, GroupsNext

\* A key, pressed or released, preserves the invariant.
LEMMA KeyboardInterruptInv == ASSUME IInv, KeyboardInterrupt PROVE IInv'
<1>1. PICK chars \in Keys :
        IF chars = <<>>
        THEN UNCHANGED <<schedVars, irqVars, consoleVars, waitVars, sleepVars>>
        ELSE HandleChar(chars) /\ isr' = TRUE
  BY DEF KeyboardInterrupt
<1>2. LeaveHlt
  BY DEF KeyboardInterrupt
<1>3. CASE chars = <<>>
  BY <1>1, <1>2, <1>3, ReleaseInv
<1>4. CASE chars # <<>>
  <2>1. chars \in Seq(Chars)
    BY KernelAssumption
  <2>2. isr' \in BOOLEAN
    BY <1>1, <1>4
  <2> QED BY <1>1, <1>2, <1>4, <2>1, <2>2, HandleCharInv
<1> QED BY <1>3, <1>4

\* So does the rest of keyboard_handler_c after a kernel_yield.
LEMMA KeyboardResumeInv == ASSUME IInv, KeyboardResume PROVE IInv'
<1>1. /\ todo[current_thread] \in Seq(Chars) /\ todo[current_thread] # <<>>
      /\ HandleChar(todo[current_thread]) /\ UNCHANGED pc
  BY TidFacts, ListedFacts DEF KeyboardResume, IInv, TypeOK
<1>2. isr' \in BOOLEAN
  BY DEF KeyboardResume, IInv, TypeOK
<1> QED BY <1>1, <1>2, HandleCharInv

\* A key inside schedule() ends the modelled behaviour in a state of the invariant.
LEMMA KeyInsideScheduleInv == ASSUME IInv, KeyInsideSchedule PROVE IInv'
<1> USE Groups, TidFacts DEF KeyInsideSchedule, Goto
<1>1. SchedTypes' /\ SchedOK' /\ ListOK' /\ Listed' = Listed
  BY SchedFrame
<1>2. /\ current_thread \in {MAIN, IDLE} /\ pc' \in [Tids -> Labels]
      /\ pc'[current_thread] = "wild"
      /\ \A u \in Tids \ {current_thread} : pc'[u] = pc[u]
  BY ListedFacts DEF SchedTypes, ProcTypes, Labels, ThreadsOK, LabelsOK, UserThreads,
                     SyscallLabels
<1>3. ProcTypes' /\ DeviceTypes'
  BY <1>2 DEF ProcTypes, DeviceTypes, waitVars, irqVars, consoleVars, sleepVars
<1>4. UNCHANGED <<state, current_thread, block_channel, console_read_owner, is_waiting,
                  wait_target_pid, parent, child, proc_cr3, sleeping_queue>>
  BY DEF schedVars, consoleVars, waitVars, sleepVars
<1>5. ThreadsOK' /\ ConsoleOK'
  <2>1. pc[current_thread] \in {"idle_yield", "wait_yield", "sleep_yield"}
        /\ ThreadsOK /\ ConsoleOK
    OBVIOUS
  <2>2. ThreadsOK'
    BY ONLY <1>1, <1>2, <1>4, <2>1, TidFacts
    DEF ThreadsOK, LabelsOK, DeadOK, CurrentOK, MainLabels
  <2>3. ConsoleOK'
    BY ONLY <1>2, <1>4, <2>1, TidFacts DEF ConsoleOK, ConsoleOwnerInside, ChannelOK
  <2> QED BY <2>2, <2>3
<1>6. ParentOK' /\ WaiterMarked' /\ WokenByDeath' /\ SleeperMarked'
  <2>1. pc[current_thread] \in {"idle_yield", "wait_yield", "sleep_yield"} /\ WaitOK
    OBVIOUS
  <2>2. ParentOK' /\ WaiterMarked'
    BY ONLY <1>1, <1>2, <1>4, <2>1, TidFacts DEF WaitOK, ParentOK, WaiterMarked
  <2>3. WokenByDeath'
    BY ONLY <1>1, <1>2, <1>4, <2>1, TidFacts DEF WaitOK, WokenByDeath
  <2>4. SleeperMarked'
    BY ONLY <1>2, <1>4, <2>1, TidFacts DEF WaitOK, SleeperMarked
  <2> QED BY <2>2, <2>3, <2>4
<1>7. MainOK' /\ SpaceOK'
  BY <1>1, <1>2, <1>4 DEF MainOK, SpaceOK
<1> QED BY <1>1, <1>3, <1>5, <1>6, <1>7, GroupsNext DEF WaitOK

-----------------------------------------------------------------------------
(* Steps of kmain and idle_loop that start no thread and wait for none.    *)

\* What all of kmain's steps between two calls of kernel_yield have in common.
LEMMA MainLocal ==
    ASSUME IInv, current_thread = MAIN, NEW l \in MainLabels \ {"wait_ret"},
           Goto(MAIN, l),
           \/ UNCHANGED state
           \/ \E s \in {"WAITING", "SLEEPING"} : state' = [state EXCEPT ![MAIN] = s],
           UNCHANGED <<next_tid, vruntime, current_thread, next_id, stack_top,
                       proc_cr3, cr3, consoleVars>>
    PROVE  /\ SchedTypes' /\ SchedOK' /\ ThreadsOK' /\ ConsoleOK'
           /\ Listed' = Listed /\ pc' \in [Tids -> Labels]
           /\ \A u \in Tids \ {MAIN} : pc'[u] = pc[u] /\ state'[u] = state[u]
           /\ pc'[MAIN] = l
<1> USE Groups, TidFacts, ListedFacts, SameListed DEF Goto, consoleVars
<1>1. Listed' = Listed
  OBVIOUS
<1>2. SchedTypes'
  BY <1>1 DEF SchedTypes, States
<1>3. /\ pc' \in [Tids -> Labels]
      /\ \A u \in Tids \ {MAIN} : pc'[u] = pc[u] /\ state'[u] = state[u]
      /\ pc'[MAIN] = l
      /\ UNCHANGED state \/ state'[MAIN] \in {"WAITING", "SLEEPING"}
  BY DEF SchedTypes, ProcTypes, Labels, SyscallLabels, MainLabels
<1>4. SchedOK'
  BY <1>1, <1>3 DEF SchedTypes, SchedOK, OnlyCurrentRuns, IdleRunnable, ContextFollowsThread
<1>5. ThreadsOK'
  <2>1. LabelsOK'
    BY <1>3 DEF ThreadsOK, LabelsOK
  <2>2. ListOK' /\ DeadOK'
    <3>1. ListOK /\ DeadOK /\ pc[MAIN] \in MainLabels
      BY DEF ThreadsOK, LabelsOK
    <3>2. MAIN \in Listed /\ MAIN \in Tids
      BY DEF SchedTypes
    <3>3. pc[MAIN] # "exited" /\ l # "exited"
      BY ONLY <3>1, l \in MainLabels DEF MainLabels
    <3>4. state[MAIN] # "NEW" /\ state[MAIN] # "DEAD"
      BY ONLY <3>1, <3>2, <3>3 DEF ListOK, DeadOK
    <3>5. state'[MAIN] # "NEW" /\ state'[MAIN] # "DEAD"
      BY ONLY <1>3, <3>4
    <3>6. ListOK'
      BY ONLY <1>1, <1>3, <3>1, <3>2, <3>5 DEF ListOK
    <3>7. DeadOK'
      BY ONLY <1>3, <3>1, <3>3, <3>5 DEF DeadOK
    <3> QED BY ONLY <3>6, <3>7
  <2>3. CurrentOK'
    BY <1>3 DEF CurrentOK
  <2> QED BY <2>1, <2>2, <2>3 DEF ThreadsOK
<1>6. ConsoleOK'
  <2>1. /\ ConsoleOwnerInside /\ ChannelOK /\ pc[MAIN] \in MainLabels
        /\ block_channel' = block_channel /\ console_read_owner' = console_read_owner
    BY DEF ConsoleOK, ThreadsOK, LabelsOK
  <2>2. pc[MAIN] # "read_char" /\ l # "read_char"
    BY ONLY <2>1, l \in MainLabels DEF MainLabels
  <2>3. ConsoleOwnerInside'
    BY ONLY <1>3, <2>1, <2>2 DEF ConsoleOwnerInside
  <2>4. \A u \in UserThreads : pc'[u] = pc[u] /\ state'[u] = state[u]
    BY ONLY <1>3, TidFacts
  <2>5. ChannelOK'
    BY ONLY <2>1, <2>4 DEF ChannelOK
  <2> QED BY ONLY <2>3, <2>5 DEF ConsoleOK
<1> QED BY <1>1, <1>2, <1>3, <1>4, <1>5, <1>6

\* kusleep sets STATE_SLEEPING.
LEMMA SleepMarkInv == ASSUME IInv, SleepMark PROVE IInv'
<1> USE Groups, TidFacts
    DEF SleepMark, At, Goto, schedVars, waitVars, consoleVars, irqVars, sleepVars
<1>1. /\ SchedTypes' /\ SchedOK' /\ ThreadsOK' /\ ConsoleOK' /\ Listed' = Listed
      /\ \A u \in Tids \ {MAIN} : pc'[u] = pc[u] /\ state'[u] = state[u]
      /\ pc'[MAIN] = "sleep_push" /\ pc' \in [Tids -> Labels]
  BY MainLocal DEF MainLabels
<1>2. ProcTypes' /\ DeviceTypes'
  <2>1. sleeps' \in 0 .. SLEEPS
    BY KernelAssumption DEF DeviceTypes
  <2> QED BY <1>1, <2>1 DEF ProcTypes, DeviceTypes
<1>3. WaitOK'
  <2>1. state'[MAIN] = "SLEEPING" /\ state[MAIN] # "DEAD"
    BY DEF SchedTypes, ThreadsOK, DeadOK
  <2> QED BY <1>1, <2>1, WaitFrame DEF SameWaits
<1>4. MainOK' /\ SpaceOK'
  BY <1>1 DEF MainOK, SpaceOK
<1> QED BY <1>1, <1>2, <1>3, <1>4, GroupsNext

\* kusleep pushes its entry on the delta queue.
LEMMA SleepPushInv == ASSUME IInv, SleepPush PROVE IInv'
<1> USE Groups, TidFacts
    DEF SleepPush, At, Goto, schedVars, waitVars, consoleVars, irqVars, sleepVars
<1>1. /\ SchedTypes' /\ SchedOK' /\ ThreadsOK' /\ ConsoleOK' /\ Listed' = Listed
      /\ \A u \in Tids \ {MAIN} : pc'[u] = pc[u] /\ state'[u] = state[u]
      /\ pc'[MAIN] = "sleep_yield" /\ pc' \in [Tids -> Labels]
  BY MainLocal DEF MainLabels
<1>2. ProcTypes' /\ DeviceTypes'
  <2> DEFINE Entry == [delta : 0 .. SLEEP_MS, tid : {MAIN}]
  <2>1. <<[delta |-> SLEEP_MS, tid |-> MAIN]>> \in Seq(Entry)
    BY KernelAssumption
  <2>2. sleeping_queue' \in Seq(Entry)
    BY <2>1 DEF DeviceTypes
  <2> QED BY <1>1, <2>2 DEF ProcTypes, DeviceTypes
<1>3. WaitOK'
  BY <1>1, WaitFrame DEF SameWaits
<1>4. MainOK' /\ SpaceOK'
  BY <1>1 DEF MainOK, SpaceOK
<1> QED BY <1>1, <1>2, <1>3, <1>4, GroupsNext

\* kmain reboots.
LEMMA RebootInv == ASSUME IInv, Reboot PROVE IInv'
<1> USE Groups, TidFacts
    DEF Reboot, At, Goto, schedVars, waitVars, consoleVars, irqVars, sleepVars
<1>1. /\ SchedTypes' /\ SchedOK' /\ ThreadsOK' /\ ConsoleOK' /\ Listed' = Listed
      /\ \A u \in Tids \ {MAIN} : pc'[u] = pc[u] /\ state'[u] = state[u]
      /\ pc'[MAIN] = "off" /\ pc' \in [Tids -> Labels]
  BY MainLocal DEF MainLabels
<1>2. ProcTypes' /\ DeviceTypes'
  BY <1>1 DEF ProcTypes, DeviceTypes
<1>3. WaitOK'
  BY <1>1, WaitFrame DEF SameWaits
<1>4. MainOK' /\ SpaceOK'
  BY <1>1 DEF MainOK, SpaceOK
<1> QED BY <1>1, <1>2, <1>3, <1>4, GroupsNext

\* proc->cr3 = pml4_phys closes the window in which the process has no space.
LEMMA SetCr3Inv == ASSUME IInv, SetCr3 PROVE IInv'
<1> USE Groups, TidFacts, SameListed
    DEF SetCr3, At, Goto, waitVars, consoleVars, irqVars, sleepVars
<1>1. /\ child[MAIN] \in UserThreads /\ Listed' = Listed
      /\ \A u \in Tids \ {MAIN} : pc'[u] = pc[u]
      /\ pc'[MAIN] = "set_parent"
      /\ \A u \in Tids \ {child[MAIN]} : proc_cr3'[u] = proc_cr3[u]
      /\ proc_cr3'[child[MAIN]] = child[MAIN]
  BY DEF ProcTypes, SchedTypes, MainOK
<1>2. SchedTypes' /\ ProcTypes' /\ DeviceTypes'
  <2>1. SchedTypes'
    BY <1>1 DEF SchedTypes
  <2>2. ProcTypes'
    BY DEF ProcTypes, Labels
  <2>3. DeviceTypes'
    BY DEF DeviceTypes
  <2> QED BY <2>1, <2>2, <2>3
<1>3. SchedOK'
  BY <1>1 DEF SchedOK, OnlyCurrentRuns, IdleRunnable, ContextFollowsThread, Proc
<1>4. ThreadsOK' /\ ConsoleOK'
  <2>1. /\ UNCHANGED <<state, current_thread, consoleVars>> /\ pc[MAIN] = "set_cr3"
        /\ ThreadsOK /\ ConsoleOK /\ block_channel \subseteq Tids
    BY DEF DeviceTypes
  <2>2. ThreadsOK'
    BY ONLY <1>1, <2>1, TidFacts
    DEF ThreadsOK, LabelsOK, MainLabels, ListOK, DeadOK, CurrentOK
  <2>3. ConsoleOK'
    BY ONLY <1>1, <2>1, TidFacts DEF ConsoleOK, ConsoleOwnerInside, ChannelOK, consoleVars
  <2> QED BY <2>2, <2>3
<1>5. WaitOK'
  BY <1>1, WaitFrame DEF SameWaits
<1>6. MainOK' /\ SpaceOK'
  <2>1. MainOK /\ SpaceOK /\ UNCHANGED <<child, sleeping_queue>> /\ pc[MAIN] = "set_cr3"
        /\ Listed \subseteq Tids
    BY ListedFacts DEF SchedTypes
  <2> QED BY ONLY <1>1, <2>1, TidFacts DEF MainOK, SpaceOK
<1> QED BY <1>2, <1>3, <1>4, <1>5, <1>6, GroupsNext

\* sys_waitpid returning, in kmain or in a user thread: its caller has been woken,
\* so it is marked as a waiter no longer.
LEMMA WaitReturnInv == ASSUME IInv, NEW t \in Tids, WaitReturn(t) PROVE IInv'
<1> USE Groups, TidFacts
    DEF WaitReturn, At, Goto, schedVars, waitVars, consoleVars, irqVars, sleepVars
<1>1. SchedTypes' /\ SchedOK' /\ ListOK' /\ Listed' = Listed
  BY SchedFrame
<1>2. /\ t \in UserThreads \cup {MAIN} /\ state[t] # "WAITING" /\ ~is_waiting[t]
      /\ \A u \in Tids \ {t} : pc'[u] = pc[u]
      /\ pc'[t] \in {"kusleep", "user"} /\ (t = MAIN <=> pc'[t] = "kusleep")
  BY DEF ProcTypes, ThreadsOK, LabelsOK, CurrentOK, WaitOK, WaiterMarked, UserThreads
<1>3. ProcTypes' /\ DeviceTypes'
  BY DEF ProcTypes, DeviceTypes, Labels, SyscallLabels
<1>4. ThreadsOK'
  <2>1. LabelsOK /\ DeadOK /\ CurrentOK /\ pc[t] = "wait_ret"
        /\ state' = state /\ current_thread' = current_thread
    BY DEF ThreadsOK
  <2>2. LabelsOK'
    BY ONLY <1>2, <2>1, TidFacts DEF LabelsOK, MainLabels
  <2>3. DeadOK'
    BY ONLY <1>2, <2>1 DEF DeadOK
  <2>4. CurrentOK'
    BY ONLY <1>2, <2>1, TidFacts DEF CurrentOK
  <2> QED BY ONLY <1>1, <2>2, <2>3, <2>4 DEF ThreadsOK
<1>5. ConsoleOK'
  BY <1>2 DEF ConsoleOK, ConsoleOwnerInside, ChannelOK
<1>6. WaitOK'
  <2>1. /\ UNCHANGED <<state, is_waiting, wait_target_pid, parent, child>> /\ WaitOK
        /\ pc[t] = "wait_ret"
    OBVIOUS
  <2>2. ParentOK' /\ WaiterMarked'
    BY ONLY <1>1, <1>2, <2>1, TidFacts DEF WaitOK, ParentOK, WaiterMarked
  <2>3. WokenByDeath' /\ SleeperMarked'
    BY ONLY <1>1, <1>2, <2>1, TidFacts DEF WaitOK, WokenByDeath, SleeperMarked
  <2> QED BY <2>2, <2>3 DEF WaitOK
<1>7. MainOK' /\ SpaceOK'
  BY <1>1, <1>2 DEF MainOK, SpaceOK
<1> QED BY <1>1, <1>3, <1>4, <1>5, <1>6, <1>7, GroupsNext

\* A thread that yields in state, without blocking first in the same step.
LEMMA PlainYield ==
    ASSUME IInv, NEW site, kernel_yield(site, state), UNCHANGED yieldUnchanged,
           NEW t \in {MAIN, IDLE}, current_thread = t, NEW l \in Labels, Goto(t, l),
           t = IDLE => l = "hlt", t = MAIN => l \in MainLabels,
           UNCHANGED <<irqVars, consoleVars, waitVars, sleepVars>>,
           l = "wait_ret" => pc[MAIN] = "wait_yield" /\ site \notin StaleFrom
    PROVE  /\ SchedTypes' /\ SchedOK' /\ Listed' = Listed
           /\ ProcTypes' /\ DeviceTypes' /\ ThreadsOK' /\ ConsoleOK'
           /\ \A u \in Tids : \A s \in {"WAITING", "DEAD"} : state'[u] = s <=> state[u] = s
           /\ \A u \in Tids \ {t} : pc'[u] = pc[u]
           /\ pc'[t] = l
<1> USE Groups, TidFacts
<1>1. /\ SchedTypes' /\ SchedOK' /\ Listed' = Listed
      /\ \A u \in Tids : \/ state'[u] = state[u]
                         \/ /\ state[u] \in {"READY", "RUNNING"}
                            /\ state'[u] \in {"READY", "RUNNING"}
      /\ \/ state'[current_thread'] = "RUNNING"
         \/ current_thread' = t /\ state'[t] = state[t]
      /\ site \notin StaleFrom /\ state[t] \notin {"READY", "RUNNING"}
            /\ next_tid # 2 => state'[current_thread'] = "RUNNING"
  BY YieldStep DEF SchedTypes
<1>2. \A u \in Tids : \A s \in {"WAITING", "DEAD", "NEW"} : state'[u] = s <=> state[u] = s
  BY <1>1
<1>3. (\A u \in Tids \ {t} : pc'[u] = pc[u]) /\ pc'[t] = l
  <2>1. pc \in [Tids -> Labels]
    BY DEF ProcTypes
  <2> QED BY ONLY <2>1, Goto(t, l), t \in {MAIN, IDLE}, TidFacts DEF Goto
<1>4. ProcTypes' /\ DeviceTypes'
  BY DEF ProcTypes, DeviceTypes, Goto, irqVars, consoleVars, waitVars, sleepVars
<1>5. LabelsOK' /\ ListOK' /\ DeadOK'
  <2>1. /\ ThreadsOK /\ t \in {MAIN, IDLE} /\ (t = IDLE => l = "hlt")
        /\ (t = MAIN => l \in MainLabels)
    OBVIOUS
  <2>2. LabelsOK'
    BY ONLY <1>3, <2>1, TidFacts DEF ThreadsOK, LabelsOK
  <2>3. ListOK'
    BY ONLY <1>1, <1>2, <2>1 DEF ThreadsOK, ListOK
  <2>4. l # "exited" /\ pc[t] # "exited" /\ DeadOK
    BY ONLY <2>1, TidFacts DEF ThreadsOK, LabelsOK, MainLabels
  <2>5. DeadOK'
    BY ONLY <1>2, <1>3, <2>4 DEF DeadOK
  <2> QED BY ONLY <2>2, <2>3, <2>5
<1>6. CurrentOK'
  <2>1. current_thread' \in UserThreads => state'[current_thread'] = "RUNNING"
    BY <1>1
  <2>2. l = "wait_ret" => next_tid # 2
    BY ListedFacts DEF MainOK, SchedTypes
  <2>3. current_thread' = MAIN /\ pc'[MAIN] = "wait_ret" => state'[MAIN] # "WAITING"
    BY <1>1, <1>3, <2>2 DEF ThreadsOK, LabelsOK
  <2> QED BY <2>1, <2>3 DEF CurrentOK
<1>7. ConsoleOK'
  <2>1. pc[t] # "read_char" /\ pc'[t] # "read_char"
    BY <1>3 DEF ThreadsOK, LabelsOK, MainLabels
  <2>2. ConsoleOwnerInside'
    BY <1>3, <2>1 DEF ConsoleOK, ConsoleOwnerInside, consoleVars
  <2>3. ChannelOK'
    BY <1>2, <1>3 DEF ConsoleOK, ChannelOK, consoleVars
  <2> QED BY <2>2, <2>3 DEF ConsoleOK
<1> QED BY <1>1, <1>2, <1>3, <1>4, <1>5, <1>6, <1>7 DEF ThreadsOK

\* idle_loop's kernel_yield preserves the invariant.
LEMMA IdleYieldInv == ASSUME IInv, IdleYield PROVE IInv'
<1> USE Groups, TidFacts DEF IdleYield, At
<1>1. /\ SchedTypes' /\ SchedOK' /\ Listed' = Listed
      /\ ProcTypes' /\ DeviceTypes' /\ ThreadsOK' /\ ConsoleOK'
      /\ \A u \in Tids : \A s \in {"WAITING", "DEAD"} : state'[u] = s <=> state[u] = s
      /\ \A u \in Tids \ {IDLE} : pc'[u] = pc[u]
      /\ pc'[IDLE] = "hlt"
  BY PlainYield DEF Labels
<1>2. WaitOK' /\ MainOK' /\ SpaceOK'
  BY <1>1, WaitFrame, MainFrame
  DEF SameWaits, SameMain, ThreadsOK, LabelsOK, yieldUnchanged, waitVars, sleepVars
<1> QED BY <1>1, <1>2, GroupsNext

\* kusleep's kernel_yield preserves the invariant.
LEMMA SleepYieldInv == ASSUME IInv, SleepYield PROVE IInv'
<1> USE Groups, TidFacts DEF SleepYield, At
<1>1. /\ SchedTypes' /\ SchedOK' /\ Listed' = Listed
      /\ ProcTypes' /\ DeviceTypes' /\ ThreadsOK' /\ ConsoleOK'
      /\ \A u \in Tids : \A s \in {"WAITING", "DEAD"} : state'[u] = s <=> state[u] = s
      /\ \A u \in Tids \ {MAIN} : pc'[u] = pc[u]
      /\ pc'[MAIN] = "kusleep"
  BY PlainYield DEF Labels, MainLabels
<1>2. WaitOK'
  BY <1>1, WaitFrame DEF SameWaits, yieldUnchanged
<1>3. MainOK' /\ SpaceOK'
  BY <1>1 DEF MainOK, SpaceOK, yieldUnchanged, waitVars, sleepVars
<1> QED BY <1>1, <1>2, <1>3, GroupsNext

\* kmain's sys_waitpid gives the processor up.
LEMMA WaitYieldInv == ASSUME IInv, BlockingCallsYield, WaitYield PROVE IInv'
<1> USE Groups, TidFacts DEF WaitYield, At
<1>1. /\ SchedTypes' /\ SchedOK' /\ Listed' = Listed
      /\ ProcTypes' /\ DeviceTypes' /\ ThreadsOK' /\ ConsoleOK'
      /\ \A u \in Tids : \A s \in {"WAITING", "DEAD"} : state'[u] = s <=> state[u] = s
      /\ \A u \in Tids \ {MAIN} : pc'[u] = pc[u]
      /\ pc'[MAIN] = "wait_ret"
  BY PlainYield DEF Labels, SyscallLabels, MainLabels, BlockingCallsYield
<1>2. ParentOK' /\ WaiterMarked'
  BY <1>1 DEF WaitOK, ParentOK, WaiterMarked, waitVars
<1>3. WokenByDeath'
  BY <1>1, ListedFacts DEF WaitOK, WokenByDeath, waitVars, SchedTypes
<1>4. SleeperMarked'
  <2>1. /\ WaitOK /\ UNCHANGED waitVars /\ Listed \subseteq Tids
    BY ListedFacts DEF SchedTypes
  <2>2. \A u \in UserThreads : pc'[u] = pc[u] /\ u \in Tids
    BY ONLY <1>1, TidFacts
  <2>3. \A u \in UserThreads : pc[u] = "wait_ret" => child[u] \in Tids
    BY ONLY <2>1, <2>2 DEF WaitOK, WokenByDeath
  <2>4. \A u \in Tids : \A s \in {"WAITING", "DEAD"} : state'[u] = s <=> state[u] = s
    BY ONLY <1>1
  <2>5. SleeperMarked /\ UNCHANGED <<is_waiting, parent, child>>
    BY ONLY <2>1 DEF WaitOK, waitVars
  <2> QED BY ONLY <2>2, <2>3, <2>4, <2>5 DEF SleeperMarked
<1>5. MainOK' /\ SpaceOK'
  BY <1>1 DEF MainOK, SpaceOK, yieldUnchanged, waitVars, sleepVars
<1> QED BY <1>1, <1>2, <1>3, <1>4, <1>5, GroupsNext DEF WaitOK
=============================================================================
