------------------------ MODULE KernelSyscallProofs -------------------------
(***************************************************************************)
(* Starting programs, waiting for them and the system calls preserve the   *)
(* inductive invariant.                                                    *)
(***************************************************************************)
EXTENDS KernelInv

-----------------------------------------------------------------------------
(* kmain: execute_elf and the wait for the shell.                          *)


\* The two outcomes of execute_elf in kmain.
LaunchNew ==
    /\ At(MAIN, "launch")
    /\ new_elf_process(NoSpace)
    /\ child' = [child EXCEPT ![MAIN] = next_tid]
    /\ Goto(MAIN, "set_cr3")
    /\ UNCHANGED <<irqVars, consoleVars, is_waiting, wait_target_pid, parent,
                   sleepVars>>

LaunchFails ==
    /\ At(MAIN, "launch")
    /\ child' = [child EXCEPT ![MAIN] = NULL]
    /\ Goto(MAIN, "wait_check")
    /\ UNCHANGED schedVars
    /\ UNCHANGED <<irqVars, consoleVars, is_waiting, wait_target_pid, parent,
                   sleepVars>>

\* What new_elf_process does, whoever calls it.
LEMMA NewThread ==
    ASSUME IInv, NEW space \in Tids \cup {NoSpace}, new_elf_process(space),
           current_thread # IDLE
    PROVE  /\ next_tid \in UserThreads /\ next_tid \notin Listed
           /\ Listed' = Listed \cup {next_tid}
           /\ Listed \subseteq Tids
           /\ SchedTypes' /\ SchedOK' /\ ListOK'
           /\ \A u \in Tids \ {next_tid} : state'[u] = state[u]
                                           /\ proc_cr3'[u] = proc_cr3[u]
           /\ state[next_tid] = "NEW"
           /\ state'[next_tid] = "READY" /\ proc_cr3'[next_tid] = space
           /\ UNCHANGED current_thread
<1> USE Groups, TidFacts
<1>1. /\ next_tid \in UserThreads /\ next_tid \notin Listed
      /\ Listed' = Listed \cup {next_tid} /\ next_tid' \in 2 .. MaxThreads
      /\ Listed \subseteq Tids
  BY NewListed, ListedFacts DEF SchedTypes
<1>2. /\ state' = [state EXCEPT ![next_tid] = "READY"]
      /\ vruntime' = [vruntime EXCEPT ![next_tid] = 0]
      /\ proc_cr3' = [proc_cr3 EXCEPT ![next_tid] = space]
      /\ UNCHANGED <<current_thread, next_id, stack_top, cr3>>
  BY DEF new_elf_process
<1>3. vruntime' \in [Tids -> 0 .. MaxVruntime]
  <2>1. 0 \in 0 .. MaxVruntime
    BY KernelAssumption
  <2> QED BY <1>2, <2>1 DEF SchedTypes
<1>4. SchedTypes'
  BY <1>1, <1>2, <1>3 DEF SchedTypes, States
<1>5. /\ \A u \in Tids \ {next_tid} : state'[u] = state[u] /\ proc_cr3'[u] = proc_cr3[u]
      /\ state[next_tid] = "NEW"
      /\ state'[next_tid] = "READY" /\ proc_cr3'[next_tid] = space
  BY <1>1, <1>2 DEF SchedTypes, ThreadsOK, ListOK
<1>6. current_thread # next_tid /\ Proc(current_thread) # next_tid
  BY <1>1 DEF SchedTypes, Proc
<1>7. SchedOK'
  BY <1>1, <1>2, <1>5, <1>6
  DEF SchedTypes, SchedOK, OnlyCurrentRuns, IdleRunnable, ContextFollowsThread
<1>8. ListOK'
  BY <1>1, <1>5 DEF ThreadsOK, ListOK
<1> QED BY <1>1, <1>2, <1>4, <1>5, <1>7, <1>8

\* A new thread is in nobody's call of sys_waitpid.
LEMMA NewThreadWaits ==
    ASSUME IInv, next_tid \in UserThreads, next_tid \notin Listed,
           Listed' = Listed \cup {next_tid}, Listed \subseteq Tids,
           \A u \in Tids \ {next_tid} : state'[u] = state[u],
           state[next_tid] = "NEW", state'[next_tid] = "READY",
           \A u \in Tids : pc[u] \in {"wait_block", "wait_yield", "wait_ret", "wild"} =>
                              pc'[u] = pc[u] /\ child'[u] = child[u],
           \A u \in Tids : pc'[u] \in {"wait_yield", "wait_ret"} => pc'[u] = pc[u],
           UNCHANGED <<is_waiting, wait_target_pid>>,
           \A u \in Tids \ {next_tid} : parent'[u] = parent[u],
           parent'[next_tid] # IDLE,
           parent'[next_tid] \in Listed \cup {NULL}
    PROVE  WaitOK'
<1> USE Groups, TidFacts
<1>1. ParentOK'
  BY DEF WaitOK, ParentOK
<1>2. next_tid \in Tids
      /\ \A u \in Tids : state'[u] # state[u] => u = next_tid
  OBVIOUS
<1>3. WaiterMarked'
  BY DEF WaitOK, WaiterMarked
<1>4. WokenByDeath'
  BY DEF WaitOK, WokenByDeath
<1>5. SleeperMarked'
  BY DEF WaitOK, WokenByDeath, SleeperMarked
<1> QED BY <1>1, <1>3, <1>4, <1>5 DEF WaitOK

\* execute_elf up to push_new_thread preserves the invariant.
LEMMA LaunchNewInv == ASSUME IInv, LaunchNew PROVE IInv'
<1> USE Groups, TidFacts
    DEF At, Goto, waitVars, consoleVars, irqVars, sleepVars
<1>1. /\ current_thread = MAIN /\ pc[MAIN] = "launch" /\ new_elf_process(NoSpace)
      /\ child' = [child EXCEPT ![MAIN] = next_tid]
      /\ pc' = [pc EXCEPT ![MAIN] = "set_cr3"]
      /\ UNCHANGED <<irqVars, consoleVars, is_waiting, wait_target_pid, parent, sleepVars>>
  BY DEF LaunchNew
<1>2. /\ next_tid \in UserThreads /\ next_tid \notin Listed
      /\ Listed' = Listed \cup {next_tid}
      /\ Listed \subseteq Tids
      /\ SchedTypes' /\ SchedOK' /\ ListOK'
      /\ \A u \in Tids \ {next_tid} : state'[u] = state[u] /\ proc_cr3'[u] = proc_cr3[u]
      /\ state[next_tid] = "NEW"
      /\ state'[next_tid] = "READY" /\ UNCHANGED current_thread
  BY <1>1, NewThread
<1>3. ProcTypes' /\ DeviceTypes'
  BY <1>1, <1>2 DEF ProcTypes, DeviceTypes, Labels
<1>4. /\ \A u \in Tids \ {MAIN} : pc'[u] = pc[u] /\ child'[u] = child[u]
      /\ pc'[MAIN] = "set_cr3" /\ child'[MAIN] = next_tid
  BY <1>1 DEF ProcTypes
<1>5. ThreadsOK'
  BY <1>1, <1>2, <1>4 DEF ThreadsOK, LabelsOK, MainLabels, DeadOK, CurrentOK
<1>6. ConsoleOK'
  <2>1. UNCHANGED <<console_read_owner, block_channel>> /\ ConsoleOwnerInside /\ ChannelOK
    BY <1>1 DEF ConsoleOK
  <2>2. ConsoleOwnerInside'
    BY <1>1, <1>4, <2>1 DEF ConsoleOwnerInside
  <2>3. ChannelOK'
    BY <1>1, <1>2, <1>4, <2>1 DEF ChannelOK
  <2> QED BY <2>2, <2>3 DEF ConsoleOK
<1>7. parent'[next_tid] # IDLE /\ parent'[next_tid] \in Listed \cup {NULL}
  BY <1>1, <1>2 DEF WaitOK, ParentOK
<1>8. WaitOK'
  BY <1>1, <1>2, <1>4, <1>7, NewThreadWaits
<1>9. MainOK' /\ SpaceOK'
  BY <1>1, <1>2, <1>4 DEF MainOK, SpaceOK
<1> QED BY <1>2, <1>3, <1>5, <1>6, <1>8, <1>9, GroupsNext

\* So does an execute_elf that fails.
LEMMA LaunchFailsInv == ASSUME IInv, LaunchFails PROVE IInv'
<1> USE Groups, TidFacts
    DEF LaunchFails, At, Goto, schedVars, waitVars, consoleVars, irqVars, sleepVars
<1>1. /\ SchedTypes' /\ SchedOK' /\ ThreadsOK' /\ ConsoleOK' /\ Listed' = Listed
      /\ \A u \in Tids \ {MAIN} : pc'[u] = pc[u] /\ state'[u] = state[u]
      /\ pc'[MAIN] = "wait_check" /\ pc' \in [Tids -> Labels]
  BY MainLocal DEF MainLabels
<1>2. ProcTypes' /\ DeviceTypes'
  BY <1>1 DEF ProcTypes, DeviceTypes
<1>3. \A u \in Tids \ {MAIN} : child'[u] = child[u]
  BY DEF ProcTypes
<1>4. ParentOK' /\ WaiterMarked'
  BY <1>1, <1>3 DEF WaitOK, ParentOK, WaiterMarked
<1>5. WokenByDeath'
  BY <1>1, <1>3 DEF WaitOK, WokenByDeath
<1>6. SleeperMarked'
  BY <1>1, <1>3 DEF WaitOK, SleeperMarked
<1>7. MainOK' /\ SpaceOK'
  BY <1>1, <1>3 DEF MainOK, SpaceOK, ProcTypes
<1> QED BY <1>1, <1>2, <1>4, <1>5, <1>6, <1>7, GroupsNext DEF WaitOK

\* kmain's execute_elf, whether it succeeds or not.
LEMMA LaunchInv == ASSUME IInv, Launch PROVE IInv'
BY LaunchNewInv, LaunchFailsInv DEF Launch, LaunchNew, LaunchFails

\* proc->parent = get_current_process() preserves the invariant.
LEMMA SetParentInv == ASSUME IInv, SetParent PROVE IInv'
<1> USE Groups, TidFacts
    DEF SetParent, At, Goto, schedVars, waitVars, consoleVars, irqVars, sleepVars
<1>1. /\ SchedTypes' /\ SchedOK' /\ ThreadsOK' /\ ConsoleOK' /\ Listed' = Listed
      /\ \A u \in Tids \ {MAIN} : pc'[u] = pc[u] /\ state'[u] = state[u]
      /\ pc'[MAIN] = "wait_check" /\ pc' \in [Tids -> Labels]
  BY MainLocal DEF MainLabels
<1>2. ProcTypes' /\ DeviceTypes'
  BY <1>1 DEF ProcTypes, DeviceTypes, Proc
<1>3. WaitOK'
  <2>0. \A u \in Tids : parent'[u] = parent[u] \/ parent'[u] = MAIN
    BY DEF ProcTypes, Proc
  <2>1. ParentOK'
    <3>1. MAIN \in Listed
      BY ListedFacts DEF SchedTypes
    <3>2. ParentOK
      BY DEF WaitOK
    <3> QED BY ONLY <1>1, <2>0, <3>1, <3>2, TidFacts DEF ParentOK
  <2>2. WaiterMarked'
    BY <1>1 DEF WaitOK, WaiterMarked
  <2>3. WokenByDeath'
    BY <1>1 DEF WaitOK, WokenByDeath
  <2>4. SleeperMarked'
    BY <1>1, <2>0, ListedFacts DEF SchedTypes, WaitOK, WokenByDeath, SleeperMarked
  <2> QED BY <2>1, <2>2, <2>3, <2>4 DEF WaitOK
<1>4. MainOK' /\ SpaceOK'
  BY <1>1 DEF MainOK, SpaceOK
<1> QED BY <1>1, <1>2, <1>3, <1>4, GroupsNext

\* The early returns of kmain's sys_waitpid preserve the invariant.
LEMMA WaitCheckInv == ASSUME IInv, WaitCheck PROVE IInv'
<1> USE Groups, TidFacts
    DEF WaitCheck, At, Goto, schedVars, waitVars, consoleVars, irqVars, sleepVars
<1>1. /\ SchedTypes' /\ SchedOK' /\ ThreadsOK' /\ ConsoleOK' /\ Listed' = Listed
      /\ \A u \in Tids \ {MAIN} : pc'[u] = pc[u] /\ state'[u] = state[u]
      /\ pc'[MAIN] = (IF child[MAIN] = NULL \/ state[child[MAIN]] = "DEAD"
                      THEN "kusleep" ELSE "wait_mark") /\ pc' \in [Tids -> Labels]
  BY MainLocal DEF MainLabels
<1>2. ProcTypes' /\ DeviceTypes'
  BY <1>1 DEF ProcTypes, DeviceTypes
<1>3. WaitOK'
  BY <1>1, WaitFrame DEF SameWaits
<1>4. MainOK' /\ SpaceOK'
  BY <1>1 DEF MainOK, SpaceOK
<1> QED BY <1>1, <1>2, <1>3, <1>4, GroupsNext

\* kmain records what it waits for.
LEMMA WaitMarkInv == ASSUME IInv, WaitMark PROVE IInv'
<1> USE Groups, TidFacts
    DEF WaitMark, At, Goto, schedVars, waitVars, consoleVars, irqVars, sleepVars
<1>1. /\ SchedTypes' /\ SchedOK' /\ ThreadsOK' /\ ConsoleOK' /\ Listed' = Listed
      /\ \A u \in Tids \ {MAIN} : pc'[u] = pc[u] /\ state'[u] = state[u]
      /\ pc'[MAIN] = "wait_block" /\ pc' \in [Tids -> Labels]
  BY MainLocal DEF MainLabels
<1>2. ProcTypes' /\ DeviceTypes'
  <2>1. wait_target_pid' \in [Tids -> Tids] /\ is_waiting' \in [Tids -> BOOLEAN]
    BY DEF ProcTypes, MainOK
  <2> QED BY <1>1, <2>1 DEF ProcTypes, DeviceTypes
<1>3. WaitOK'
  <2>0. /\ \A u \in Tids \ {MAIN} : /\ is_waiting'[u] = is_waiting[u]
                                    /\ wait_target_pid'[u] = wait_target_pid[u]
        /\ wait_target_pid'[MAIN] = child[MAIN]
    BY DEF ProcTypes
  <2>1. ParentOK'
    BY <1>1 DEF WaitOK, ParentOK
  <2>2. WaiterMarked'
    BY <1>1, <2>0 DEF WaitOK, WaiterMarked
  <2>3. WokenByDeath'
    BY <1>1 DEF WaitOK, WokenByDeath
  <2>4. SleeperMarked'
    BY <1>1, <2>0 DEF WaitOK, SleeperMarked
  <2> QED BY <2>1, <2>2, <2>3, <2>4 DEF WaitOK
<1>4. MainOK' /\ SpaceOK'
  BY <1>1 DEF MainOK, SpaceOK
<1> QED BY <1>1, <1>2, <1>3, <1>4, GroupsNext

\* kmain's sys_waitpid sets STATE_WAITING.
LEMMA WaitBlockInv == ASSUME IInv, WaitBlock PROVE IInv'
<1> USE Groups, TidFacts
    DEF WaitBlock, At, Goto, schedVars, waitVars, consoleVars, irqVars, sleepVars
<1>1. /\ SchedTypes' /\ SchedOK' /\ ThreadsOK' /\ ConsoleOK' /\ Listed' = Listed
      /\ \A u \in Tids \ {MAIN} : pc'[u] = pc[u] /\ state'[u] = state[u]
      /\ pc'[MAIN] = "wait_yield" /\ pc' \in [Tids -> Labels]
  BY MainLocal DEF MainLabels
<1>2. ProcTypes' /\ DeviceTypes'
  BY <1>1 DEF ProcTypes, DeviceTypes
<1>3. WaitOK'
  <2>0. state'[MAIN] = "WAITING"
    BY DEF SchedTypes
  <2>1. ParentOK'
    BY <1>1 DEF WaitOK, ParentOK
  <2>2. WaiterMarked'
    BY <1>1, <2>0 DEF WaitOK, WaiterMarked
  <2>3. WokenByDeath'
    <3>1. child[MAIN] \in Listed /\ WokenByDeath
      BY DEF WaitOK, MainOK
    <3>2. \A u \in Tids : state[u] = "DEAD" => state'[u] = "DEAD"
      BY <1>1 DEF ThreadsOK, DeadOK, LabelsOK, MainLabels
    <3>3. UNCHANGED child /\ Listed \subseteq Tids
      BY ListedFacts DEF SchedTypes
    <3> QED BY ONLY <1>1, <2>0, <3>1, <3>2, <3>3 DEF WokenByDeath
  <2>4. SleeperMarked'
    BY <1>1 DEF WaitOK, WokenByDeath, SleeperMarked, ThreadsOK, DeadOK
  <2> QED BY <2>1, <2>2, <2>3, <2>4 DEF WaitOK
<1>4. MainOK' /\ SpaceOK'
  BY <1>1 DEF MainOK, SpaceOK
<1> QED BY <1>1, <1>2, <1>3, <1>4, GroupsNext

-----------------------------------------------------------------------------
(* The system calls.                                                       *)

\* A user thread on the processor outside sys_exit is RUNNING.
LEMMA UserRuns ==
    ASSUME IInv, NEW t \in UserThreads, current_thread = t, pc[t] # "exited"
    PROVE  /\ t \in Tids /\ t # MAIN /\ t # IDLE /\ t \in Listed /\ next_tid # 2
           /\ state[t] = "RUNNING" /\ state[IDLE] = "READY"
BY Groups, TidFacts, ListedFacts
DEF SchedTypes, SchedOK, IdleRunnable, ThreadsOK, CurrentOK, DeadOK

\* sys_exec preserves the invariant.
LEMMA sys_execInv == ASSUME IInv, NEW t \in UserThreads, sys_exec(t) PROVE IInv'
<1> USE Groups, TidFacts
<1>1. /\ current_thread = t /\ pc[t] = "user" /\ new_elf_process(next_tid)
      /\ parent' = [parent EXCEPT ![next_tid] = t]
      /\ UNCHANGED <<pc, irqVars, consoleVars, is_waiting, wait_target_pid, child,
                     sleepVars>>
  BY DEF sys_exec, At
<1>2. t \in Listed
  BY <1>1, UserRuns
<1>3. next_tid \in Tids
  BY <1>1, NewListed DEF SchedTypes
<1>4. /\ next_tid \in UserThreads /\ next_tid \notin Listed
      /\ Listed' = Listed \cup {next_tid}
      /\ Listed \subseteq Tids
      /\ SchedTypes' /\ SchedOK' /\ ListOK'
      /\ \A u \in Tids \ {next_tid} : state'[u] = state[u] /\ proc_cr3'[u] = proc_cr3[u]
      /\ state[next_tid] = "NEW"
      /\ state'[next_tid] = "READY" /\ proc_cr3'[next_tid] = next_tid
      /\ UNCHANGED current_thread
  BY <1>1, <1>3, NewThread
<1>5. ProcTypes' /\ DeviceTypes'
  BY <1>1, <1>4 DEF ProcTypes, DeviceTypes, irqVars, consoleVars, sleepVars
<1>6. ThreadsOK'
  BY <1>1, <1>2, <1>4 DEF ThreadsOK, LabelsOK, DeadOK, CurrentOK
<1>7. ConsoleOK'
  BY <1>1, <1>4 DEF ConsoleOK, ConsoleOwnerInside, ChannelOK, consoleVars
<1>8. parent'[next_tid] = t /\ \A u \in Tids \ {next_tid} : parent'[u] = parent[u]
  BY <1>1, <1>3 DEF ProcTypes
<1>9. WaitOK'
  BY <1>1, <1>2, <1>4, <1>8, NewThreadWaits
<1>10. MainOK' /\ SpaceOK'
  BY <1>1, <1>4 DEF MainOK, SpaceOK, sleepVars
<1> QED BY <1>4, <1>5, <1>6, <1>7, <1>9, <1>10, GroupsNext

\* Which thread sys_exit wakes: never itself, and a user thread only in sys_waitpid.
LEMMA sys_exitInv == ASSUME IInv, NEW t \in UserThreads, sys_exit(t) PROVE IInv'
<1> DEFINE p == parent[t]
           wake == p # NULL /\ is_waiting[p] /\ wait_target_pid[p] = t
           dead == [state EXCEPT ![t] = "DEAD"]
           st == IF wake THEN [dead EXCEPT ![p] = "READY"] ELSE dead
<1> USE Groups, TidFacts
<1>1. /\ current_thread = t /\ pc[t] = "user" /\ Goto(t, "exited")
      /\ is_waiting' = IF wake THEN [is_waiting EXCEPT ![p] = FALSE] ELSE is_waiting
      /\ kernel_yield("exit", st)
      /\ UNCHANGED <<yieldUnchanged, irqVars, consoleVars, wait_target_pid, parent, child,
                     sleepVars>>
  BY DEF sys_exit, At
<1>2. /\ t \in Tids /\ t # MAIN /\ t # IDLE /\ t \in Listed
      /\ state[t] = "RUNNING" /\ state[IDLE] = "READY"
  BY <1>1, UserRuns
<1>3. wake => /\ p \in Tids /\ p \in Listed /\ p # IDLE /\ p # t /\ child[p] = t
              /\ p = MAIN \/ (p \in UserThreads /\ pc[p] = "wait_ret")
  BY <1>1, <1>2 DEF ProcTypes, WaitOK, ParentOK, WaiterMarked
<1>4. /\ st \in [Tids -> States] /\ st[t] = "DEAD"
      /\ \A u \in Tids \ {t} : st[u] = IF wake /\ u = p THEN "READY" ELSE state[u]
  BY <1>2, <1>3 DEF SchedTypes, States
<1>5. \A u \in Tids : st[u] = "RUNNING" => state[u] = "RUNNING"
  BY <1>2, <1>4
<1>6. st[IDLE] = state[IDLE]
  BY <1>2, <1>3, <1>4
<1> HIDE DEF st
<1>7. /\ SchedTypes' /\ SchedOK' /\ Listed' = Listed
      /\ \A u \in Tids :
            \/ state'[u] = st[u]
            \/ st[u] \in {"READY", "RUNNING"} /\ state'[u] \in {"READY", "RUNNING"}
      /\ \/ state'[current_thread'] = "RUNNING"
         \/ current_thread' = t /\ state'[t] = st[t]
  BY <1>1, <1>4, <1>5, <1>6, YieldStep
<1>8. /\ state'[t] = "DEAD"
      /\ \A u \in Tids \ {t} :
            IF wake /\ u = p THEN state'[u] \in {"READY", "RUNNING"}
            ELSE \A s \in {"WAITING", "DEAD", "NEW"} : state'[u] = s <=> state[u] = s
  BY <1>2, <1>4, <1>7
<1>9. (\A u \in Tids \ {t} : pc'[u] = pc[u]) /\ pc'[t] = "exited"
  BY <1>1, <1>2 DEF Goto, ProcTypes
<1>10. ProcTypes' /\ DeviceTypes'
  <2>1. is_waiting' \in [Tids -> BOOLEAN]
    BY <1>1 DEF ProcTypes
  <2>2. ProcTypes'
    BY <1>1, <2>1 DEF ProcTypes, Goto, Labels, SyscallLabels
  <2>3. DeviceTypes'
    BY <1>1 DEF DeviceTypes, irqVars, consoleVars, sleepVars
  <2> QED BY <2>2, <2>3
<1>11. \A u \in Tids : is_waiting'[u] <=> is_waiting[u] /\ ~(wake /\ u = p)
  BY <1>1, <1>3 DEF ProcTypes
<1> HIDE DEF wake, p
<1>12. LabelsOK'
  BY <1>2, <1>9 DEF ThreadsOK, LabelsOK, SyscallLabels
<1>13. ListOK'
  BY <1>2, <1>3, <1>7, <1>8 DEF ThreadsOK, ListOK
<1>14. DeadOK'
  BY <1>3, <1>8, <1>9 DEF ThreadsOK, DeadOK, LabelsOK, MainLabels
<1>15. CurrentOK'
  BY <1>2, <1>7, <1>8 DEF CurrentOK
<1>16. ConsoleOK'
  <2>1. ConsoleOwnerInside'
    BY <1>1, <1>9 DEF ConsoleOK, ConsoleOwnerInside, consoleVars
  <2>2. ChannelOK'
    BY <1>1, <1>2, <1>3, <1>8, <1>9 DEF ConsoleOK, ChannelOK, consoleVars
  <2> QED BY <2>1, <2>2 DEF ConsoleOK
<1>17. ParentOK'
  BY <1>1, <1>7 DEF WaitOK, ParentOK
<1>18. WaiterMarked'
  <2>1. WaiterMarked /\ UNCHANGED <<wait_target_pid, child>>
    BY <1>1 DEF WaitOK
  <2>2. \A u \in Tids \ {t} : is_waiting'[u] =>
           is_waiting[u] /\ pc'[u] = pc[u] /\ (state[u] = "WAITING" => state'[u] = "WAITING")
    BY ONLY <1>8, <1>9, <1>11
  <2>3. ~is_waiting'[t]
    BY ONLY <1>1, <1>2, <1>11, <2>1, TidFacts DEF WaiterMarked
  <2> QED BY ONLY <2>1, <2>2, <2>3 DEF WaiterMarked
<1>19. WokenByDeath'
  <2> SUFFICES ASSUME NEW q \in Tids, pc'[q] \in {"wait_yield", "wait_ret"}
               PROVE  /\ child'[q] \in Listed'
                      /\ state'[q] = "WAITING" \/ state'[child'[q]] = "DEAD"
    BY DEF WokenByDeath
  <2>1. q # t /\ pc[q] = pc'[q]
    BY <1>9
  <2>2. /\ child[q] \in Listed /\ child[q] \in Tids
        /\ state[q] = "WAITING" \/ state[child[q]] = "DEAD"
    BY <2>1, ListedFacts DEF SchedTypes, WaitOK, WokenByDeath
  <2>3. state[child[q]] = "DEAD" => state'[child[q]] = "DEAD"
    <3>1. wake => state[p] # "DEAD"
      BY <1>3 DEF ThreadsOK, DeadOK, LabelsOK, MainLabels
    <3> QED BY <1>8, <2>2, <3>1
  <2>4. CASE wake /\ q = p
    BY <1>1, <1>3, <1>7, <1>8, <2>2, <2>4
  <2>5. CASE ~(wake /\ q = p)
    BY <1>1, <1>7, <1>8, <2>1, <2>2, <2>3, <2>5
  <2> QED BY <2>4, <2>5
<1>20. SleeperMarked'
  <2> SUFFICES ASSUME NEW q \in UserThreads, pc'[q] = "wait_ret", state'[q] = "WAITING"
               PROVE  /\ is_waiting'[q]
                      /\ parent'[child'[q]] = q => state'[child'[q]] # "DEAD"
    BY DEF SleeperMarked
  <2>1. q # t /\ pc[q] = "wait_ret" /\ state[q] = "WAITING" /\ ~(wake /\ q = p)
    BY <1>8, <1>9
  <2>2. is_waiting[q] /\ wait_target_pid[q] = child[q] /\ child[q] \in Tids
    BY <2>1, ListedFacts
    DEF SchedTypes, WaitOK, SleeperMarked, WaiterMarked, WokenByDeath
  <2>3. parent[child[q]] = q => child[q] # t
    BY <2>1, <2>2 DEF wake, p
  <2>4. parent[child[q]] = q => state[child[q]] # "DEAD"
    BY <2>1 DEF WaitOK, SleeperMarked
  <2> QED BY <1>1, <1>8, <1>11, <2>1, <2>2, <2>3, <2>4
<1>21. MainOK' /\ SpaceOK'
  BY <1>1, <1>2, <1>9, MainFrame DEF SameMain, yieldUnchanged, sleepVars
<1> QED BY <1>7, <1>10, <1>12, <1>13, <1>14, <1>15, <1>16, <1>17, <1>18, <1>19, <1>20,
           <1>21, GroupsNext DEF ThreadsOK, WaitOK

\* A user thread that blocks and gives the processor up in the same step.
LEMMA BlockingYield ==
    ASSUME IInv, NEW t \in UserThreads, current_thread = t, pc[t] # "exited",
           NEW l \in SyscallLabels \ {"exited"}, Goto(t, l),
           NEW site, site \notin StaleFrom,
           kernel_yield(site, [state EXCEPT ![t] = "WAITING"]), UNCHANGED yieldUnchanged
    PROVE  /\ SchedTypes' /\ SchedOK' /\ ThreadsOK' /\ Listed' = Listed
           /\ pc' \in [Tids -> Labels]
           /\ \A u \in Tids \ {t} :
                 /\ \A s \in {"WAITING", "DEAD"} : state'[u] = s <=> state[u] = s
                 /\ pc'[u] = pc[u]
           /\ state[t] = "RUNNING" /\ state'[t] = "WAITING" /\ pc'[t] = l
<1> DEFINE st == [state EXCEPT ![t] = "WAITING"]
<1> USE Groups, TidFacts
<1>1. /\ t \in Listed /\ next_tid # 2
      /\ state[t] = "RUNNING" /\ state[IDLE] = "READY"
  BY UserRuns
<1>2. /\ st \in [Tids -> States] /\ st[t] = "WAITING"
      /\ \A u \in Tids \ {t} : st[u] = state[u]
  BY <1>1 DEF SchedTypes, States
<1>3. kernel_yield(site, st)
  OBVIOUS
<1> HIDE DEF st
<1>4. /\ SchedTypes' /\ SchedOK' /\ Listed' = Listed
      /\ \A u \in Tids :
            \/ state'[u] = st[u]
            \/ st[u] \in {"READY", "RUNNING"} /\ state'[u] \in {"READY", "RUNNING"}
      /\ state'[current_thread'] = "RUNNING"
  BY <1>1, <1>2, <1>3, YieldStep
<1>5. /\ state'[t] = "WAITING"
      /\ \A u \in Tids \ {t} :
            \A s \in {"WAITING", "DEAD", "NEW"} : state'[u] = s <=> state[u] = s
  BY <1>2, <1>4
<1>6. /\ pc' \in [Tids -> Labels] /\ pc'[t] = l
      /\ \A u \in Tids \ {t} : pc'[u] = pc[u]
  BY DEF Goto, ProcTypes, Labels
<1>7. ThreadsOK'
  <2>1. LabelsOK'
    BY <1>6 DEF ThreadsOK, LabelsOK
  <2>2. ListOK' /\ DeadOK'
    BY <1>1, <1>4, <1>5, <1>6 DEF ThreadsOK, ListOK, DeadOK
  <2>3. CurrentOK'
    BY <1>4 DEF CurrentOK
  <2> QED BY <2>1, <2>2, <2>3 DEF ThreadsOK
<1> QED BY <1>1, <1>4, <1>5, <1>6, <1>7

\* sys_waitpid, called by a user thread, preserves the invariant.
LEMMA sys_waitpidInv ==
    ASSUME IInv, BlockingCallsYield, NEW t \in UserThreads,
           NEW c \in Listed \ {IDLE}, sys_waitpid(t, c)
    PROVE  IInv'
<1> USE Groups, TidFacts
<1>1. CASE state[c] = "DEAD"
  BY <1>1, StutterInv DEF sys_waitpid
<1>2. CASE state[c] # "DEAD"
  <2>1. /\ current_thread = t /\ pc[t] = "user"
        /\ is_waiting' = [is_waiting EXCEPT ![t] = TRUE]
        /\ wait_target_pid' = [wait_target_pid EXCEPT ![t] = c]
        /\ child' = [child EXCEPT ![t] = c]
        /\ Goto(t, "wait_ret")
        /\ kernel_yield("waitpid", [state EXCEPT ![t] = "WAITING"])
        /\ UNCHANGED <<yieldUnchanged, irqVars, consoleVars, parent, sleepVars>>
    BY <1>2 DEF sys_waitpid, At
  <2>2. c \in Tids /\ Listed \subseteq Tids
    BY ListedFacts DEF SchedTypes
  <2>3. /\ SchedTypes' /\ SchedOK' /\ ThreadsOK' /\ Listed' = Listed
        /\ pc' \in [Tids -> Labels]
        /\ \A u \in Tids \ {t} :
              /\ \A s \in {"WAITING", "DEAD"} : state'[u] = s <=> state[u] = s
              /\ pc'[u] = pc[u]
        /\ state[t] = "RUNNING" /\ state'[t] = "WAITING" /\ pc'[t] = "wait_ret"
    BY <2>1, BlockingYield DEF BlockingCallsYield, SyscallLabels
  <2>4. ProcTypes' /\ DeviceTypes'
    <3>1. is_waiting' \in [Tids -> BOOLEAN]
      BY <2>1 DEF ProcTypes
    <3>2. ProcTypes'
      BY <2>1, <2>2, <2>3, <3>1 DEF ProcTypes
    <3>3. DeviceTypes'
      BY <2>1 DEF DeviceTypes, irqVars, consoleVars, sleepVars
    <3> QED BY <3>2, <3>3
  <2>5. ConsoleOK'
    BY <2>1, <2>3 DEF ConsoleOK, ConsoleOwnerInside, ChannelOK, consoleVars
  <2>6. /\ \A u \in Tids \ {t} : /\ is_waiting'[u] = is_waiting[u]
                                 /\ wait_target_pid'[u] = wait_target_pid[u]
                                 /\ child'[u] = child[u]
        /\ is_waiting'[t] /\ wait_target_pid'[t] = c /\ child'[t] = c
    BY <2>1 DEF ProcTypes
  <2>7. ParentOK' /\ WaiterMarked'
    <3>1. ParentOK /\ WaiterMarked /\ UNCHANGED parent
      BY <2>1 DEF WaitOK
    <3>2. ParentOK'
      BY ONLY <2>3, <3>1 DEF ParentOK
    <3>3. \A u \in Tids \ {t} : /\ pc'[u] = pc[u] /\ is_waiting'[u] = is_waiting[u]
                                /\ wait_target_pid'[u] = wait_target_pid[u]
                                /\ child'[u] = child[u]
                                /\ state[u] = "WAITING" => state'[u] = "WAITING"
      BY ONLY <2>3, <2>6
    <3>4. /\ wait_target_pid'[t] = child'[t] /\ t \in UserThreads
          /\ pc'[t] = "wait_ret" /\ state'[t] = "WAITING"
      BY ONLY <2>3, <2>6, t \in UserThreads
    <3>5. WaiterMarked'
      BY ONLY <3>1, <3>3, <3>4 DEF WaiterMarked
    <3> QED BY ONLY <3>2, <3>5
  <2>8. WokenByDeath'
    <3>1. WokenByDeath
      BY DEF WaitOK
    <3>2. c \in Listed /\ state[t] # "DEAD"
      BY <2>3
    <3>3. \A u \in Tids : state[u] = "DEAD" => state'[u] = "DEAD"
      BY ONLY <2>3, <3>2
    <3>4. \A u \in Tids \ {t} : /\ child'[u] = child[u] /\ pc'[u] = pc[u]
                                /\ state[u] = "WAITING" => state'[u] = "WAITING"
      BY ONLY <2>3, <2>6
    <3>5. child'[t] = c /\ state'[t] = "WAITING" /\ Listed' = Listed
      BY ONLY <2>3, <2>6
    <3>6. ASSUME NEW u \in Tids \ {t}, pc'[u] \in {"wait_yield", "wait_ret"}
          PROVE  child'[u] \in Listed' /\ (state'[u] = "WAITING" \/ state'[child'[u]] = "DEAD")
      <4>1. /\ child[u] \in Listed /\ child[u] \in Tids
            /\ state[u] = "WAITING" \/ state[child[u]] = "DEAD"
        BY ONLY <2>2, <3>1, <3>4, <3>6 DEF WokenByDeath
      <4> QED BY ONLY <3>3, <3>4, <3>5, <3>6, <4>1
    <3> QED BY ONLY <3>2, <3>5, <3>6 DEF WokenByDeath
  <2>9. SleeperMarked'
    <3>1. WokenByDeath /\ SleeperMarked /\ parent' = parent
      BY <2>1 DEF WaitOK
    <3>2. ASSUME NEW u \in UserThreads \ {t}, pc'[u] = "wait_ret", state'[u] = "WAITING"
          PROVE  is_waiting'[u] /\ (parent'[child'[u]] = u => state'[child'[u]] # "DEAD")
      <4>1. /\ u \in Tids \ {t} /\ pc[u] = "wait_ret" /\ state[u] = "WAITING"
            /\ child'[u] = child[u] /\ is_waiting'[u] = is_waiting[u]
        BY ONLY <2>3, <2>6, <3>2, TidFacts
      <4>2. child[u] \in Tids
        BY ONLY <2>2, <3>1, <4>1 DEF WokenByDeath
      <4>3. is_waiting[u] /\ (parent[child[u]] = u => state[child[u]] # "DEAD")
        BY ONLY <3>1, <3>2, <4>1 DEF SleeperMarked
      <4>4. state'[child[u]] = "DEAD" => state[child[u]] = "DEAD"
        BY ONLY <2>3, <4>2
      <4> QED BY ONLY <3>1, <4>1, <4>3, <4>4
    <3>3. is_waiting'[t] /\ child'[t] = c /\ state'[c] # "DEAD"
      BY ONLY <1>2, <2>2, <2>3, <2>6
    <3> QED BY ONLY <3>2, <3>3 DEF SleeperMarked
  <2>10. MainOK' /\ SpaceOK'
    <3>1. MAIN \in Tids \ {t}
      BY ONLY t \in UserThreads, TidFacts
    <3>2. pc'[MAIN] = pc[MAIN] /\ child'[MAIN] = child[MAIN]
      BY ONLY <2>3, <2>6, <3>1
    <3>3. UNCHANGED <<proc_cr3, sleeping_queue>> /\ Listed' = Listed
      BY ONLY <2>1, <2>3 DEF yieldUnchanged, sleepVars
    <3>4. MainOK /\ SpaceOK
      OBVIOUS
    <3> QED BY ONLY <3>2, <3>3, <3>4 DEF MainOK, SpaceOK
  <2> QED BY <2>3, <2>4, <2>5, <2>7, <2>8, <2>9, <2>10, GroupsNext DEF WaitOK
<1> QED BY <1>1, <1>2

\* console_read going to sleep, in either loop.
LEMMA BlockOnConsoleInv ==
    ASSUME IInv, BlockingCallsYield, NEW t \in UserThreads, current_thread = t,
           pc[t] \in {"user", "read_own", "read_char"},
           NEW l \in {"read_own", "read_char"}, BlockOnConsole(t, l),
           ConsoleOwnerInside', console_read_owner' \in Tids \cup {NULL},
           kdb_queue' \in Seq(Chars), Len(kdb_queue') <= KDB_BUFFER_SIZE,
           UNCHANGED <<irqVars, waitVars, sleepVars>>
    PROVE  IInv'
<1>1. /\ block_channel' = block_channel \cup {t} /\ Goto(t, l)
      /\ kernel_yield("console", [state EXCEPT ![t] = "WAITING"])
      /\ UNCHANGED yieldUnchanged
  BY ONLY BlockOnConsole(t, l) DEF BlockOnConsole, yieldUnchanged
<1> USE Groups, TidFacts
<1>2. /\ SchedTypes' /\ SchedOK' /\ ThreadsOK' /\ Listed' = Listed
      /\ pc' \in [Tids -> Labels]
      /\ \A u \in Tids \ {t} :
            /\ \A s \in {"WAITING", "DEAD"} : state'[u] = s <=> state[u] = s
            /\ pc'[u] = pc[u]
      /\ state[t] = "RUNNING" /\ state'[t] = "WAITING" /\ pc'[t] = l
  BY <1>1, BlockingYield DEF BlockingCallsYield, SyscallLabels
<1>3. ProcTypes' /\ DeviceTypes'
  BY <1>1, <1>2 DEF ProcTypes, DeviceTypes, irqVars, waitVars, sleepVars
<1>4. ConsoleOK'
  BY <1>1, <1>2 DEF ConsoleOK, ChannelOK
<1>5. WaitOK'
  BY <1>1, <1>2, WaitFrame DEF SameWaits, yieldUnchanged
<1>6. MainOK' /\ SpaceOK'
  BY <1>1, <1>2, MainFrame DEF SameMain, yieldUnchanged, waitVars, sleepVars
<1> QED BY <1>2, <1>3, <1>4, <1>5, <1>6, GroupsNext

\* console_read returning: it wakes every thread on the channel.
LEMMA ReadDoneInv ==
    ASSUME IInv, NEW t \in UserThreads, current_thread = t,
           pc[t] \in {"user", "read_own", "read_char"},
           console_read_owner \in {NULL, t},
           kdb_queue' \in Seq(Chars), Len(kdb_queue') <= KDB_BUFFER_SIZE,
           console_read_owner' = NULL,
           block_channel' = block_channel \ ConsoleWaiters,
           state' = [u \in Tids |-> IF u \in ConsoleWaiters THEN "READY" ELSE state[u]],
           Goto(t, "user"),
           UNCHANGED <<next_tid, vruntime, current_thread, next_id, stack_top,
                       proc_cr3, cr3, irqVars, waitVars, sleepVars>>
    PROVE  IInv'
<1> USE Groups, TidFacts
<1>1. Listed' = Listed /\ state[t] = "RUNNING"
  BY SameListed, UserRuns
<1>2. \A u \in ConsoleWaiters : /\ u \in UserThreads /\ u \in Listed /\ u # t
                                /\ state[u] = "WAITING"
                                /\ pc[u] \in {"read_own", "read_char"}
  BY <1>1 DEF ConsoleOK, ChannelOK, ConsoleWaiters
<1>3. \A u \in Tids : state'[u] = IF u \in ConsoleWaiters THEN "READY" ELSE state[u]
  OBVIOUS
<1>4. /\ pc' \in [Tids -> Labels] /\ pc'[t] = "user"
      /\ \A u \in Tids \ {t} : pc'[u] = pc[u]
  BY DEF Goto, ProcTypes, Labels
<1>5. SchedTypes'
  BY <1>1 DEF SchedTypes, States
<1>6. SchedOK'
  BY <1>1, <1>2, <1>3 DEF SchedOK, OnlyCurrentRuns, IdleRunnable, ContextFollowsThread
<1>7. ProcTypes' /\ DeviceTypes'
  BY <1>4 DEF ProcTypes, DeviceTypes, irqVars, waitVars, sleepVars
<1>8. ThreadsOK'
  BY <1>1, <1>2, <1>3, <1>4 DEF ThreadsOK, LabelsOK, ListOK, DeadOK, CurrentOK
<1>9. ConsoleOK'
  <2>1. ConsoleOwnerInside'
    BY <1>4 DEF ConsoleOK, ConsoleOwnerInside
  <2>2. ChannelOK'
    BY <1>1, <1>3, <1>4 DEF ConsoleOK, ChannelOK
  <2> QED BY <2>1, <2>2 DEF ConsoleOK
<1>10. WaitOK'
  BY <1>2, <1>3, <1>4, WaitFrame DEF SameWaits
<1>11. MainOK' /\ SpaceOK'
  BY <1>4, MainFrame DEF SameMain, waitVars, sleepVars
<1> QED BY <1>5, <1>6, <1>7, <1>8, <1>9, <1>10, <1>11, GroupsNext

\* One turn of console_read's second loop.
LEMMA ReadCharInv ==
    ASSUME IInv, BlockingCallsYield, NEW t \in UserThreads, current_thread = t,
           pc[t] \in {"user", "read_own", "read_char"},
           console_read_owner \in {NULL, t}, ReadChar(t, t),
           UNCHANGED <<irqVars, waitVars, sleepVars>>
    PROVE  IInv'
<1>1. kdb_queue \in Seq(Chars) /\ Len(kdb_queue) <= KDB_BUFFER_SIZE
  BY DEF IInv, TypeOK
<1>2. kdb_queue # <<>> => /\ Tail(kdb_queue) \in Seq(Chars)
                          /\ Len(Tail(kdb_queue)) <= KDB_BUFFER_SIZE
  BY <1>1, KernelAssumption
<1>3. kdb_queue' \in Seq(Chars) /\ Len(kdb_queue') <= KDB_BUFFER_SIZE
  BY <1>1, <1>2 DEF ReadChar
<1>4. CASE kdb_queue = <<>> \/ Head(kdb_queue) = NUL
  <2>1. console_read_owner' = t /\ BlockOnConsole(t, "read_char")
    BY <1>4 DEF ReadChar
  <2>2. ConsoleOwnerInside'
    <3>1. pc \in [Tids -> Labels] /\ ConsoleOwnerInside
      BY DEF IInv, TypeOK
    <3>2. pc' = [pc EXCEPT ![t] = "read_char"]
      BY <2>1 DEF BlockOnConsole, Goto
    <3> QED BY ONLY <2>1, <3>1, <3>2, t \in UserThreads, console_read_owner \in {NULL, t},
                    TidFacts
            DEF ConsoleOwnerInside
  <2> QED BY <1>3, <2>1, <2>2, BlockOnConsoleInv DEF UserThreads
<1>5. CASE ~(kdb_queue = <<>> \/ Head(kdb_queue) = NUL)
  BY <1>3, <1>5, ReadDoneInv DEF ReadChar
<1> QED BY <1>4, <1>5

\* console_read, from its entry or its first loop, preserves the invariant.
LEMMA console_readInv ==
    ASSUME IInv, BlockingCallsYield, NEW t \in UserThreads, console_read(t)
    PROVE  IInv'
<1>1. /\ current_thread = t /\ pc[t] \in {"user", "read_own"}
      /\ UNCHANGED <<irqVars, waitVars, sleepVars>>
  BY DEF console_read, At
<1>2. CASE console_read_owner \notin {NULL, t}
  <2>1. /\ BlockOnConsole(t, "read_own")
        /\ UNCHANGED <<console_read_owner, kdb_queue>>
    BY <1>2 DEF console_read
  <2>2. ConsoleOwnerInside'
    BY <1>1, <1>2, <2>1 DEF IInv, TypeOK, ConsoleOwnerInside, BlockOnConsole, Goto,
                            UserThreads
  <2>3. /\ console_read_owner' \in Tids \cup {NULL}
        /\ kdb_queue' \in Seq(Chars) /\ Len(kdb_queue') <= KDB_BUFFER_SIZE
    BY <2>1 DEF IInv, TypeOK
  <2> QED BY <1>1, <2>1, <2>2, <2>3, BlockOnConsoleInv
<1>3. CASE console_read_owner \in {NULL, t}
  <2>1. ReadChar(t, t)
    BY <1>3 DEF console_read
  <2> QED BY <1>1, <1>3, <2>1, ReadCharInv
<1> QED BY <1>2, <1>3

\* console_read going on in its second loop preserves the invariant.
LEMMA ReadResumeInv ==
    ASSUME IInv, BlockingCallsYield, NEW t \in UserThreads, ReadResume(t)
    PROVE  IInv'
<1>1. /\ current_thread = t /\ pc[t] = "read_char" /\ console_read_owner = t
      /\ UNCHANGED <<irqVars, waitVars, sleepVars>>
  BY DEF ReadResume, At, IInv, ConsoleOwnerInside, UserThreads
<1>2. ReadChar(t, t)
  BY <1>1 DEF ReadResume
<1> QED BY <1>1, <1>2, ReadCharInv

=============================================================================
