------------------------------ MODULE Scheduler ------------------------------
(***************************************************************************)
(* The thread list and schedule() of the boot processor.                   *)
(*                                                                         *)
(* Threads are named by their tid.  kmain's thread is tid 0, the idle      *)
(* thread tid 1; both belong to the kernel process.  Every other thread is *)
(* the primary thread of a process of its own, so a process is named by    *)
(* the tid of its primary thread.  list_push adds at the head and nothing  *)
(* is ever removed from thread_list: the list is always                    *)
(*      next_tid - 1, next_tid - 2, ..., 1, 0                              *)
(* and is modelled by next_tid alone.                                      *)
(***************************************************************************)
EXTENDS Integers

CONSTANTS MaxThreads,   \* bound: threads ever created
          SCH_ALG,      \* "CFS" (what mt.h selects) or "RR" (the #else branch)
          StaleFrom     \* the callers of kernel_yield that may leave 1 in %rsi

Sites == {"keyboard", "exit", "waitpid", "console", "idle", "sleep"}

ASSUME SchedulerAssumption ==
    /\ MaxThreads \in Nat /\ MaxThreads >= 2
    /\ SCH_ALG \in {"CFS", "RR"}
    /\ StaleFrom \subseteq Sites

MAIN == 0
IDLE == 1
NULL == -1
NoSpace == -1           \* a cr3 of 0: no page table behind it

Tids == 0 .. (MaxThreads - 1)

\* task_state.h
States == {"NEW", "READY", "RUNNING", "WAITING", "DEAD", "SLEEPING"}

\* The process a thread belongs to, named by its primary thread.
Proc(t) == IF t = IDLE THEN MAIN ELSE t

VARIABLES
    next_tid,           \* next tid, and the length of thread_list
    state,              \* thread_t.state
    vruntime,           \* thread_t.vruntime
    current_thread,     \* cpu_task_list_t.current_thread
    next_id,            \* static next_id of the round robin
    stack_top,          \* whose kernel stack TSS.rsp0 and cpu_data point to
    proc_cr3,           \* process_t.cr3
    cr3                 \* the address space the processor has loaded

schedVars == <<next_tid, state, vruntime, current_thread, next_id, stack_top,
               proc_cr3, cr3>>

Listed == 0 .. (next_tid - 1)

\* The thread at position i of thread_list.
list_get_at(i) == next_tid - 1 - i

SchedInit ==
    /\ next_tid = 2
    /\ state = [t \in Tids |-> CASE t = MAIN -> "RUNNING"
                                 [] t = IDLE -> "READY"
                                 [] OTHER    -> "NEW"]
    /\ vruntime = [t \in Tids |-> 0]
    /\ current_thread = MAIN
    /\ next_id = 0
    /\ stack_top = MAIN
    /\ proc_cr3 = [p \in Tids |-> IF p = MAIN THEN MAIN ELSE NoSpace]
    /\ cr3 = MAIN

-----------------------------------------------------------------------------
\* The operators below take the thread states as an argument: a caller of
\* kernel_yield has already changed some of them in the same step.

\* The READY thread with the lowest vruntime, the first of the list (the
\* newest) among equals; an empty set stands for NULL.
get_lowest_runtime(st) ==
    LET ready == {t \in Listed : st[t] = "READY"}
    IN  {t \in ready : \A u \in ready :
            \/ vruntime[t] < vruntime[u]
            \/ vruntime[t] = vruntime[u] /\ u <= t}

\* Position of the k-th candidate the round robin looks at.
RRPosition(k) ==
    LET start == IF next_id >= next_tid THEN 0 ELSE next_id
    IN  (start + k) % next_tid

\* Faulty variant: the last candidate is not looked at.
RRSkips_one_short(st) ==
    {k \in 0 .. next_tid :
        /\ \A j \in 0 .. (k - 1) :
              LET t == list_get_at(RRPosition(j))
              IN  t = IDLE \/ st[t] # "READY" \/ j = next_tid - 1
        /\ k < next_tid => LET t == list_get_at(RRPosition(k))
                           IN  t # IDLE /\ st[t] = "READY" /\ k < next_tid - 1}

\* Number of candidates passed over before one that can run; next_tid if none.
RRSkips(st) ==
    {k \in 0 .. next_tid :
        /\ \A j \in 0 .. (k - 1) :
              LET t == list_get_at(RRPosition(j))
              IN  t = IDLE \/ st[t] # "READY"
        /\ k < next_tid => LET t == list_get_at(RRPosition(k))
                           IN  t # IDLE /\ st[t] = "READY"}

get_next_thread_rr(st, n) ==
    \E k \in RRSkips(st) :
        IF k = next_tid
        THEN n = NULL /\ next_id' = RRPosition(next_tid - 1) + 1
        ELSE n = list_get_at(RRPosition(k)) /\ next_id' = RRPosition(k) + 1

get_next_thread_cfs(st, n) ==
    /\ IF get_lowest_runtime(st) = {} THEN n = NULL
                                      ELSE n \in get_lowest_runtime(st)
    /\ UNCHANGED next_id

\* n is what get_next_thread returns.
get_next_thread(st, n) ==
    IF SCH_ALG = "CFS" THEN get_next_thread_cfs(st, n)
                       ELSE get_next_thread_rr(st, n)

\* Faulty variant of SwitchTo: TSS.rsp0 is not switched.
SwitchTo_keeps_stack(st, n) ==
    /\ state' = [st EXCEPT
            ![current_thread] = IF @ = "RUNNING" THEN "READY" ELSE @,
            ![n] = "RUNNING"]
    /\ current_thread' = n /\ cr3' = proc_cr3[Proc(n)]
    /\ UNCHANGED stack_top

\* schedule() from the point where it knows the next thread.
SwitchTo(st, n) ==
    IF n = current_thread
    THEN /\ state' = [st EXCEPT ![n] = "RUNNING"]
         /\ UNCHANGED <<current_thread, stack_top, cr3>>
    ELSE /\ state' = [st EXCEPT
                ![current_thread] = IF @ = "RUNNING" THEN "READY" ELSE @,
                ![n] = "RUNNING"]
         /\ current_thread' = n
         /\ stack_top' = n
         /\ cr3' = IF proc_cr3[Proc(current_thread)] # proc_cr3[Proc(n)]
                   THEN proc_cr3[Proc(n)] ELSE cr3

\* schedule() returning the stack it was given.
KeepRunning(st) ==
    /\ state' = st
    /\ UNCHANGED <<current_thread, stack_top, cr3>>

schedule(st, from) ==
    IF from = 1
    THEN KeepRunning(st) /\ UNCHANGED next_id
    ELSE \E n \in Listed \cup {NULL} :
            /\ get_next_thread(st, n)
            /\ IF n # NULL THEN SwitchTo(st, n)
               ELSE IF current_thread = IDLE \/ next_tid = 2
               THEN KeepRunning(st)
               ELSE SwitchTo(st, IDLE)        \* find_idle_thread

\* kernel_yield loads %rdi and leaves %rsi, schedule()'s from, as it was.
kernel_yield(site, st) ==
    \E from \in IF site \in StaleFrom THEN {0, 1} ELSE {0} :
        schedule(st, from)

\* new_elf_process and push_new_thread: a READY thread at the head of the
\* list; its process has the address space given (NoSpace until it is set).
new_elf_process(space) ==
    /\ next_tid < MaxThreads
    /\ next_tid' = next_tid + 1
    /\ state' = [state EXCEPT ![next_tid] = "READY"]
    /\ vruntime' = [vruntime EXCEPT ![next_tid] = 0]
    /\ proc_cr3' = [proc_cr3 EXCEPT ![next_tid] = space]
    /\ UNCHANGED <<current_thread, next_id, stack_top, cr3>>
=============================================================================
