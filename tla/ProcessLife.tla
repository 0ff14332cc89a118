----------------------------- MODULE ProcessLife -----------------------------
(***************************************************************************)
(* What the process system calls promise, without threads, queues or       *)
(* interrupts: a process is created once, exits once and stays dead, and a *)
(* process that blocked in waitpid comes back only when the process it     *)
(* waits for is dead.                                                      *)
(***************************************************************************)
EXTENDS Integers

CONSTANTS Procs, Nobody      \* Nobody is not in Procs

VARIABLES life,         \* "absent", "alive" or "dead"
          waits         \* the process it is blocked on, or Nobody

lifeVars == <<life, waits>>

Init ==
    /\ life \in [Procs -> {"absent", "alive"}]
    /\ waits = [p \in Procs |-> Nobody]

Create(p) ==
    /\ life[p] = "absent"
    /\ life' = [life EXCEPT ![p] = "alive"]
    /\ UNCHANGED waits

\* Only a process that is not blocked can exit.
Exit(p) ==
    /\ life[p] = "alive" /\ waits[p] = Nobody
    /\ life' = [life EXCEPT ![p] = "dead"]
    /\ UNCHANGED waits

Block(p, c) ==
    /\ life[p] = "alive" /\ waits[p] = Nobody
    /\ life[c] # "absent"
    /\ waits' = [waits EXCEPT ![p] = c]
    /\ UNCHANGED life

Return(p) ==
    /\ waits[p] # Nobody
    /\ life[waits[p]] = "dead"
    /\ waits' = [waits EXCEPT ![p] = Nobody]
    /\ UNCHANGED life

Next == \E p \in Procs :
    \/ Create(p) \/ Exit(p) \/ Return(p)
    \/ \E c \in Procs : Block(p, c)

Spec == Init /\ [][Next]_lifeVars
=============================================================================
