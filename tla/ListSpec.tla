------------------------------ MODULE ListSpec ------------------------------
(* What include/data_structure/list.h promises: a sequence of data, to     *)
(* which an operation adds, and from which it takes and frees, exactly at  *)
(* the place it is called for.                                             *)
EXTENDS Integers, Sequences

CONSTANT Data

VARIABLES
    elems,  \* the elements in order
    freed,  \* data given back with kfree
    call    \* the operation that returned last and its position

Init == elems = <<>> /\ freed = {} /\ call = [op |-> "init_list", at |-> 0]

Insert(at, d) ==
    /\ at \in 0 .. Len(elems)
    /\ d \notin freed
    /\ elems' = SubSeq(elems, 1, at) \o <<d>> \o SubSeq(elems, at + 1, Len(elems))
    /\ UNCHANGED freed

Delete(at) ==
    /\ at \in 0 .. Len(elems) - 1
    /\ elems' = SubSeq(elems, 1, at) \o SubSeq(elems, at + 2, Len(elems))
    /\ freed' = freed \union {elems[at + 1]}

\* "Add node at the start (at head location)"
Push(d) == call' = [op |-> "list_push", at |-> 0] /\ Insert(0, d)

\* "Add node at designed index"
InsertAt(at, d) == call' = [op |-> "list_insert_at", at |-> at] /\ Insert(at, d)

\* "Add node at the end of the list"
AppendAtEnd(d) == call' = [op |-> "list_append", at |-> 0] /\ Insert(Len(elems), d)

Pop ==
    /\ call' = [op |-> "list_pop", at |-> 0]
    /\ Delete(0) \/ (elems = <<>> /\ UNCHANGED <<elems, freed>>)

RemoveAt(at) == call' = [op |-> "list_remove_at", at |-> at] /\ Delete(at)

Next ==
    \/ \E d \in Data : Push(d) \/ AppendAtEnd(d)
    \/ \E at \in 1 .. Len(elems), d \in Data : InsertAt(at, d)
    \/ Pop
    \/ \E at \in 1 .. Len(elems) : RemoveAt(at)

Spec == Init /\ [][Next]_<<elems, freed, call>>
=============================================================================
