------------------------------ MODULE Allocator ------------------------------
(***************************************************************************)
(* What kmalloc and kfree promise their callers, without headers, lists or *)
(* pages: the bytes handed out belong to nobody else until they are given  *)
(* back.                                                                   *)
(***************************************************************************)
EXTENDS Integers

CONSTANT Low            \* no region starts at or below this address

VARIABLE live           \* the regions handed out: [ptr |-> , len |-> ]

Apart(r, s) == r.ptr + r.len <= s.ptr \/ s.ptr + s.len <= r.ptr

Init == live = {}

Malloc(r) ==
    /\ r.ptr > Low
    /\ \A s \in live : Apart(r, s)
    /\ live' = live \cup {r}

Free(r) ==
    /\ r \in live
    /\ live' = live \ {r}

Next ==
    \/ \E r \in live' : Malloc(r)
    \/ \E r \in live : Free(r)

Spec == Init /\ [][Next]_live
=============================================================================
