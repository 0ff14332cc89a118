-------------------------------- MODULE List --------------------------------
(***************************************************************************)
(* The linked list of kernel/data/list.c. Operations are single steps, as  *)
(* in a system call or a handler, but for list_push: kmain calls it with   *)
(* interrupts on (push_new_thread, kusleep), so a handler may walk the     *)
(* list between its assignments. Nodes are numbered in the order of        *)
(* allocation and carry a datum of the same number.                        *)
(***************************************************************************)
EXTENDS Integers, Sequences

CONSTANT MaxNodes  \* nodes allocated in all

VARIABLES
    head,   \* list->head
    count,  \* list->count
    next,   \* next of every node
    freed,  \* data given back by kfree
    pc,     \* where list_push is: "idle", "node" made, "head" set
    call    \* ghost: the operation that changed the list last, and its position

listVars == <<head, count, next, freed, pc, call>>

NULL == 0
Node == 1 .. MaxNodes
new == Len(next)   \* the newest node

\* The node k steps from the head, by following next.
Walk ==
    LET at[k \in 0 .. MaxNodes] ==
            IF k = 0 THEN head ELSE IF at[k - 1] = NULL THEN NULL ELSE next[at[k - 1]]
    IN  at

\* Mutant of list_get_node_at: one node too far.
list_get_node_at_next(at) == IF at >= count THEN NULL ELSE Walk[at + 1]

\* list_get_node_at: positions are checked against count.
list_get_node_at(at) == IF at >= count THEN NULL ELSE Walk[at]

Called(op, at) == call' = [op |-> op, at |-> at]

ListInit ==
    /\ head = NULL
    /\ count = 0
    /\ next = <<>>
    /\ freed = {}
    /\ pc = "idle"
    /\ call = [op |-> "init_list", at |-> 0]

Idle == pc = "idle"

\* list_push: new_node(data, *head);
PushNode ==
    /\ Idle
    /\ Len(next) < MaxNodes
    /\ next' = Append(next, head)
    /\ pc' = "node"
    /\ UNCHANGED <<head, count, freed, call>>

\* *head = new;
PushHead ==
    /\ pc = "node"
    /\ head' = new
    /\ pc' = "head"
    /\ Called("list_push", 0)
    /\ UNCHANGED <<count, next, freed>>

\* list->count++;
PushCount ==
    /\ pc = "head"
    /\ count' = count + 1
    /\ pc' = "idle"
    /\ UNCHANGED <<head, next, freed, call>>

\* list_append returns at once: its node is NULL. list_insert_at at the end of
\* the list, or into an empty one, calls it.
ListAppend ==
    /\ Idle
    /\ Called("list_append", 0)
    /\ UNCHANGED <<head, count, next, freed, pc>>

\* list_insert_at inside the list (at 0 it is list_push).
ListInsertAt(at) ==
    LET prev == list_get_node_at(at - 1)
    IN  /\ Idle
        /\ at \in 1 .. count - 1
        /\ Len(next) < MaxNodes
        /\ next' = Append([next EXCEPT ![prev] = new + 1], next[prev])
        /\ count' = count + 1
        /\ Called("list_insert_at", at)
        /\ UNCHANGED <<head, freed, pc>>

\* list_pop frees the datum and the node, of an empty list nothing.
ListPop ==
    /\ Idle
    /\ Called("list_pop", 0)
    /\ IF count = 0 THEN UNCHANGED <<head, count, freed>>
       ELSE /\ head' = next[head]
            /\ freed' = freed \union {head}
            /\ count' = count - 1
    /\ UNCHANGED <<next, pc>>

\* Mutant of ListRemoveAt: one node too far is taken out.
ListRemoveAt_next(at) ==
    LET current == Walk[at]
        temp == next[current]
    IN  /\ Idle
        /\ at \in 1 .. count - 2
        /\ next' = [next EXCEPT ![current] = next[temp]]
        /\ freed' = freed \union {temp}
        /\ count' = count - 1
        /\ Called("list_remove_at", at)
        /\ UNCHANGED <<head, pc>>

\* list_remove_at behind the head (at 0 it is list_pop): it frees the datum,
\* twice, and leaves the node to nobody.
ListRemoveAt(at) ==
    LET current == Walk[at - 1]
        temp == next[current]
    IN  /\ Idle
        /\ at \in 1 .. count - 1
        /\ next' = [next EXCEPT ![current] = next[temp]]
        /\ freed' = freed \union {temp}
        /\ count' = count - 1
        /\ Called("list_remove_at", at)
        /\ UNCHANGED <<head, pc>>

ListNext ==
    \/ PushNode \/ PushHead \/ PushCount
    \/ ListPop
    \/ \E at \in Node : ListInsertAt(at)
    \/ \E at \in Node : ListRemoveAt(at)

\* The operations that do what list.h says, and all of them.
ListOperations == ListInit /\ [][ListNext]_listVars
AllOperations == ListInit /\ [][ListNext \/ ListAppend]_listVars

-----------------------------------------------------------------------------
(* Properties *)

\* The list as next links it, which is how get_first_match and list_filter see it.
Elems == [k \in {j \in Node : Walk[j - 1] # NULL} |-> Walk[k - 1]]

\* A handler that walks the list with list_get_at (get_next_thread,
\* notify_wait_channel, update_sleeping_queue) finds at every position below
\* count an element that is in the list and has not been freed, a different one
\* at each, also in the middle of a list_push. It may miss the oldest.
WalkSound ==
    /\ \A k \in 0 .. count - 1 : list_get_node_at(k) \in Node \ freed
    /\ \A j, k \in 0 .. count - 1 : list_get_node_at(j) = list_get_node_at(k) => j = k
    /\ pc # "head" => {list_get_node_at(k) : k \in 0 .. count - 1} = {Elems[k] : k \in DOMAIN Elems}

\* Each operation but list_append does to the sequence what list.h promises: it
\* adds, or takes out and frees, one element exactly at the position it is called
\* with, the rest keep their order, and nothing else ever changes.
Abstract == INSTANCE ListSpec WITH Data <- Node, elems <- Elems
ImplementsListSpec == Abstract!Spec

\* "Add node at the end of the list" (list.h:26).
AppendsAtEnd == [][ListAppend => \E d \in Node : Abstract!AppendAtEnd(d)]_listVars

=============================================================================
