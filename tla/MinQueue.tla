------------------------------ MODULE MinQueue ------------------------------
(* What common/heap.c promises its one client, core/loop.c: a set of nodes  *)
(* with a minimum.  Among equal keys any node may be the minimum.           *)
CONSTANTS Nodes, NULL

\* less_than is the caller's comparison; nothing but its value is used.
CONSTANT Less(_, _)

VARIABLES
    elems,   \* the nodes in the queue
    min      \* what heap_min returns

Least(S) == {x \in S : \A y \in S : ~Less(y, x)}

Init == elems = {} /\ min = NULL

\* After each operation the minimum is a least element of what is left.
Becomes(S) ==
    /\ elems' = S
    /\ min' \in IF S = {} THEN {NULL} ELSE Least(S)

Insert(x) == x \notin elems /\ Becomes(elems \cup {x})

Remove(x) == x \in elems /\ Becomes(elems \ {x})

\* The minimum itself is the one removed.
Dequeue == min # NULL /\ Remove(min)

Next == (\E x \in Nodes : Insert(x) \/ Remove(x)) \/ Dequeue

Spec == Init /\ [][Next]_<<elems, min>>
=============================================================================
