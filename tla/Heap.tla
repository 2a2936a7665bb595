-------------------------------- MODULE Heap --------------------------------
(* The binary min heap of common/heap.c: nodes embedded in the caller's     *)
(* objects and linked by left, right and parent pointers.  Each operation   *)
(* is one action: the heap belongs to the loop's single thread.             *)
EXTENDS Integers, FiniteSets

CONSTANTS
    Nodes,   \* heap_node objects
    Key,     \* what less_than compares
    NoNode

ASSUME NodesAssumption == IsFiniteSet(Nodes) /\ NoNode \notin Nodes

ASSUME KeyAssumption == Key \in [Nodes -> Nat]

VARIABLE heap   \* min and nelts of struct heap; left, right, parent per node

Pointers == Nodes \cup {NoNode}

HeapTypeOK ==
    heap \in [min : Pointers, nelts : 0..Cardinality(Nodes),
              left : [Nodes -> Pointers], right : [Nodes -> Pointers],
              parent : [Nodes -> Pointers]]

NoPointers == [n \in Nodes |-> NoNode]

\* heap_init
HeapInit == heap = [min |-> NoNode, nelts |-> 0,
                left |-> NoPointers, right |-> NoPointers, parent |-> NoPointers]

less_than(a, b) == Key[a] < Key[b]

-----------------------------------------------------------------------------
(* Walking and relinking.                                                   *)

\* The node reached along `path`: the bits of n below its leading one, from
\* the highest, each choosing right (1) or left (0).
NodeAt(h, n) ==
    LET at[i \in 1..n] ==
          IF i = 1 THEN h.min
          ELSE IF at[i \div 2] = NoNode THEN NoNode
          ELSE IF i % 2 = 1 THEN h.right[at[i \div 2]] ELSE h.left[at[i \div 2]]
    IN  at[n]

\* *slot = x for the slot at the end of that path.
Attach(h, n, x) ==
    IF n = 1 THEN [h EXCEPT !.min = x]
    ELSE IF n % 2 = 1 THEN [h EXCEPT !.right[NodeAt(h, n \div 2)] = x]
    ELSE [h EXCEPT !.left[NodeAt(h, n \div 2)] = x]

\* Mutant: the sibling's parent pointer is not updated.
SwapParentsNoSibling(h, p, c) ==
    [n \in Nodes |-> IF n = p THEN c
                     ELSE IF n = c THEN h.parent[p]
                     ELSE IF n \in {h.left[c], h.right[c]} THEN p
                     ELSE h.parent[n]]

\* The parent pointers after heap_node_swap: c, its old sibling and its old
\* children are moved under their new parents.
SwapParents(h, p, c) ==
    [n \in Nodes |-> IF n = p THEN c
                     ELSE IF n = c THEN h.parent[p]
                     ELSE IF n \in {h.left[p], h.right[p]} THEN c
                     ELSE IF n \in {h.left[c], h.right[c]} THEN p
                     ELSE h.parent[n]]

\* heap_node_swap: child c takes the place of its parent p.
heap_node_swap(h, p, c) ==
    LET onLeft == h.left[p] = c
        grand  == h.parent[p]
    IN  [h EXCEPT
          !.left = [n \in Nodes |->
                      IF n = p THEN h.left[c]
                      ELSE IF n = c THEN IF onLeft THEN p ELSE h.left[p]
                      ELSE IF n = grand /\ h.left[n] = p THEN c
                      ELSE h.left[n]],
          !.right = [n \in Nodes |->
                      IF n = p THEN h.right[c]
                      ELSE IF n = c THEN IF onLeft THEN h.right[p] ELSE p
                      ELSE IF n = grand /\ h.left[n] # p THEN c
                      ELSE h.right[n]],
          !.parent = SwapParents(h, p, c),
          !.min = IF grand = NoNode THEN c ELSE @]

\* A loop body run until it no longer changes the heap; a walk along the tree
\* takes at most as many turns as there are nodes.
Iterate(Body(_), h) ==
    LET turn[i \in 0..Cardinality(Nodes)] == IF i = 0 THEN h ELSE Body(turn[i - 1])
    IN  turn[Cardinality(Nodes)]

\* "Walk up the tree": swap x with its parent while it is less.
SiftUp(h, x) ==
    LET Up(g) == IF g.parent[x] # NoNode /\ less_than(x, g.parent[x])
                 THEN heap_node_swap(g, g.parent[x], x) ELSE g
    IN  Iterate(Up, h)

\* Mutant: the right child is not looked at.
SmallestLeft(h, x) ==
    IF h.left[x] # NoNode /\ less_than(h.left[x], x) THEN h.left[x] ELSE x

\* The least of x and its children; the left child wins a tie.
Smallest(h, x) ==
    LET l == h.left[x]
        r == h.right[x]
        s == IF l # NoNode /\ less_than(l, x) THEN l ELSE x
    IN  IF r # NoNode /\ less_than(r, s) THEN r ELSE s

\* "Walk down the subtree": swap x with its smallest child while that is less.
SiftDown(h, x) ==
    LET Down(g) == IF Smallest(g, x) = x THEN g ELSE heap_node_swap(g, x, Smallest(g, x))
    IN  Iterate(Down, h)

\* Mutant: the walk up after a removal is left out.
SettleDown(h, x) == SiftDown(h, x)

\* Where a node that took another's place goes: down, then up, because the
\* last node need not be the greatest of the heap.
Settle(h, x) == SiftUp(SiftDown(h, x), x)

-----------------------------------------------------------------------------
(* The operations.                                                          *)

\* Mutant: the path is computed from nelts, not from 1 + nelts.
NewPositionEarly(h) == IF h.nelts = 0 THEN 1 ELSE h.nelts

\* Where heap_insert puts the new node: the next free place of the bottom row.
NewPosition(h) == h.nelts + 1

heap_insert(h, x) ==
    LET n == NewPosition(h)
        cleared == [h EXCEPT !.left[x] = NoNode, !.right[x] = NoNode,
                             !.parent[x] = IF n = 1 THEN NoNode ELSE NodeAt(h, n \div 2)]
        linked == [Attach(cleared, n, x) EXCEPT !.nelts = @ + 1]
    IN  SiftUp(linked, x)

\* Node `last` takes over the links of x.
Replace(h, x, last) ==
    LET p == h.parent[x]
    IN  [h EXCEPT
          !.left = [n \in Nodes |->
                      IF n = last THEN h.left[x]
                      ELSE IF n = p /\ h.left[n] = x THEN last ELSE h.left[n]],
          !.right = [n \in Nodes |->
                      IF n = last THEN h.right[x]
                      ELSE IF n = p /\ h.left[n] # x THEN last ELSE h.right[n]],
          !.parent = [n \in Nodes |->
                      IF n \in {h.left[x], h.right[x]} THEN last
                      ELSE IF n = last THEN p ELSE h.parent[n]],
          !.min = IF p = NoNode THEN last ELSE @]

\* A removed node keeps its pointers in C; nothing reads them before
\* heap_insert overwrites them.  The model clears them instead.
Forget(h, x) == [h EXCEPT !.left[x] = NoNode, !.right[x] = NoNode, !.parent[x] = NoNode]

\* Mutant: the early return decrements the count again.
CountTwice(h, last, x) == IF last = x THEN h.nelts - 2 ELSE h.nelts - 1

\* The count is decremented before the last node is compared with x.
CountAfter(h, last, x) == h.nelts - 1

\* The last node of the bottom row is unlinked and, unless it is x itself,
\* put in the place of x and moved down, then up.
heap_remove(h, x) ==
    LET last == NodeAt(h, h.nelts)
        unlinked == [Attach(h, h.nelts, NoNode) EXCEPT !.nelts = CountAfter(h, last, x)]
    IN  IF h.nelts = 0 THEN h
        ELSE IF last = x THEN Forget(unlinked, x)
        ELSE Settle(Forget(Replace(unlinked, x, last), x), last)

heap_dequeue(h) == heap_remove(h, h.min)

\* The nodes the heap holds.
Positions == 1..heap.nelts

Members == {NodeAt(heap, i) : i \in Positions}

\* A node is inserted when it is out, and removed when it is in or when the
\* heap is empty.  Removing a node that is elsewhere has no defined effect.
HeapInsert(x) == x \notin Members /\ heap' = heap_insert(heap, x)

HeapRemove(x) == (x \in Members \/ heap.nelts = 0) /\ heap' = heap_remove(heap, x)

HeapDequeue == heap.min # NoNode /\ heap' = heap_dequeue(heap)

HeapNext == (\E x \in Nodes : HeapInsert(x) \/ HeapRemove(x)) \/ HeapDequeue

HeapSpec == HeapInit /\ [][HeapNext]_heap

-----------------------------------------------------------------------------
(* What the heap promises.                                                  *)

\* "Always a complete binary tree" (heap.c:3): the places 1..nelts hold
\* distinct nodes, nothing hangs below them, and the parent pointers mirror the
\* child pointers.
Complete ==
    /\ Members \subseteq Nodes
    /\ Cardinality(Members) = heap.nelts
    /\ \A i \in 1..(2 * heap.nelts + 1) : i > heap.nelts => NodeAt(heap, i) = NoNode
    /\ \A i \in Positions :
         heap.parent[NodeAt(heap, i)] = IF i = 1 THEN NoNode ELSE NodeAt(heap, i \div 2)

\* No child is less than its parent.
Ordered ==
    \A i \in Positions : i > 1 => ~less_than(NodeAt(heap, i), NodeAt(heap, i \div 2))

AbstractQueue == INSTANCE MinQueue WITH
    NULL <- NoNode, Less <- less_than, elems <- Members, min <- heap.min

\* The heap is a queue with a minimum: heap_min is always a least node, each
\* operation adds or removes exactly the node it was given.
ImplementsMinQueue == AbstractQueue!Spec

=============================================================================
