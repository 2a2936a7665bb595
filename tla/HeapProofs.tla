----------------------------- MODULE HeapProofs -----------------------------
(* The heap is a complete ordered tree after every operation, and its       *)
(* minimum is the least of exactly the nodes that were put in and not taken *)
(* out, for any number of nodes and any keys.                               *)
(*                                                                          *)
(* The argument reads the tree as an array: the node of place i has those   *)
(* of places 2i and 2i + 1 below it.  Every operation on the pointers is    *)
(* shown to be a simple one on the array, and order is a fact about arrays. *)
EXTENDS Heap, FiniteSetTheorems, NaturalsInduction, WellFoundedInduction, TLAPS

\* Heaps as values, whatever their pointers say.
Heaps ==
    [min : Pointers, nelts : Nat, left : [Nodes -> Pointers],
     right : [Nodes -> Pointers], parent : [Nodes -> Pointers]]

\* The first n places of the array a hold distinct nodes, the others none.
Array(a, n) ==
    /\ n \in Nat
    /\ a \in [Nat -> Pointers]
    /\ \A i \in Nat : a[i] \in Nodes <=> i \in 1..n
    /\ \A i, j \in 1..n : a[i] = a[j] => i = j

\* The pointers of h are those of the tree that a stands for.
Linked(h, a, n) ==
    /\ h.min = a[1]
    /\ \A i \in 1..n : /\ h.left[a[i]] = a[2 * i]
                       /\ h.right[a[i]] = a[2 * i + 1]
                       /\ h.parent[a[i]] = a[i \div 2]

Rep(h, a, n) == h \in Heaps /\ h.nelts = n /\ Array(a, n) /\ Linked(h, a, n)

\* The nodes of an array.
Held(a, n) == {a[i] : i \in 1..n}

\* An array with x in place k; a heap with another count.
Put(a, k, x) == [a EXCEPT ![k] = x]

WithCount(h, m) == [h EXCEPT !.nelts = m]

LEMMA PutPlaces ==
    ASSUME NEW a \in [Nat -> Pointers], NEW k \in Nat, NEW x \in Pointers
    PROVE  /\ Put(a, k, x) \in [Nat -> Pointers] /\ Put(a, k, x)[k] = x
           /\ \A i \in Nat \ {k} : Put(a, k, x)[i] = a[i]
BY DEF Put

-----------------------------------------------------------------------------
(* Numbers.                                                                 *)

\* A set of natural numbers that is not empty has a least element.
LEMMA LeastNat ==
    ASSUME NEW S \in SUBSET Nat, S # {}
    PROVE  \E m \in S : \A n \in S : m <= n
<1>1. PICK m \in S : \A n \in S : ~ (<<n, m>> \in OpToRel(<, Nat))
  BY NatLessThanWellFounded, WFMin
<1>2. \A n \in S : ~ (n < m)
  BY <1>1 DEF OpToRel
<1> QED
  BY <1>2

\* A set that holds 0 and, with a number, the next one up to n, holds them all.
LEMMA UpTo ==
    ASSUME NEW n \in Nat, NEW S, 0 \in S, \A i \in 0..(n - 1) : i \in S => i + 1 \in S
    PROVE  n \in S
<1> DEFINE missing == {i \in 0..n : i \notin S}
<1>1. SUFFICES ASSUME n \notin S PROVE FALSE
  OBVIOUS
<1>2. missing \in SUBSET Nat /\ n \in missing
  BY <1>1
<1>3. PICK m \in missing : \A i \in missing : m <= i
  BY <1>2, LeastNat
<1>4. m # 0 /\ m \in 0..n /\ m \notin S
  BY <1>3
<1>5. m - 1 \in 0..(n - 1) /\ m - 1 \notin missing /\ m - 1 \in 0..n
  BY <1>3, <1>4
<1>6. m - 1 \in S /\ (m - 1) + 1 = m
  BY <1>4, <1>5
<1> QED
  BY <1>4, <1>5, <1>6

\* Parent and children places.
LEMMA Halves ==
    /\ \A i \in Nat : /\ i \div 2 \in Nat
                      /\ i > 0 => i \div 2 < i
                      /\ i % 2 = 1 <=> i = 2 * (i \div 2) + 1
                      /\ i % 2 # 1 <=> i = 2 * (i \div 2)
                      /\ i > 1 => i \div 2 >= 1
                      /\ i = 1 => i \div 2 = 0
    /\ \A i, j \in Nat : i \div 2 = j <=> i = 2 * j \/ i = 2 * j + 1
OBVIOUS

-----------------------------------------------------------------------------
(* The walk along a path.                                                   *)

\* Each turn of the walk goes one place further down the array.
LEMMA NodeAtPlace ==
    ASSUME NEW h, NEW a, NEW n, Rep(h, a, n), NEW k \in Nat \ {0}
    PROVE  NodeAt(h, k) = a[k]
<1> DEFINE Step(t) == [i \in 1..k |->
                         IF i = 1 THEN h.min
                         ELSE IF t[i \div 2] = NoNode THEN NoNode
                         ELSE IF i % 2 = 1 THEN h.right[t[i \div 2]] ELSE h.left[t[i \div 2]]]
           at == CHOOSE t : t = Step(t)
           place == [i \in 1..k |-> a[i]]
<1>1. \A i \in (1..k) \ {1} : i \div 2 \in 1..k /\ i \div 2 \in Nat
  BY Halves
<1>2. ASSUME NEW i \in 1..k
      PROVE  a[i] = IF i = 1 THEN h.min
                    ELSE IF a[i \div 2] = NoNode THEN NoNode
                    ELSE IF i % 2 = 1 THEN h.right[a[i \div 2]] ELSE h.left[a[i \div 2]]
  <2>1. CASE i = 1
    BY <2>1 DEF Rep, Linked
  <2>2. CASE i # 1
    <3>1. PICK j : j = i \div 2
      OBVIOUS
    <3>2. j \in Nat /\ j >= 1 /\ j < i /\ i \in Nat /\ i > 1
          /\ (i % 2 = 1 => i = 2 * j + 1) /\ (i % 2 # 1 => i = 2 * j)
      BY <2>2, <3>1, Halves
    <3>3. CASE j \in 1..n
      <4>1. a[j] # NoNode /\ h.right[a[j]] = a[2 * j + 1] /\ h.left[a[j]] = a[2 * j]
        BY <3>2, <3>3, NodesAssumption DEF Rep, Array, Linked
      <4> QED
        BY <2>2, <3>1, <3>2, <4>1
    <3>4. CASE j \notin 1..n
      <4>1. i \notin 1..n
        BY <3>2, <3>4 DEF Rep, Array
      <4>2. a[i] = NoNode /\ a[j] = NoNode
        BY <3>2, <3>4, <4>1 DEF Rep, Array, Pointers
      <4> QED
        BY <2>2, <3>1, <4>2
    <3> QED
      BY <3>3, <3>4
  <2> QED
    BY <2>1, <2>2
<1>3. place = Step(place)
  <2>1. ASSUME NEW i \in 1..k PROVE place[i] = Step(place)[i]
    BY <1>1, <1>2
  <2> QED
    BY <2>1
<1>4. at = Step(at)
  BY <1>3
<1>5. NodeAt(h, k) = at[k]
  BY DEF NodeAt
<1> HIDE DEF at
<1> DEFINE wrong == {i \in 1..k : at[i] # a[i]}
<1>6. wrong = {}
  <2>1. SUFFICES ASSUME wrong # {} PROVE FALSE
    OBVIOUS
  <2>2. PICK i \in wrong : \A j \in wrong : i <= j
    <3>1. wrong \in SUBSET Nat
      OBVIOUS
    <3> QED
      BY <2>1, <3>1, LeastNat
  <2>3. i \in 1..k /\ at[i] # a[i]
    BY <2>2
  <2>4. at[i] = Step(at)[i]
    BY <1>4
  <2>5. CASE i = 1
    BY <1>2, <2>3, <2>4, <2>5
  <2>6. CASE i # 1
    <3>1. PICK j : j = i \div 2
      OBVIOUS
    <3>2. j \in 1..k /\ j < i
      BY <1>1, <2>3, <2>6, <3>1, Halves
    <3>3. at[j] = a[j]
      BY <2>2, <2>3, <3>2
    <3> QED
      BY <1>2, <2>3, <2>4, <2>6, <3>1, <3>3
  <2> QED
    BY <2>5, <2>6
<1> QED
  BY <1>5, <1>6

\* The members of the heap are the nodes of its array.
LEMMA MembersHeld ==
    ASSUME NEW h, NEW a, NEW n, Rep(h, a, n)
    PROVE  {NodeAt(h, i) : i \in 1..h.nelts} = Held(a, n)
<1>1. \A i \in 1..n : i \in Nat \ {0}
  BY DEF Rep, Array
<1>2. \A i \in 1..n : NodeAt(h, i) = a[i]
  BY <1>1, NodeAtPlace
<1> QED
  BY <1>2 DEF Held, Rep

-----------------------------------------------------------------------------
(* The operations on the pointers are simple ones on the array.             *)

\* Exchanging the nodes of two places.
Exchanged(a, j, k) == [a EXCEPT ![j] = a[k], ![k] = a[j]]

\* heap_node_swap of a node and its parent exchanges their places.
LEMMA SwapExchanges ==
    ASSUME NEW h, NEW a, NEW n, Rep(h, a, n), NEW k \in 1..n, NEW j \in 1..n, j = k \div 2
    PROVE  /\ Rep(heap_node_swap(h, a[j], a[k]), Exchanged(a, j, k), n)
           /\ Held(Exchanged(a, j, k), n) = Held(a, n)
<1> DEFINE p == a[j]
           c == a[k]
           g == heap_node_swap(h, p, c)
           b == Exchanged(a, j, k)
           onLeft == h.left[p] = c
<1>1. /\ n \in Nat /\ j \in Nat /\ k \in Nat /\ j < k /\ k > 1 /\ k \in {2 * j, 2 * j + 1}
      /\ j \div 2 \in Nat /\ j \div 2 < j /\ (k = 2 * j \/ k = 2 * j + 1)
  BY Halves DEF Rep, Array
<1>2. p \in Nodes /\ c \in Nodes /\ p # c
  BY <1>1 DEF Rep, Array
<1>3. b \in [Nat -> Pointers] /\ b[j] = c /\ b[k] = p /\ \A i \in Nat \ {j, k} : b[i] = a[i]
  BY <1>1 DEF Rep, Array, Exchanged
<1> HIDE DEF b
<1>4. Array(b, n)
  <2>1. \A i \in Nat : b[i] \in Nodes <=> i \in 1..n
    BY <1>1, <1>2, <1>3 DEF Rep, Array
  <2>2. ASSUME NEW u \in 1..n, NEW v \in 1..n, b[u] = b[v] PROVE u = v
    <3>1. u \in Nat /\ v \in Nat
      BY <1>1
    <3>2. /\ u \notin {j, k} => b[u] = a[u] /\ a[u] # p /\ a[u] # c
          /\ v \notin {j, k} => b[v] = a[v] /\ a[v] # p /\ a[v] # c
      BY <1>3, <3>1 DEF Rep, Array
    <3> QED
      BY <1>2, <1>3, <2>2, <3>2 DEF Rep, Array
  <2> QED
    BY <1>1, <1>3, <2>1, <2>2 DEF Array
<1>5. Held(b, n) = Held(a, n)
  <2>1. \A i \in 1..n : i \in Nat
    BY <1>1
  <2>2. \A i \in 1..n : \E m \in 1..n : b[i] = a[m]
    BY <1>3, <2>1
  <2>3. \A i \in 1..n : \E m \in 1..n : a[i] = b[m]
    BY <1>3, <2>1
  <2> QED
    BY <2>2, <2>3 DEF Held
<1>6. /\ h.left \in [Nodes -> Pointers] /\ h.right \in [Nodes -> Pointers]
      /\ h.parent \in [Nodes -> Pointers] /\ h.min \in Pointers /\ h.nelts = n
  BY DEF Rep, Heaps
<1>7. /\ h.left[p] = a[2 * j] /\ h.right[p] = a[2 * j + 1] /\ h.parent[p] = a[j \div 2]
      /\ h.left[c] = a[2 * k] /\ h.right[c] = a[2 * k + 1] /\ h.parent[c] = p
  BY DEF Rep, Linked
<1>8. /\ g.min = (IF h.parent[p] = NoNode THEN c ELSE h.min)
      /\ g.nelts = n
      /\ g.left = [m \in Nodes |-> IF m = p THEN h.left[c]
                                  ELSE IF m = c THEN IF onLeft THEN p ELSE h.left[p]
                                  ELSE IF m = h.parent[p] /\ h.left[m] = p THEN c
                                  ELSE h.left[m]]
      /\ g.right = [m \in Nodes |-> IF m = p THEN h.right[c]
                                   ELSE IF m = c THEN IF onLeft THEN h.right[p] ELSE p
                                   ELSE IF m = h.parent[p] /\ h.left[m] # p THEN c
                                   ELSE h.right[m]]
      /\ g.parent = SwapParents(h, p, c)
      /\ g \in [min : {g.min}, nelts : {g.nelts}, left : {g.left}, right : {g.right},
                parent : {g.parent}]
  BY <1>6 DEF heap_node_swap, Rep, Heaps
<1> HIDE DEF g
<1>9. g \in Heaps
  <2>1. g.left \in [Nodes -> Pointers] /\ g.right \in [Nodes -> Pointers]
    BY <1>2, <1>6, <1>8 DEF Pointers
  <2>2. g.parent \in [Nodes -> Pointers]
    BY <1>2, <1>6, <1>8 DEF Pointers, SwapParents
  <2>3. g.min \in Pointers /\ g.nelts \in Nat
    BY <1>1, <1>2, <1>6, <1>8 DEF Pointers
  <2> QED
    BY <1>8, <2>1, <2>2, <2>3 DEF Heaps
<1>10. onLeft <=> k = 2 * j
  <2>1. 2 * j \in Nat /\ 2 * j + 1 \in Nat
    BY <1>1
  <2> QED
    BY <1>1, <1>2, <1>7, <2>1 DEF Rep, Array
<1>11. ASSUME NEW i \in 1..n
       PROVE  /\ a[i] = h.parent[p] <=> j > 1 /\ i = j \div 2
              /\ h.left[a[i]] = p <=> 2 * i = j
              /\ h.right[a[i]] = p <=> 2 * i + 1 = j
  <2>1. i \in Nat /\ 2 * i \in Nat /\ 2 * i + 1 \in Nat
    BY <1>1
  <2>2. a[i] \in Nodes /\ h.left[a[i]] = a[2 * i] /\ h.right[a[i]] = a[2 * i + 1]
    BY <2>1 DEF Rep, Array, Linked
  <2>3. \A m \in Nat : a[m] = p <=> m = j
    BY <1>1, <1>2 DEF Rep, Array
  <2>4. \A m \in Nat : a[i] = a[m] <=> i = m
    BY <2>1, <2>2 DEF Rep, Array
  <2>5. j = 1 => j \div 2 = 0
    BY Halves
  <2>6. i = j \div 2 => j > 1
    BY <1>1, <2>5
  <2> QED
    BY <1>1, <1>7, <2>1, <2>2, <2>3, <2>4, <2>6
\* A place that is neither of the two.
<1>12. ASSUME NEW i \in 1..n, i \notin {j, k}
       PROVE  b[i] = a[i] /\ a[i] \in Nodes /\ a[i] # p /\ a[i] # c /\ i \in Nat
  BY <1>1, <1>3, <1>12 DEF Rep, Array
<1>13. ASSUME NEW i \in 1..n PROVE g.left[b[i]] = b[2 * i]
  <2>1. i \in Nat /\ 2 * i \in Nat /\ 2 * k \in Nat \ {j, k} /\ 2 * j \in Nat \ {j}
    BY <1>1
  <2>2. CASE i = k
    BY <1>2, <1>3, <1>7, <1>8, <2>1, <2>2
  <2>3. CASE i = j
    <3>1. g.left[c] = IF k = 2 * j THEN p ELSE a[2 * j]
      BY <1>2, <1>7, <1>8, <1>10
    <3> QED
      BY <1>3, <2>1, <2>3, <3>1
  <2>4. CASE i \notin {j, k}
    <3>1. g.left[a[i]] = IF a[i] = h.parent[p] /\ h.left[a[i]] = p THEN c ELSE h.left[a[i]]
      BY <1>8, <1>12, <2>4
    <3>2. h.left[a[i]] = a[2 * i]
      BY DEF Rep, Linked
    <3>3. CASE 2 * i = j
      BY <1>1, <1>3, <1>11, <1>12, <2>1, <2>4, <3>1, <3>3
    <3>4. CASE 2 * i # j
      <4>1. 2 * i # k
        BY <1>1, <2>1, <2>4
      <4> QED
        BY <1>3, <1>11, <1>12, <2>1, <2>4, <3>1, <3>2, <3>4, <4>1
    <3> QED
      BY <3>3, <3>4
  <2> QED
    BY <2>2, <2>3, <2>4
<1>14. ASSUME NEW i \in 1..n PROVE g.right[b[i]] = b[2 * i + 1]
  <2>1. /\ i \in Nat /\ 2 * i + 1 \in Nat /\ 2 * k + 1 \in Nat \ {j, k}
        /\ 2 * j + 1 \in Nat \ {j}
    BY <1>1
  <2>2. CASE i = k
    BY <1>2, <1>3, <1>7, <1>8, <2>1, <2>2
  <2>3. CASE i = j
    <3>1. g.right[c] = IF k = 2 * j THEN a[2 * j + 1] ELSE p
      BY <1>2, <1>7, <1>8, <1>10
    <3> QED
      BY <1>1, <1>3, <2>1, <2>3, <3>1
  <2>4. CASE i \notin {j, k}
    <3>1. g.right[a[i]] = IF a[i] = h.parent[p] /\ h.left[a[i]] # p THEN c ELSE h.right[a[i]]
      BY <1>8, <1>12, <2>4
    <3>2. h.right[a[i]] = a[2 * i + 1]
      BY DEF Rep, Linked
    <3>3. CASE 2 * i + 1 = j
      <4>1. i = j \div 2 /\ j > 1 /\ 2 * i # j
        BY <1>1, <2>1, <3>3
      <4> QED
        BY <1>1, <1>3, <1>11, <1>12, <2>1, <2>4, <3>1, <3>3, <4>1
    <3>4. CASE 2 * i + 1 # j
      <4>1. 2 * i + 1 # k
        BY <1>1, <2>1, <2>4
      <4>2. ~(a[i] = h.parent[p] /\ h.left[a[i]] # p)
        BY <1>1, <1>11, <2>1, <3>4
      <4> QED
        BY <1>3, <1>12, <2>1, <2>4, <3>1, <3>2, <3>4, <4>1, <4>2
    <3> QED
      BY <3>3, <3>4
  <2> QED
    BY <2>2, <2>3, <2>4
<1>15. ASSUME NEW i \in 1..n PROVE g.parent[b[i]] = b[i \div 2]
  <2>1. /\ i \in Nat /\ i \div 2 \in Nat
        /\ i \div 2 = j <=> i = 2 * j \/ i = 2 * j + 1
        /\ i \div 2 = k <=> i = 2 * k \/ i = 2 * k + 1
    BY <1>1, Halves
  <2>2. CASE i = k
    BY <1>2, <1>3, <1>8, <2>2 DEF SwapParents
  <2>3. CASE i = j
    BY <1>1, <1>2, <1>3, <1>7, <1>8, <2>3 DEF SwapParents
  <2>4. CASE i \notin {j, k}
    <3>1. g.parent[a[i]] = IF a[i] \in {a[2 * j], a[2 * j + 1]} THEN c
                           ELSE IF a[i] \in {a[2 * k], a[2 * k + 1]} THEN p
                           ELSE h.parent[a[i]]
      BY <1>7, <1>8, <1>12, <2>4 DEF SwapParents
    <3>2. \A m \in Nat : a[i] = a[m] <=> i = m
      BY <1>12, <2>4 DEF Rep, Array
    <3>3. 2 * j \in Nat /\ 2 * j + 1 \in Nat /\ 2 * k \in Nat /\ 2 * k + 1 \in Nat
      BY <1>1
    <3>4. g.parent[a[i]] = IF i \div 2 = j THEN c ELSE IF i \div 2 = k THEN p ELSE h.parent[a[i]]
      BY <2>1, <3>1, <3>2, <3>3
    <3>5. h.parent[a[i]] = a[i \div 2]
      BY DEF Rep, Linked
    <3> QED
      BY <1>1, <1>3, <1>12, <2>1, <2>4, <3>4, <3>5
  <2> QED
    BY <2>2, <2>3, <2>4
<1>16. g.min = b[1]
  <2>1. CASE j = 1
    <3>1. a[0] = NoNode
      BY <1>1 DEF Rep, Array, Pointers
    <3>2. j \div 2 = 0
      BY <2>1, Halves
    <3> QED
      BY <1>3, <1>7, <1>8, <2>1, <3>1, <3>2
  <2>2. CASE j # 1
    <3>1. a[j \div 2] \in Nodes /\ 1 \in Nat \ {j, k}
      BY <1>1, <2>2 DEF Rep, Array
    <3>2. h.min = a[1]
      BY DEF Rep, Linked
    <3> QED
      BY <1>3, <1>7, <1>8, <3>1, <3>2, NodesAssumption
  <2> QED
    BY <2>1, <2>2
<1>17. Rep(g, b, n)
  BY <1>4, <1>8, <1>9, <1>13, <1>14, <1>15, <1>16 DEF Rep, Linked
<1> QED
  BY <1>5, <1>17 DEF g, b

\* Setting a node's three pointers sets nothing else.
WithPointers(h, x, w) == [h EXCEPT !.left[x] = NoNode, !.right[x] = NoNode, !.parent[x] = w]

Repointed(g, h, x, w) ==
    /\ g \in Heaps /\ g.min = h.min /\ g.nelts = h.nelts
    /\ g.left[x] = NoNode /\ g.right[x] = NoNode /\ g.parent[x] = w
    /\ \A m \in Nodes \ {x} : /\ g.left[m] = h.left[m]
                             /\ g.right[m] = h.right[m]
                             /\ g.parent[m] = h.parent[m]

LEMMA PointersSet ==
    ASSUME NEW h \in Heaps, NEW x \in Nodes, NEW w \in Pointers
    PROVE  Repointed(WithPointers(h, x, w), h, x, w)
<1> DEFINE g == WithPointers(h, x, w)
<1> SUFFICES Repointed(g, h, x, w)
  OBVIOUS
<1> USE DEF WithPointers
<1>1. g \in Heaps /\ g.min = h.min /\ g.nelts = h.nelts
  BY DEF Heaps, Pointers
<1>2. /\ g.left = [h.left EXCEPT ![x] = NoNode]
      /\ g.right = [h.right EXCEPT ![x] = NoNode]
      /\ g.parent = [h.parent EXCEPT ![x] = w]
  BY DEF Heaps
<1>3. /\ h.left \in [Nodes -> Pointers] /\ h.right \in [Nodes -> Pointers]
      /\ h.parent \in [Nodes -> Pointers]
  BY DEF Heaps
<1> HIDE DEF g
<1> QED
  BY <1>1, <1>2, <1>3 DEF Repointed

\* A node that is out can have any pointers.
LEMMA OutsideFree ==
    ASSUME NEW h, NEW a, NEW n, Rep(h, a, n), NEW x \in Nodes \ Held(a, n),
           NEW g \in Heaps, g.min = h.min, g.nelts = h.nelts,
           \A m \in Nodes \ {x} : /\ g.left[m] = h.left[m]
                                 /\ g.right[m] = h.right[m]
                                 /\ g.parent[m] = h.parent[m]
    PROVE  Rep(g, a, n)
<1>1. \A i \in 1..n : a[i] \in Nodes \ {x}
  BY DEF Rep, Array, Held
<1> QED
  BY <1>1 DEF Rep, Linked

\* g is h with x in the slot of place k.
SlotSet(g, h, a, n, k, x) ==
    /\ g \in Heaps /\ g.nelts = n /\ g.parent = h.parent
    /\ g.min = IF k = 1 THEN x ELSE h.min
    /\ \A i \in 1..n : /\ g.left[a[i]] = IF 2 * i = k THEN x ELSE h.left[a[i]]
                       /\ g.right[a[i]] = IF 2 * i + 1 = k THEN x ELSE h.right[a[i]]
    /\ \A m \in Nodes \ Held(a, n) : g.left[m] = h.left[m] /\ g.right[m] = h.right[m]

\* The slot below place k \div 2 is the one of place k.
LEMMA AttachSlot ==
    ASSUME NEW h, NEW a, NEW n, Rep(h, a, n),
           NEW k \in Nat \ {0}, k <= n + 1, NEW x \in Pointers
    PROVE  SlotSet(Attach(h, k, x), h, a, n, k, x)
<1> DEFINE g == Attach(h, k, x)
           d == k \div 2
<1> SUFFICES SlotSet(g, h, a, n, k, x)
  OBVIOUS
<1>1. /\ h.left \in [Nodes -> Pointers] /\ h.right \in [Nodes -> Pointers] /\ n \in Nat
      /\ h \in Heaps /\ h.nelts = n
  BY DEF Rep, Heaps, Array
<1>2. CASE k = 1
  <2>1. g = [h EXCEPT !.min = x]
    BY <1>2 DEF Attach
  <2>2. g \in Heaps /\ g.nelts = n /\ g.parent = h.parent /\ g.min = x
          /\ g.left = h.left /\ g.right = h.right
    BY <1>1, <2>1 DEF Heaps
  <2> HIDE DEF g
  <2>3. \A i \in 1..n : 2 * i # 1 /\ 2 * i + 1 # 1
    BY <1>1
  <2> QED
    BY <1>2, <2>2, <2>3 DEF SlotSet
<1>3. CASE k # 1
  <2>1. d \in 1..n /\ d \in Nat \ {0} /\ k \in Nat
        /\ (k % 2 = 1 <=> k = 2 * d + 1) /\ (k % 2 # 1 <=> k = 2 * d)
    BY <1>1, <1>3, Halves
  <2>2. NodeAt(h, d) = a[d]
    BY <2>1, NodeAtPlace
  <2>3. a[d] \in Nodes /\ \A i \in 1..n : a[i] \in Nodes /\ (a[i] = a[d] <=> i = d)
    BY <2>1 DEF Rep, Array
  <2>4. a[d] \in Held(a, n)
    BY <2>1 DEF Held
  <2>5. CASE k % 2 = 1
    <3>1. g = [h EXCEPT !.right[a[d]] = x]
      BY <1>3, <2>2, <2>5 DEF Attach
    <3>2. g \in Heaps /\ g.nelts = n /\ g.parent = h.parent /\ g.min = h.min
            /\ g.left = h.left /\ g.right = [h.right EXCEPT ![a[d]] = x]
      BY <1>1, <3>1 DEF Heaps
    <3>3. k = 2 * d + 1 /\ \A i \in 1..n : 2 * i # k /\ (2 * i + 1 = k <=> i = d)
      BY <1>1, <2>1, <2>5
    <3> HIDE DEF g, d
    <3> QED
      BY <1>1, <1>3, <2>3, <2>4, <3>2, <3>3 DEF SlotSet
  <2>6. CASE k % 2 # 1
    <3>1. g = [h EXCEPT !.left[a[d]] = x]
      BY <1>3, <2>2, <2>6 DEF Attach
    <3>2. g \in Heaps /\ g.nelts = n /\ g.parent = h.parent /\ g.min = h.min
            /\ g.right = h.right /\ g.left = [h.left EXCEPT ![a[d]] = x]
      BY <1>1, <3>1 DEF Heaps
    <3>3. k = 2 * d /\ \A i \in 1..n : 2 * i + 1 # k /\ (2 * i = k <=> i = d)
      BY <1>1, <2>1, <2>6
    <3> HIDE DEF g, d
    <3> QED
      BY <1>1, <1>3, <2>3, <2>4, <3>2, <3>3 DEF SlotSet
  <2> QED
    BY <2>5, <2>6
<1> QED
  BY <1>2, <1>3

\* heap_insert's linking puts x in the first free place.
LEMMA InsertAppends ==
    ASSUME NEW h, NEW a, NEW n, Rep(h, a, n), NEW x \in Nodes \ Held(a, n),
           NEW g, Repointed(g, h, x, a[(n + 1) \div 2])
    PROVE  /\ Rep(WithCount(Attach(g, n + 1, x), Attach(g, n + 1, x).nelts + 1),
                  Put(a, n + 1, x), n + 1)
           /\ Held(Put(a, n + 1, x), n + 1) = Held(a, n) \cup {x}
<1> DEFINE t == Attach(g, n + 1, x)
           f == WithCount(t, t.nelts + 1)
           b == Put(a, n + 1, x)
           u == (n + 1) \div 2
<1>1. /\ n \in Nat /\ a \in [Nat -> Pointers] /\ n + 1 \in Nat \ {0} /\ u \in Nat /\ u < n + 1
      /\ h \in Heaps /\ h.left \in [Nodes -> Pointers] /\ h.right \in [Nodes -> Pointers]
      /\ h.parent \in [Nodes -> Pointers]
  BY Halves DEF Rep, Array, Heaps
<1>2. g.left[x] = NoNode /\ g.right[x] = NoNode /\ g.parent[x] = a[u]
  BY DEF Repointed
<1> HIDE DEF u
<1>3. Rep(g, a, n)
  BY OutsideFree DEF Repointed
<1>5. n + 1 <= n + 1 /\ x \in Pointers
  BY <1>1 DEF Pointers
<1>7. SlotSet(t, g, a, n, n + 1, x)
  BY <1>1, <1>3, <1>5, AttachSlot
<1> HIDE DEF t
<1>8. /\ f \in Heaps /\ f.nelts = n + 1 /\ f.parent = t.parent /\ f.min = t.min
      /\ f.left = t.left /\ f.right = t.right
  BY <1>1, <1>7 DEF Heaps, SlotSet, WithCount
<1> HIDE DEF f
<1>9. b \in [Nat -> Pointers] /\ b[n + 1] = x /\ \A i \in Nat \ {n + 1} : b[i] = a[i]
  <2>1. PICK m : m = n + 1
    OBVIOUS
  <2>2. m \in Nat
    BY <1>1, <2>1
  <2>3. /\ Put(a, m, x) \in [Nat -> Pointers] /\ Put(a, m, x)[m] = x
        /\ \A i \in Nat \ {m} : Put(a, m, x)[i] = a[i]
    <3>1. a \in [Nat -> Pointers] /\ x \in Pointers
      BY <1>1, <1>5
    <3> HIDE DEF b
    <3> QED
      BY <2>2, <3>1 DEF Put
  <2> QED
    BY <2>1, <2>3
<1> HIDE DEF b
<1>10. \A i \in 1..(n + 1) : i \in Nat /\ (i = n + 1 \/ i \in 1..n)
  BY <1>1
<1>11. Array(b, n + 1)
  <2>1. \A i \in 1..n : b[i] = a[i] /\ a[i] # x /\ a[i] \in Nodes
    BY <1>1, <1>9, <1>10 DEF Held, Rep, Array
  <2>2. \A i \in Nat : b[i] \in Nodes <=> i \in 1..(n + 1)
    BY <1>1, <1>9, <1>10 DEF Rep, Array
  <2>3. \A i, j \in 1..(n + 1) : b[i] = b[j] => i = j
    BY <1>9, <1>10, <2>1 DEF Rep, Array
  <2> QED
    BY <1>1, <1>9, <2>2, <2>3 DEF Array
<1>12. Held(b, n + 1) = Held(a, n) \cup {x}
  <2>1. \A i \in 1..n : b[i] = a[i] /\ i \in 1..(n + 1)
    BY <1>1, <1>9
  <2>2. n + 1 \in 1..(n + 1)
    BY <1>1
  <2> QED
    BY <1>9, <1>10, <2>1, <2>2 DEF Held
<1>13. ASSUME NEW i \in 1..(n + 1)
       PROVE  f.left[b[i]] = b[2 * i] /\ f.right[b[i]] = b[2 * i + 1] /\ f.parent[b[i]] = b[i \div 2]
  <2>1. i \div 2 \in Nat /\ i \div 2 < i /\ i \in Nat /\ 2 * i \in Nat /\ 2 * i + 1 \in Nat
    BY <1>10, Halves
  <2>2. CASE i = n + 1
    <3>1. b[2 * i] = NoNode /\ b[2 * i + 1] = NoNode
      <4>1. 2 * i \notin 1..n /\ 2 * i + 1 \notin 1..n /\ 2 * i # n + 1 /\ 2 * i + 1 # n + 1
        BY <1>1, <2>2
      <4> QED
        BY <1>9, <2>1, <4>1 DEF Rep, Array, Pointers
    <3>2. i \div 2 = u
      BY <2>2 DEF u
    <3>3. b[u] = a[u]
      BY <1>1, <1>9
    <3> QED
      BY <1>7, <1>8, <1>9, <2>2, <1>2, <3>1, <3>2, <3>3 DEF SlotSet
  <2>3. CASE i \in 1..n
    <3>1. b[i] = a[i] /\ b[i \div 2] = a[i \div 2]
      BY <1>1, <1>9, <2>1, <2>3
    <3>2. g.left[a[i]] = a[2 * i] /\ g.right[a[i]] = a[2 * i + 1] /\ g.parent[a[i]] = a[i \div 2]
      BY <1>3, <2>3 DEF Rep, Linked
    <3> QED
      BY <1>7, <1>8, <1>9, <2>1, <2>3, <3>1, <3>2 DEF SlotSet
  <2> QED
    BY <1>10, <2>2, <2>3
<1>14. f.min = b[1]
  BY <1>1, <1>3, <1>7, <1>8, <1>9 DEF Rep, Linked, SlotSet
<1>15. Rep(f, b, n + 1)
  BY <1>8, <1>11, <1>13, <1>14 DEF Rep, Linked
<1> QED
  BY <1>12, <1>15 DEF b, f, t

\* heap_remove's unlinking clears the last place.
LEMMA UnlinkClears ==
    ASSUME NEW h, NEW a, NEW n, Rep(h, a, n), n >= 1
    PROVE  /\ Rep(WithCount(Attach(h, n, NoNode), n - 1), Put(a, n, NoNode), n - 1)
           /\ Held(Put(a, n, NoNode), n - 1) = Held(a, n) \ {a[n]}
<1> DEFINE t == Attach(h, n, NoNode)
           f == WithCount(t, n - 1)
           b == Put(a, n, NoNode)
<1>1. n \in Nat \ {0} /\ n - 1 \in Nat /\ n \in 1..n /\ a \in [Nat -> Pointers] /\ n <= n + 1
  BY DEF Rep, Array
<1>2. SlotSet(t, h, a, n, n, NoNode)
  BY <1>1, AttachSlot DEF Pointers
<1> HIDE DEF t
<1>3. /\ f \in Heaps /\ f.nelts = n - 1 /\ f.parent = t.parent /\ f.min = t.min
      /\ f.left = t.left /\ f.right = t.right
  BY <1>1, <1>2 DEF Heaps, SlotSet, WithCount
<1> HIDE DEF f
<1>4. b \in [Nat -> Pointers] /\ b[n] = NoNode /\ \A i \in Nat \ {n} : b[i] = a[i]
  BY <1>1, PutPlaces DEF Pointers
<1> HIDE DEF b
<1>5. \A i \in 1..(n - 1) : i \in Nat /\ i \in 1..n /\ i # n
  BY <1>1
<1>6. \A i \in 1..n : i = n \/ i \in 1..(n - 1)
  BY <1>1
<1>7. Array(b, n - 1)
  <2>1. \A i \in Nat : b[i] \in Nodes <=> i \in 1..(n - 1)
    BY <1>1, <1>4, <1>5, <1>6, NodesAssumption DEF Rep, Array
  <2>2. \A i, j \in 1..(n - 1) : b[i] = b[j] => i = j
    BY <1>4, <1>5 DEF Rep, Array
  <2> QED
    BY <1>1, <1>4, <2>1, <2>2 DEF Array
<1>8. Held(b, n - 1) = Held(a, n) \ {a[n]}
  <2>1. \A i \in 1..(n - 1) : b[i] = a[i] /\ a[i] # a[n]
    BY <1>1, <1>4, <1>5 DEF Rep, Array
  <2> QED
    BY <1>5, <1>6, <2>1 DEF Held
<1>9. ASSUME NEW i \in 1..(n - 1)
      PROVE  f.left[b[i]] = b[2 * i] /\ f.right[b[i]] = b[2 * i + 1] /\ f.parent[b[i]] = b[i \div 2]
  <2>1. i \div 2 \in Nat /\ i \div 2 < i /\ 2 * i \in Nat /\ 2 * i + 1 \in Nat /\ i < n
    BY <1>1, <1>5, Halves
  <2>2. h.left[a[i]] = a[2 * i] /\ h.right[a[i]] = a[2 * i + 1] /\ h.parent[a[i]] = a[i \div 2]
    BY <1>5 DEF Rep, Linked
  <2>3. b[i] = a[i] /\ b[i \div 2] = a[i \div 2]
    BY <1>1, <1>4, <1>5, <2>1
  <2> QED
    BY <1>2, <1>3, <1>4, <1>5, <2>1, <2>2, <2>3 DEF SlotSet
<1>10. f.min = b[1]
  <2>1. h.min = a[1]
    BY DEF Rep, Linked
  <2> QED
    BY <1>1, <1>2, <1>3, <1>4, <2>1 DEF SlotSet
<1>11. Rep(f, b, n - 1)
  BY <1>3, <1>7, <1>9, <1>10 DEF Rep, Linked
<1> QED
  BY <1>8, <1>11 DEF b, f, t

\* Replace and Forget put `last` in the place of x.
LEMMA ReplacePuts ==
    ASSUME NEW h, NEW a, NEW n, Rep(h, a, n), NEW k \in 1..n, NEW x, x = a[k],
           NEW last \in Nodes \ Held(a, n)
    PROVE  /\ Rep(Forget(Replace(h, x, last), x), Put(a, k, last), n)
           /\ Held(Put(a, k, last), n) = (Held(a, n) \ {x}) \cup {last}
<1> DEFINE g == Replace(h, x, last)
           f == Forget(g, x)
           b == Put(a, k, last)
<1>1. /\ n \in Nat /\ k \in Nat \ {0} /\ a \in [Nat -> Pointers]
      /\ k \div 2 \in Nat /\ k \div 2 < k /\ 2 * k \in Nat \ {k} /\ 2 * k + 1 \in Nat \ {k}
  BY Halves DEF Rep, Array
<1>2. x \in Nodes /\ x # last /\ last \in Nodes
  BY <1>1 DEF Rep, Array, Held
<1>3. b \in [Nat -> Pointers] /\ b[k] = last /\ \A i \in Nat \ {k} : b[i] = a[i]
  BY <1>1, PutPlaces DEF Pointers
<1> HIDE DEF b
<1>4. ASSUME NEW i \in 1..n, i # k
      PROVE  b[i] = a[i] /\ a[i] \in Nodes /\ a[i] # x /\ a[i] # last /\ i \in Nat
  BY <1>1, <1>3, <1>4 DEF Rep, Array, Held
<1>5. Array(b, n)
  <2>1. \A i \in Nat : b[i] \in Nodes <=> i \in 1..n
    BY <1>1, <1>2, <1>3, <1>4 DEF Rep, Array
  <2>2. \A i, j \in 1..n : b[i] = b[j] => i = j
    BY <1>2, <1>3, <1>4 DEF Rep, Array
  <2> QED
    BY <1>1, <1>3, <2>1, <2>2 DEF Array
<1>6. Held(b, n) = (Held(a, n) \ {x}) \cup {last}
  BY <1>3, <1>4 DEF Held
<1>7. /\ h.left[x] = a[2 * k] /\ h.right[x] = a[2 * k + 1] /\ h.parent[x] = a[k \div 2]
      /\ h.left \in [Nodes -> Pointers] /\ h.right \in [Nodes -> Pointers]
      /\ h.parent \in [Nodes -> Pointers] /\ h.min \in Pointers /\ h.nelts = n
      /\ h.min = a[1]
  BY DEF Rep, Heaps, Linked
<1>8. /\ g.min = (IF h.parent[x] = NoNode THEN last ELSE h.min)
      /\ g.nelts = n
      /\ g.left = [m \in Nodes |-> IF m = last THEN h.left[x]
                                  ELSE IF m = h.parent[x] /\ h.left[m] = x THEN last
                                  ELSE h.left[m]]
      /\ g.right = [m \in Nodes |-> IF m = last THEN h.right[x]
                                   ELSE IF m = h.parent[x] /\ h.left[m] # x THEN last
                                   ELSE h.right[m]]
      /\ g.parent = [m \in Nodes |-> IF m \in {h.left[x], h.right[x]} THEN last
                                    ELSE IF m = last THEN h.parent[x] ELSE h.parent[m]]
      /\ g \in [min : {g.min}, nelts : {g.nelts}, left : {g.left}, right : {g.right},
                parent : {g.parent}]
  BY <1>7 DEF Replace, Rep, Heaps
<1> HIDE DEF g
<1>9. g \in Heaps
  <2>1. g.left \in [Nodes -> Pointers] /\ g.right \in [Nodes -> Pointers]
    BY <1>2, <1>7, <1>8 DEF Pointers
  <2>2. g.parent \in [Nodes -> Pointers]
    BY <1>2, <1>7, <1>8 DEF Pointers
  <2>3. g.min \in Pointers /\ g.nelts \in Nat
    BY <1>1, <1>2, <1>7, <1>8 DEF Pointers
  <2> QED
    BY <1>8, <2>1, <2>2, <2>3 DEF Heaps
<1>10. ASSUME NEW i \in 1..n
       PROVE  /\ a[i] = h.parent[x] <=> k > 1 /\ i = k \div 2
              /\ h.left[a[i]] = x <=> 2 * i = k
              /\ h.right[a[i]] = x <=> 2 * i + 1 = k
  <2>1. i \in Nat /\ 2 * i \in Nat /\ 2 * i + 1 \in Nat
    BY <1>1
  <2>2. a[i] \in Nodes /\ h.left[a[i]] = a[2 * i] /\ h.right[a[i]] = a[2 * i + 1]
    BY <2>1 DEF Rep, Array, Linked
  <2>3. \A m \in Nat : a[m] = x <=> m = k
    BY <1>1, <1>2 DEF Rep, Array
  <2>4. \A m \in Nat : a[i] = a[m] <=> i = m
    BY <2>1, <2>2 DEF Rep, Array
  <2>5. k = 1 => k \div 2 = 0
    BY Halves
  <2>6. i = k \div 2 => k > 1
    BY <1>1, <2>1, <2>5
  <2> QED
    BY <1>1, <1>7, <2>1, <2>2, <2>3, <2>4, <2>6
<1>11. ASSUME NEW i \in 1..n PROVE g.left[b[i]] = b[2 * i]
  <2>1. CASE i = k
    BY <1>1, <1>2, <1>3, <1>7, <1>8, <2>1
  <2>2. CASE i # k
    <3>1. g.left[a[i]] = IF a[i] = h.parent[x] /\ h.left[a[i]] = x THEN last ELSE h.left[a[i]]
      BY <1>4, <1>8, <2>2
    <3>2. h.left[a[i]] = a[2 * i] /\ 2 * i \in Nat
      <4>1. i \in Nat /\ 2 * i \in Nat
        BY <1>1
      <4> QED
        BY <4>1 DEF Rep, Linked
    <3>3. 2 * i = k => k > 1 /\ i = k \div 2
      BY <1>1
    <3> QED
      BY <1>3, <1>4, <1>10, <2>2, <3>1, <3>2, <3>3
  <2> QED
    BY <2>1, <2>2
<1>12. ASSUME NEW i \in 1..n PROVE g.right[b[i]] = b[2 * i + 1]
  <2>1. CASE i = k
    BY <1>1, <1>2, <1>3, <1>7, <1>8, <2>1
  <2>2. CASE i # k
    <3>1. g.right[a[i]] = IF a[i] = h.parent[x] /\ h.left[a[i]] # x THEN last ELSE h.right[a[i]]
      BY <1>4, <1>8, <2>2
    <3>2. h.right[a[i]] = a[2 * i + 1] /\ 2 * i + 1 \in Nat
      <4>1. i \in Nat /\ 2 * i + 1 \in Nat
        BY <1>1
      <4> QED
        BY <4>1 DEF Rep, Linked
    <3>3. 2 * i + 1 = k <=> k > 1 /\ i = k \div 2 /\ 2 * i # k
      BY <1>1
    <3> QED
      BY <1>3, <1>4, <1>10, <2>2, <3>1, <3>2, <3>3
  <2> QED
    BY <2>1, <2>2
<1>13. ASSUME NEW i \in 1..n PROVE g.parent[b[i]] = b[i \div 2]
  <2>1. /\ i \in Nat /\ i \div 2 \in Nat
        /\ i \div 2 = k <=> i = 2 * k \/ i = 2 * k + 1
    BY <1>1, Halves
  <2>2. CASE i = k
    <3>1. last # a[2 * k] /\ last # a[2 * k + 1]
      BY <1>1, <1>2 DEF Rep, Array, Held
    <3> QED
      BY <1>1, <1>2, <1>3, <1>7, <1>8, <2>2, <3>1
  <2>3. CASE i # k
    <3>1. g.parent[a[i]] = IF a[i] \in {a[2 * k], a[2 * k + 1]} THEN last ELSE h.parent[a[i]]
      BY <1>4, <1>7, <1>8, <2>3
    <3>2. \A m \in Nat : a[i] = a[m] <=> i = m
      BY <1>4, <2>3 DEF Rep, Array
    <3>3. h.parent[a[i]] = a[i \div 2]
      BY DEF Rep, Linked
    <3> QED
      BY <1>1, <1>3, <1>4, <2>1, <2>3, <3>1, <3>2, <3>3
  <2> QED
    BY <2>2, <2>3
<1>14. g.min = b[1]
  <2>1. CASE k = 1
    <3>1. a[0] = NoNode
      BY <1>1 DEF Rep, Array, Pointers
    <3>2. k \div 2 = 0
      BY <2>1, Halves
    <3> QED
      BY <1>3, <1>7, <1>8, <2>1, <3>1, <3>2
  <2>2. CASE k # 1
    <3>1. k \div 2 \in 1..n
      BY <1>1, <2>2
    <3>2. a[k \div 2] \in Nodes
      BY <1>1, <3>1 DEF Rep, Array
    <3> QED
      BY <1>3, <1>7, <1>8, <2>2, <3>2, NodesAssumption
  <2> QED
    BY <2>1, <2>2
<1>15. Rep(g, b, n)
  BY <1>5, <1>8, <1>9, <1>11, <1>12, <1>13, <1>14 DEF Rep, Linked
<1>16. Rep(f, b, n)
  <2>1. x \notin Held(b, n) /\ NoNode \in Pointers
    BY <1>2, <1>6 DEF Pointers
  <2>2. Repointed(WithPointers(g, x, NoNode), g, x, NoNode)
    BY <1>2, <1>9, <2>1, PointersSet
  <2>3. f = WithPointers(g, x, NoNode)
    BY DEF Forget, WithPointers
  <2> HIDE DEF f
  <2> QED
    BY <1>2, <1>15, <2>1, <2>2, <2>3, OutsideFree DEF Repointed
<1> QED
  BY <1>6, <1>16 DEF b, f, g

-----------------------------------------------------------------------------
(* Order in arrays.                                                         *)

\* No node is less than the one above it.
Sorted(a, n) == \A i \in 2..n : Key[a[i \div 2]] <= Key[a[i]]

\* Below place k no key is less than the one above it.
Bridged(a, n, k) == k > 1 => \A i \in 2..n : i \div 2 = k => Key[a[k \div 2]] <= Key[a[i]]

\* Sorted, but the node of place k may be less than the one above it.
SortedBelow(a, n, k) ==
    Bridged(a, n, k) /\ \A i \in 2..n : i # k => Key[a[i \div 2]] <= Key[a[i]]

\* Sorted, but the node of place k may be in disorder with all its neighbours.
SortedAround(a, n, k) ==
    /\ Bridged(a, n, k)
    /\ \A i \in 2..n : i # k /\ i \div 2 # k => Key[a[i \div 2]] <= Key[a[i]]

LEMMA KeysOfArray ==
    ASSUME NEW a, NEW n, Array(a, n)
    PROVE  \A i \in 1..n : i \in Nat /\ a[i] \in Nodes /\ Key[a[i]] \in Nat
BY KeyAssumption DEF Array

\* The places above and below.
LEMMA PlacesAround ==
    ASSUME NEW n \in Nat
    PROVE  \A i \in 2..n : /\ i \in 1..n /\ i \div 2 \in 1..n /\ i \div 2 < i
                          /\ i \div 2 > 1 => i \div 2 \in 2..n
<1> SUFFICES ASSUME NEW i \in 2..n
             PROVE  /\ i \in 1..n /\ i \div 2 \in 1..n /\ i \div 2 < i
                    /\ i \div 2 > 1 => i \div 2 \in 2..n
  OBVIOUS
<1>1. i \in Nat /\ i \div 2 \in Nat /\ i \div 2 < i /\ i \div 2 >= 1
  BY Halves
<1> QED
  BY <1>1

\* Exchanging a node that is less than the one above with it.
LEMMA UpStep ==
    ASSUME NEW a, NEW n, Array(a, n), NEW k \in 2..n, NEW j, j = k \div 2,
           SortedBelow(a, n, k), Key[a[k]] < Key[a[j]]
    PROVE  SortedBelow(Exchanged(a, j, k), n, j)
<1> DEFINE b == Exchanged(a, j, k)
<1> SUFFICES SortedBelow(b, n, j)
  OBVIOUS
<1>1. n \in Nat /\ a \in [Nat -> Pointers] /\ k \in 1..n /\ j \in 1..n /\ j \in Nat /\ k \in Nat
      /\ j < k
  BY PlacesAround DEF Array
<1>2. b[j] = a[k] /\ b[k] = a[j] /\ \A i \in Nat \ {j, k} : b[i] = a[i]
  BY <1>1 DEF Exchanged
<1> HIDE DEF b
<1>3. \A i \in 1..n : i \in Nat /\ Key[a[i]] \in Nat
  BY KeysOfArray
<1>4. \A i \in 2..n : i \in 1..n /\ i \div 2 \in 1..n /\ i \div 2 < i
  BY <1>1, PlacesAround
<1>5. \A i \in 2..n : i # k => Key[a[i \div 2]] <= Key[a[i]]
  BY DEF SortedBelow
<1>6. ASSUME NEW i \in 2..n, i # j PROVE Key[b[i \div 2]] <= Key[b[i]]
  <2>1. CASE i = k
    BY <1>1, <1>2, <1>3, <2>1
  <2>2. CASE i # k /\ i \div 2 = j
    <3>1. Key[b[j]] = Key[a[k]] /\ Key[b[i]] = Key[a[i]] /\ Key[a[j]] <= Key[a[i]]
      BY <1>2, <1>4, <1>5, <1>6, <1>3, <2>2
    <3> QED
      BY <1>1, <1>3, <1>4, <2>2, <3>1
  <2>3. CASE i # k /\ i \div 2 = k
    <3>1. Key[a[k \div 2]] <= Key[a[i]] /\ b[i] = a[i]
      BY <1>1, <1>2, <1>3, <1>4, <1>6, <2>3 DEF SortedBelow, Bridged
    <3> QED
      BY <1>2, <2>3, <3>1
  <2>4. CASE i # k /\ i \div 2 \notin {j, k}
    BY <1>2, <1>3, <1>4, <1>5, <1>6, <2>4
  <2> QED
    BY <2>1, <2>2, <2>3, <2>4
<1>7. ASSUME j > 1, NEW i \in 2..n, i \div 2 = j PROVE Key[b[j \div 2]] <= Key[b[i]]
  <2>1. j \in 2..n /\ j \div 2 \in 1..n /\ j \div 2 < j
    BY <1>1, <1>7, PlacesAround
  <2>2. b[j \div 2] = a[j \div 2] /\ Key[a[j \div 2]] <= Key[a[j]]
    BY <1>1, <1>2, <1>3, <1>5, <2>1
  <2>3. CASE i = k
    BY <1>2, <2>2, <2>3
  <2>4. CASE i # k
    <3>1. b[i] = a[i] /\ Key[a[j]] <= Key[a[i]]
      BY <1>2, <1>3, <1>4, <1>5, <1>7, <2>4
    <3> QED
      BY <1>1, <1>3, <1>4, <2>1, <2>2, <3>1
  <2> QED
    BY <2>3, <2>4
<1> QED
  BY <1>6, <1>7 DEF SortedBelow, Bridged

\* Exchanging a node with the least of those below, when that is less.
LEMMA DownStep ==
    ASSUME NEW a, NEW n, Array(a, n), NEW s \in 2..n, NEW k, k = s \div 2,
           SortedAround(a, n, k), Key[a[s]] < Key[a[k]],
           \A i \in 2..n : i \div 2 = k => Key[a[s]] <= Key[a[i]]
    PROVE  SortedAround(Exchanged(a, k, s), n, s)
<1> DEFINE b == Exchanged(a, k, s)
<1> SUFFICES SortedAround(b, n, s)
  OBVIOUS
<1>1. n \in Nat /\ a \in [Nat -> Pointers] /\ k \in 1..n /\ s \in 1..n /\ s \in Nat /\ k \in Nat
      /\ k < s
  BY PlacesAround DEF Array
<1>2. b[k] = a[s] /\ b[s] = a[k] /\ \A i \in Nat \ {k, s} : b[i] = a[i]
  BY <1>1 DEF Exchanged
<1> HIDE DEF b
<1>3. \A i \in 1..n : i \in Nat /\ Key[a[i]] \in Nat
  BY KeysOfArray
<1>4. \A i \in 2..n : i \in 1..n /\ i \div 2 \in 1..n /\ i \div 2 < i
  BY <1>1, PlacesAround
<1>5. \A i \in 2..n : i # k /\ i \div 2 # k => Key[a[i \div 2]] <= Key[a[i]]
  BY DEF SortedAround
<1>6. ASSUME NEW i \in 2..n, i # s, i \div 2 # s PROVE Key[b[i \div 2]] <= Key[b[i]]
  <2>1. CASE i = k
    <3>1. Key[a[k \div 2]] <= Key[a[s]]
      BY <1>1, <2>1 DEF SortedAround, Bridged
    <3>2. k \div 2 \in Nat \ {k, s}
      BY <1>1, <1>3, <1>4, <2>1
    <3> QED
      BY <1>2, <2>1, <3>1, <3>2
  <2>2. CASE i # k /\ i \div 2 = k
    BY <1>2, <1>3, <1>4, <1>6, <2>2
  <2>3. CASE i # k /\ i \div 2 # k
    BY <1>2, <1>3, <1>4, <1>5, <1>6, <2>3
  <2> QED
    BY <2>1, <2>2, <2>3
<1>7. ASSUME NEW i \in 2..n, i \div 2 = s PROVE Key[b[s \div 2]] <= Key[b[i]]
  <2>1. i \notin {k, s} /\ i \in Nat
    BY <1>1, <1>3, <1>4, <1>7
  <2>2. Key[a[s]] <= Key[a[i]]
    BY <1>1, <1>5, <1>7, <2>1
  <2> QED
    BY <1>2, <2>1, <2>2
<1> QED
  BY <1>6, <1>7 DEF SortedAround, Bridged

\* The first node of a sorted array is a least one.
LEMMA RootLeast ==
    ASSUME NEW a, NEW n, Array(a, n), Sorted(a, n)
    PROVE  \A i \in 1..n : Key[a[1]] <= Key[a[i]]
<1> DEFINE wrong == {i \in 1..n : ~ (Key[a[1]] <= Key[a[i]])}
<1>1. SUFFICES ASSUME wrong # {} PROVE FALSE
  OBVIOUS
<1>2. n \in Nat /\ \A i \in 1..n : i \in Nat /\ Key[a[i]] \in Nat
  BY KeysOfArray DEF Array
<1>3. wrong \in SUBSET Nat
  BY <1>2
<1>4. PICK m \in wrong : \A i \in wrong : m <= i
  BY <1>1, <1>3, LeastNat
<1>5. m \in 2..n
  BY <1>2, <1>4
<1>6. m \div 2 \in 1..n /\ m \div 2 < m /\ Key[a[m \div 2]] <= Key[a[m]]
  BY <1>2, <1>5, PlacesAround DEF Sorted
<1>7. m \div 2 \notin wrong
  BY <1>2, <1>4, <1>6
<1>8. Key[a[1]] <= Key[a[m \div 2]] /\ 1 \in 1..n
  BY <1>2, <1>5, <1>6, <1>7
<1> QED
  BY <1>2, <1>4, <1>6, <1>8

\* An array holds as many nodes as it has places.
LEMMA ArrayCount ==
    ASSUME NEW a, NEW n, Array(a, n)
    PROVE  /\ Held(a, n) \subseteq Nodes
           /\ Cardinality(Held(a, n)) = n
           /\ n <= Cardinality(Nodes) /\ Cardinality(Nodes) \in Nat
<1> DEFINE f == [i \in 1..n |-> a[i]]
<1>1. n \in Nat /\ Held(a, n) \subseteq Nodes
  BY KeysOfArray DEF Array, Held
<1>2. f \in Bijection(1..n, Held(a, n))
  BY DEF Bijection, Injection, Surjection, IsInjective, Array, Held
<1>3. Cardinality(Held(a, n)) = n
  BY <1>1, <1>2, FS_CountingElements DEF ExistsBijection
<1>4. Cardinality(Held(a, n)) <= Cardinality(Nodes)
  BY <1>1, NodesAssumption, FS_Subset DEF NodesAssumption
<1> QED
  BY <1>1, <1>3, <1>4, NodesAssumption, FS_CardinalityType DEF NodesAssumption

-----------------------------------------------------------------------------
(* The loops.                                                               *)

\* What m turns of a loop body within S give, one after the other.
Runs(S, B, h, m) ==
    {t \in [0..m -> S] : t[0] = h /\ \A i \in 0..(m - 1) : t[i + 1] = B[t[i]]}

\* A loop body that keeps within S can be run any number of times.
LEMMA TurnsExist ==
    ASSUME NEW S, NEW B \in [S -> S], NEW h \in S, NEW m \in Nat
    PROVE  Runs(S, B, h, m) # {}
<1> DEFINE good == {n \in 0..m : Runs(S, B, h, n) # {}}
<1>1. 0 \in good
  <2> DEFINE t == [i \in 0..0 |-> h]
  <2>1. t \in [0..0 -> S] /\ t[0] = h /\ 0 \in 0..m /\ 0..(0 - 1) = {}
    OBVIOUS
  <2> HIDE DEF t
  <2> QED
    BY <2>1 DEF Runs
<1>2. ASSUME NEW n \in 0..(m - 1), n \in good PROVE n + 1 \in good
  <2>1. PICK t \in [0..n -> S] : t[0] = h /\ \A i \in 0..(n - 1) : t[i + 1] = B[t[i]]
    BY <1>2 DEF Runs
  <2>2. PICK next \in S : next = B[t[n]]
    OBVIOUS
  <2> DEFINE u == [i \in 0..(n + 1) |-> IF i = n + 1 THEN next ELSE t[i]]
  <2>3. u \in [0..(n + 1) -> S] /\ u[0] = h
    BY <2>1
  <2>4. ASSUME NEW i \in 0..((n + 1) - 1) PROVE u[i + 1] = B[u[i]]
    <3>1. CASE i = n
      BY <2>2, <3>1
    <3>2. CASE i # n
      <4>1. i \in 0..(n - 1) /\ u[i] = t[i] /\ u[i + 1] = t[i + 1]
        BY <3>2
      <4> QED
        BY <2>1, <4>1
    <3> QED
      BY <3>1, <3>2
  <2>5. n + 1 \in 0..m
    OBVIOUS
  <2> HIDE DEF u
  <2> QED
    BY <2>3, <2>4, <2>5 DEF Runs
<1> HIDE DEF good
<1>3. m \in good
  BY <1>1, <1>2, UpTo
<1> QED
  BY <1>3 DEF good

\* The loops keep within the heaps.
LEMMA SwapTyped ==
    ASSUME NEW h \in Heaps, NEW p \in Nodes, NEW c \in Nodes
    PROVE  heap_node_swap(h, p, c) \in Heaps
<1> DEFINE g == heap_node_swap(h, p, c)
           onLeft == h.left[p] = c
<1>1. /\ h.left \in [Nodes -> Pointers] /\ h.right \in [Nodes -> Pointers]
      /\ h.parent \in [Nodes -> Pointers] /\ h.min \in Pointers /\ h.nelts \in Nat
  BY DEF Heaps
<1>2. /\ g.min = (IF h.parent[p] = NoNode THEN c ELSE h.min)
      /\ g.nelts = h.nelts
      /\ g.left = [m \in Nodes |-> IF m = p THEN h.left[c]
                                  ELSE IF m = c THEN IF onLeft THEN p ELSE h.left[p]
                                  ELSE IF m = h.parent[p] /\ h.left[m] = p THEN c
                                  ELSE h.left[m]]
      /\ g.right = [m \in Nodes |-> IF m = p THEN h.right[c]
                                   ELSE IF m = c THEN IF onLeft THEN h.right[p] ELSE p
                                   ELSE IF m = h.parent[p] /\ h.left[m] # p THEN c
                                   ELSE h.right[m]]
      /\ g.parent = SwapParents(h, p, c)
      /\ g \in [min : {g.min}, nelts : {g.nelts}, left : {g.left}, right : {g.right},
                parent : {g.parent}]
  BY <1>1 DEF heap_node_swap, Heaps
<1> HIDE DEF g
<1>3. g.left \in [Nodes -> Pointers] /\ g.right \in [Nodes -> Pointers]
  BY <1>1, <1>2 DEF Pointers
<1>4. g.parent \in [Nodes -> Pointers]
  BY <1>1, <1>2 DEF Pointers, SwapParents
<1>5. g.min \in Pointers /\ g.nelts \in Nat
  BY <1>1, <1>2 DEF Pointers
<1>6. g \in Heaps
  BY <1>2, <1>3, <1>4, <1>5 DEF Heaps
<1> QED
  BY <1>6 DEF g

\* One turn of the walk up, and of the walk down.
Up(g, x) ==
    IF g.parent[x] # NoNode /\ less_than(x, g.parent[x])
    THEN heap_node_swap(g, g.parent[x], x) ELSE g

Down(g, x) == IF Smallest(g, x) = x THEN g ELSE heap_node_swap(g, x, Smallest(g, x))

LEMMA TurnTyped ==
    ASSUME NEW g \in Heaps, NEW x \in Nodes
    PROVE  Up(g, x) \in Heaps /\ Down(g, x) \in Heaps
<1>1. g.left[x] \in Pointers /\ g.right[x] \in Pointers /\ g.parent[x] \in Pointers
  BY DEF Heaps
<1>2. Up(g, x) \in Heaps
  BY <1>1, SwapTyped DEF Up, Pointers
<1>3. Smallest(g, x) \in Nodes
  BY <1>1 DEF Smallest, Pointers
<1>4. Down(g, x) \in Heaps
  BY <1>3, SwapTyped DEF Down
<1> QED
  BY <1>2, <1>4

\* What the walks return is the last of a sequence of turns.
LEMMA SiftUpTurns ==
    ASSUME NEW h \in Heaps, NEW x \in Nodes, NEW m \in Nat, m = Cardinality(Nodes)
    PROVE  \E t : /\ t[0] = h
                  /\ \A i \in 0..(m - 1) : t[i + 1] = Up(t[i], x)
                  /\ SiftUp(h, x) = t[m]
<1> DEFINE B == [g \in Heaps |-> Up(g, x)]
           Turns(t) == [i \in 0..m |-> IF i = 0 THEN h ELSE Up(t[i - 1], x)]
           t == CHOOSE u : u = Turns(u)
<1>1. B \in [Heaps -> Heaps]
  BY TurnTyped
<1>9. \A g \in Heaps : B[g] = Up(g, x)
  OBVIOUS
<1> HIDE DEF B
<1>2. PICK u \in [0..m -> Heaps] : u[0] = h /\ \A i \in 0..(m - 1) : u[i + 1] = B[u[i]]
  <2>1. Runs(Heaps, B, h, m) # {}
    BY <1>1, TurnsExist
  <2> QED
    BY <2>1 DEF Runs
<1>3. \A i \in 0..m : i # 0 => i - 1 \in 0..(m - 1) /\ i - 1 \in 0..m /\ (i - 1) + 1 = i
  OBVIOUS
<1>4. u = Turns(u)
  <2>1. \A i \in 0..m : u[i] = Turns(u)[i]
    BY <1>2, <1>3, <1>9
  <2> QED
    BY <2>1
<1>5. t = Turns(t)
  BY <1>4
<1>6. SiftUp(h, x) = t[m]
  BY DEF SiftUp, Iterate, Up
<1> HIDE DEF t
<1>7. t[0] = h
  BY <1>5
<1>8. ASSUME NEW i \in 0..(m - 1) PROVE t[i + 1] = Up(t[i], x)
  <2>1. i + 1 \in 0..m /\ i + 1 # 0 /\ (i + 1) - 1 = i
    OBVIOUS
  <2> QED
    BY <1>5, <2>1
<1> QED
  BY <1>6, <1>7, <1>8

LEMMA SiftDownTurns ==
    ASSUME NEW h \in Heaps, NEW x \in Nodes, NEW m \in Nat, m = Cardinality(Nodes)
    PROVE  \E t : /\ t[0] = h
                  /\ \A i \in 0..(m - 1) : t[i + 1] = Down(t[i], x)
                  /\ SiftDown(h, x) = t[m]
<1> DEFINE B == [g \in Heaps |-> Down(g, x)]
           Turns(t) == [i \in 0..m |-> IF i = 0 THEN h ELSE Down(t[i - 1], x)]
           t == CHOOSE u : u = Turns(u)
<1>1. B \in [Heaps -> Heaps]
  BY TurnTyped
<1>9. \A g \in Heaps : B[g] = Down(g, x)
  OBVIOUS
<1> HIDE DEF B
<1>2. PICK u \in [0..m -> Heaps] : u[0] = h /\ \A i \in 0..(m - 1) : u[i + 1] = B[u[i]]
  <2>1. Runs(Heaps, B, h, m) # {}
    BY <1>1, TurnsExist
  <2> QED
    BY <2>1 DEF Runs
<1>3. \A i \in 0..m : i # 0 => i - 1 \in 0..(m - 1) /\ i - 1 \in 0..m /\ (i - 1) + 1 = i
  OBVIOUS
<1>4. u = Turns(u)
  <2>1. \A i \in 0..m : u[i] = Turns(u)[i]
    BY <1>2, <1>3, <1>9
  <2> QED
    BY <2>1
<1>5. t = Turns(t)
  BY <1>4
<1>6. SiftDown(h, x) = t[m]
  BY DEF SiftDown, Iterate, Down
<1> HIDE DEF t
<1>7. t[0] = h
  BY <1>5
<1>8. ASSUME NEW i \in 0..(m - 1) PROVE t[i + 1] = Down(t[i], x)
  <2>1. i + 1 \in 0..m /\ i + 1 # 0 /\ (i + 1) - 1 = i
    OBVIOUS
  <2> QED
    BY <1>5, <2>1
<1> QED
  BY <1>6, <1>7, <1>8

-----------------------------------------------------------------------------
(* The walks put a node where it belongs.                                   *)

\* The tree h holds the n nodes H, sorted.
SortedTree(h, n, H) == \E a : Rep(h, a, n) /\ Held(a, n) = H /\ Sorted(a, n)

\* Place k of the array a of g is that of x.
Placed(g, a, n, H, k, x) == Rep(g, a, n) /\ Held(a, n) = H /\ k \in 1..n /\ a[k] = x

\* Nothing is left to do for the walk up, and for the walk down.
HighEnough(a, k) == k > 1 => Key[a[k \div 2]] <= Key[a[k]]

LowEnough(a, n, k) == \A i \in 2..n : i \div 2 = k => Key[a[k]] <= Key[a[i]]

\* After i turns the walk is over or has gone up i rows, and down i rows.
RisenTo(g, n, H, x, i) ==
    \E a, k : /\ Placed(g, a, n, H, k, x)
              /\ SortedBelow(a, n, k)
              /\ HighEnough(a, k) \/ k + i <= n

SunkTo(g, n, H, x, i) ==
    \E a, k : /\ Placed(g, a, n, H, k, x)
              /\ SortedAround(a, n, k)
              /\ LowEnough(a, n, k) \/ k > i

LEMMA RiseOne ==
    ASSUME NEW g, NEW n, NEW H, NEW x, NEW i \in Nat, RisenTo(g, n, H, x, i)
    PROVE  RisenTo(Up(g, x), n, H, x, i + 1)
<1>1. PICK a, k : /\ Placed(g, a, n, H, k, x) /\ SortedBelow(a, n, k)
                  /\ HighEnough(a, k) \/ k + i <= n
  BY DEF RisenTo
<1>2. /\ n \in Nat /\ k \in 1..n /\ k \in Nat /\ a[k] = x /\ Array(a, n) /\ x \in Nodes
      /\ g.parent[x] = a[k \div 2]
  BY <1>1 DEF Placed, Rep, Linked, Array
<1>3. CASE HighEnough(a, k)
  <2>1. CASE k = 1
    <3>1. a[k \div 2] = NoNode
      BY <1>2, <2>1, Halves DEF Array, Pointers
    <3>2. Up(g, x) = g
      BY <1>2, <3>1 DEF Up
    <3> QED
      BY <1>1, <1>3, <3>2 DEF RisenTo
  <2>2. CASE k # 1
    <3>1. k \in 2..n
      BY <1>2, <2>2
    <3>2. k \div 2 \in 1..n
      BY <1>2, <3>1, PlacesAround
    <3>3. Key[a[k \div 2]] \in Nat /\ Key[a[k]] \in Nat /\ Key[a[k \div 2]] <= Key[a[k]]
      BY <1>2, <1>3, <2>2, <3>2, KeysOfArray DEF HighEnough
    <3>4. ~less_than(x, g.parent[x])
      BY <1>2, <3>3 DEF less_than
    <3>5. Up(g, x) = g
      BY <3>4 DEF Up
    <3> QED
      BY <1>1, <1>3, <3>5 DEF RisenTo
  <2> QED
    BY <2>1, <2>2
<1>4. CASE ~HighEnough(a, k)
  <2>1. PICK j : j = k \div 2
    OBVIOUS
  <2>2. k \in 2..n
    BY <1>2, <1>4 DEF HighEnough
  <2>3. j \in 1..n /\ j < k /\ j \in Nat
    BY <1>2, <2>1, <2>2, PlacesAround
  <2>4. Key[a[j]] \in Nat /\ Key[a[k]] \in Nat /\ a[j] \in Nodes
    BY <1>2, <2>3, KeysOfArray
  <2>5. Key[a[k]] < Key[a[j]]
    BY <1>4, <2>1, <2>4 DEF HighEnough
  <2>6. a[j] # NoNode /\ less_than(x, a[j])
    BY <1>2, <2>4, <2>5, NodesAssumption DEF less_than
  <2>7. Up(g, x) = heap_node_swap(g, a[j], a[k])
    BY <1>2, <2>1, <2>6 DEF Up
  <2> DEFINE b == Exchanged(a, j, k)
  <2>8. Rep(Up(g, x), b, n) /\ Held(b, n) = H
    BY <1>1, <2>1, <2>3, <2>7, SwapExchanges, <1>2 DEF Placed
  <2>9. SortedBelow(b, n, j)
    BY <1>1, <1>2, <2>1, <2>2, <2>5, UpStep
  <2>10. b[j] = x
    BY <1>2, <2>3 DEF Exchanged, Array
  <2>11. j + (i + 1) <= n
    BY <1>1, <1>2, <1>4, <2>3
  <2> HIDE DEF b
  <2>12. Placed(Up(g, x), b, n, H, j, x)
    BY <2>3, <2>8, <2>10 DEF Placed
  <2> QED
    BY <2>9, <2>11, <2>12 DEF RisenTo
<1> QED
  BY <1>3, <1>4

\* The smallest of a node and those below.
LEMMA SmallestPlace ==
    ASSUME NEW g, NEW a, NEW n, Rep(g, a, n), NEW k \in 1..n
    PROVE  \/ Smallest(g, a[k]) = a[k] /\ LowEnough(a, n, k)
           \/ \E s \in 2..n : /\ s \div 2 = k /\ Smallest(g, a[k]) = a[s] /\ a[s] # a[k]
                              /\ Key[a[s]] < Key[a[k]]
                              /\ \A i \in 2..n : i \div 2 = k => Key[a[s]] <= Key[a[i]]
<1> DEFINE l == 2 * k
           r == 2 * k + 1
           x == a[k]
<1>1. n \in Nat /\ k \in Nat /\ k >= 1 /\ Array(a, n)
  BY DEF Rep, Array
<1>2. l \in Nat /\ r \in Nat /\ l \div 2 = k /\ r \div 2 = k /\ l > k /\ r > k /\ l > 1 /\ r > 1
  BY <1>1
<1>3. g.left[x] = a[l] /\ g.right[x] = a[r]
  BY DEF Rep, Linked
<1>4. \A i \in 2..n : i \div 2 = k => i = l \/ i = r
  BY <1>1, Halves
<1>5. \A i \in {l, r} : (a[i] # NoNode <=> i \in 1..n) /\ (i \in 1..n <=> i \in 2..n)
                       /\ (i \in 1..n => a[i] # x)
  BY <1>1, <1>2, NodesAssumption DEF Array, Pointers
<1>6. \A i \in 1..n : Key[a[i]] \in Nat
  BY <1>1, KeysOfArray
<1> HIDE DEF l, r
<1> DEFINE s == IF a[l] # NoNode /\ Key[a[l]] < Key[x] THEN l ELSE k
<1>7. Smallest(g, x) = IF a[r] # NoNode /\ Key[a[r]] < Key[a[s]] THEN a[r] ELSE a[s]
  BY <1>3 DEF Smallest, less_than
<1>8. CASE a[r] # NoNode /\ Key[a[r]] < Key[a[s]]
  <2>1. Smallest(g, x) = a[r] /\ r \in 2..n /\ a[r] # x
    BY <1>5, <1>7, <1>8
  <2>2. Key[a[r]] < Key[x] /\ (l \in 2..n => Key[a[r]] <= Key[a[l]])
    BY <1>5, <1>6, <1>8, <2>1
  <2>3. Key[a[r]] <= Key[a[r]]
    BY <1>5, <1>6, <2>1
  <2> QED
    BY <1>2, <1>4, <2>1, <2>2, <2>3
<1>9. CASE ~(a[r] # NoNode /\ Key[a[r]] < Key[a[s]])
  <2>1. CASE s = l /\ l # k
    <3>1. Smallest(g, x) = a[l] /\ l \in 2..n /\ a[l] # x /\ Key[a[l]] < Key[x]
      BY <1>5, <1>7, <1>9, <2>1
    <3>2. (r \in 2..n => Key[a[l]] <= Key[a[r]]) /\ Key[a[l]] <= Key[a[l]]
      BY <1>5, <1>6, <1>9, <2>1, <3>1
    <3> QED
      BY <1>2, <1>4, <3>1, <3>2
  <2>2. CASE s # l
    <3>1. s = k /\ Smallest(g, x) = a[k]
      BY <1>7, <1>9, <2>2
    <3>2. (r \in 2..n => Key[a[k]] <= Key[a[r]]) /\ (l \in 2..n => Key[a[k]] <= Key[a[l]])
      BY <1>5, <1>6, <1>9, <2>2, <3>1
    <3> QED
      BY <1>4, <3>1, <3>2 DEF LowEnough
  <2>3. l # k
    BY <1>1, <1>2
  <2> QED
    BY <2>1, <2>2, <2>3
<1> QED
  BY <1>8, <1>9

LEMMA SinkOne ==
    ASSUME NEW g, NEW n, NEW H, NEW x, NEW i \in Nat, SunkTo(g, n, H, x, i)
    PROVE  SunkTo(Down(g, x), n, H, x, i + 1)
<1>1. PICK a, k : /\ Placed(g, a, n, H, k, x) /\ SortedAround(a, n, k)
                  /\ LowEnough(a, n, k) \/ k > i
  BY DEF SunkTo
<1>2. n \in Nat /\ k \in 1..n /\ k \in Nat /\ a[k] = x /\ Array(a, n) /\ Rep(g, a, n)
  BY <1>1 DEF Placed, Rep, Array
<1>3. CASE Smallest(g, x) = x /\ LowEnough(a, n, k)
  <2>1. Down(g, x) = g
    BY <1>3 DEF Down
  <2> QED
    BY <1>1, <1>3, <2>1 DEF SunkTo
<1>4. ASSUME NEW s \in 2..n, s \div 2 = k, Smallest(g, x) = a[s], a[s] # a[k],
             Key[a[s]] < Key[a[k]], \A u \in 2..n : u \div 2 = k => Key[a[s]] <= Key[a[u]]
      PROVE  SunkTo(Down(g, x), n, H, x, i + 1)
  <2>1. s \in 1..n /\ s \in Nat /\ k < s
    BY <1>2, <1>4, PlacesAround
  <2>2. ~LowEnough(a, n, k)
    <3>1. Key[a[s]] \in Nat /\ Key[a[k]] \in Nat
      BY <1>2, <2>1, KeysOfArray
    <3> QED
      BY <1>4, <3>1 DEF LowEnough
  <2>3. Down(g, x) = heap_node_swap(g, a[k], a[s])
    BY <1>2, <1>4 DEF Down
  <2> DEFINE b == Exchanged(a, k, s)
  <2>4. Rep(Down(g, x), b, n) /\ Held(b, n) = H
    BY <1>1, <1>2, <1>4, <2>1, <2>3, SwapExchanges DEF Placed
  <2>5. SortedAround(b, n, s)
    BY <1>1, <1>2, <1>4, DownStep
  <2>6. b[s] = x
    BY <1>2, <2>1 DEF Exchanged, Array
  <2>7. s > i + 1
    BY <1>1, <1>2, <2>1, <2>2
  <2> HIDE DEF b
  <2>8. Placed(Down(g, x), b, n, H, s, x)
    BY <2>1, <2>4, <2>6 DEF Placed
  <2> QED
    BY <2>5, <2>7, <2>8 DEF SunkTo
<1> QED
  BY <1>2, <1>3, <1>4, SmallestPlace

\* The walk up ends with a sorted tree of the same nodes.
LEMMA SiftUpSorts ==
    ASSUME NEW h, NEW a, NEW n, NEW H, NEW k, NEW x,
           Placed(h, a, n, H, k, x), SortedBelow(a, n, k)
    PROVE  SortedTree(SiftUp(h, x), n, H)
<1> DEFINE m == Cardinality(Nodes)
<1>1. h \in Heaps /\ x \in Nodes /\ n \in Nat /\ k \in 1..n /\ Array(a, n)
  BY DEF Placed, Rep, Array
<1>2. n <= m /\ m \in Nat
  BY <1>1, ArrayCount
<1> HIDE DEF m
<1>3. PICK t : /\ t[0] = h /\ \A i \in 0..(m - 1) : t[i + 1] = Up(t[i], x)
               /\ SiftUp(h, x) = t[m]
  BY <1>1, <1>2, SiftUpTurns DEF m
<1> DEFINE good == {i \in Nat : RisenTo(t[i], n, H, x, i)}
<1>4. 0 \in good
  <2>1. k + 0 <= n
    BY <1>1
  <2> QED
    BY <1>3, <2>1 DEF RisenTo
<1>5. ASSUME NEW i \in 0..(m - 1), i \in good PROVE i + 1 \in good
  <2>1. i \in Nat /\ RisenTo(t[i], n, H, x, i)
    BY <1>5
  <2>2. RisenTo(Up(t[i], x), n, H, x, i + 1)
    BY <2>1, RiseOne
  <2>3. t[i + 1] = Up(t[i], x)
    BY <1>3
  <2> QED
    BY <2>1, <2>2, <2>3
<1>6. m \in good
  <2> HIDE DEF good
  <2> QED
    BY <1>2, <1>4, <1>5, UpTo
<1>7. PICK b, j : /\ Placed(t[m], b, n, H, j, x) /\ SortedBelow(b, n, j)
                  /\ HighEnough(b, j) \/ j + m <= n
  BY <1>6 DEF RisenTo
<1>8. HighEnough(b, j)
  BY <1>1, <1>2, <1>7 DEF Placed
<1>9. Sorted(b, n)
  <2>1. ASSUME NEW i \in 2..n PROVE Key[b[i \div 2]] <= Key[b[i]]
    <3>1. CASE i = j
      BY <1>1, <1>8, <3>1 DEF HighEnough
    <3>2. CASE i # j
      BY <1>7, <3>2 DEF SortedBelow
    <3> QED
      BY <3>1, <3>2
  <2> QED
    BY <2>1 DEF Sorted
<1> QED
  BY <1>3, <1>7, <1>9 DEF SortedTree, Placed

\* The walk down and then up ends with one, wherever the node was to go.
LEMMA SettleSorts ==
    ASSUME NEW h, NEW a, NEW n, NEW H, NEW k, NEW x,
           Placed(h, a, n, H, k, x), SortedAround(a, n, k)
    PROVE  SortedTree(Settle(h, x), n, H)
<1> DEFINE m == Cardinality(Nodes)
<1>1. h \in Heaps /\ x \in Nodes /\ n \in Nat /\ k \in 1..n /\ Array(a, n)
  BY DEF Placed, Rep, Array
<1>2. n <= m /\ m \in Nat
  BY <1>1, ArrayCount
<1> HIDE DEF m
<1>3. PICK t : /\ t[0] = h /\ \A i \in 0..(m - 1) : t[i + 1] = Down(t[i], x)
               /\ SiftDown(h, x) = t[m]
  BY <1>1, <1>2, SiftDownTurns DEF m
<1> DEFINE good == {i \in Nat : SunkTo(t[i], n, H, x, i)}
<1>4. 0 \in good
  <2>1. k > 0
    BY <1>1
  <2> QED
    BY <1>3, <2>1 DEF SunkTo
<1>5. ASSUME NEW i \in 0..(m - 1), i \in good PROVE i + 1 \in good
  <2>1. i \in Nat /\ SunkTo(t[i], n, H, x, i)
    BY <1>5
  <2>2. SunkTo(Down(t[i], x), n, H, x, i + 1)
    BY <2>1, SinkOne
  <2>3. t[i + 1] = Down(t[i], x)
    BY <1>3
  <2> QED
    BY <2>1, <2>2, <2>3
<1>6. m \in good
  <2> HIDE DEF good
  <2> QED
    BY <1>2, <1>4, <1>5, UpTo
<1>7. PICK b, j : /\ Placed(t[m], b, n, H, j, x) /\ SortedAround(b, n, j)
                  /\ LowEnough(b, n, j) \/ j > m
  BY <1>6 DEF SunkTo
<1>8. LowEnough(b, n, j)
  BY <1>1, <1>2, <1>7 DEF Placed
<1>9. SortedBelow(b, n, j)
  <2>1. ASSUME NEW i \in 2..n, i # j PROVE Key[b[i \div 2]] <= Key[b[i]]
    <3>1. CASE i \div 2 = j
      BY <1>8, <3>1 DEF LowEnough
    <3>2. CASE i \div 2 # j
      BY <1>7, <2>1, <3>2 DEF SortedAround
    <3> QED
      BY <3>1, <3>2
  <2> QED
    BY <1>7, <2>1 DEF SortedBelow, SortedAround
<1>10. Placed(SiftDown(h, x), b, n, H, j, x)
  BY <1>3, <1>7
<1> QED
  BY <1>9, <1>10, SiftUpSorts DEF Settle

-----------------------------------------------------------------------------
(* The operations.                                                          *)

LEMMA InsertSorts ==
    ASSUME NEW h, NEW n, NEW H, SortedTree(h, n, H), NEW x \in Nodes \ H
    PROVE  SortedTree(heap_insert(h, x), n + 1, H \cup {x})
<1>1. PICK a : Rep(h, a, n) /\ Held(a, n) = H /\ Sorted(a, n)
  BY DEF SortedTree
<1>2. n \in Nat /\ h \in Heaps /\ h.nelts = n /\ Array(a, n) /\ n + 1 \in Nat \ {0} /\ n + 1 \in 1..(n + 1)
  BY <1>1 DEF Rep, Array
<1> DEFINE u == (n + 1) \div 2
           w == IF n + 1 = 1 THEN NoNode ELSE NodeAt(h, u)
           b == Put(a, n + 1, x)
           cleared == WithPointers(h, x, w)
           linked == WithCount(Attach(cleared, n + 1, x), Attach(cleared, n + 1, x).nelts + 1)
<1>3. u \in Nat /\ u < n + 1
  BY <1>2, Halves
<1>4. w = a[u]
  <2>1. CASE n + 1 = 1
    BY <1>2, <2>1, Halves DEF Array, Pointers
  <2>2. CASE n + 1 # 1
    <3>1. u \in Nat \ {0}
      BY <1>2, <2>2, Halves
    <3> QED
      BY <1>1, <2>2, <3>1, NodeAtPlace
  <2> QED
    BY <2>1, <2>2
<1>5. heap_insert(h, x) = SiftUp(linked, x)
  BY <1>2 DEF heap_insert, NewPosition, WithPointers, WithCount
<1> HIDE DEF w
<1>6. Repointed(cleared, h, x, a[u])
  BY <1>2, <1>3, <1>4, PointersSet DEF Array
<1> HIDE DEF cleared
<1>7. Rep(linked, b, n + 1) /\ Held(b, n + 1) = H \cup {x}
  BY <1>1, <1>6, InsertAppends
<1> HIDE DEF linked
<1>8. b[n + 1] = x /\ \A i \in Nat \ {n + 1} : b[i] = a[i]
  BY <1>2, PutPlaces DEF Array, Pointers
<1> HIDE DEF b
<1>9. SortedBelow(b, n + 1, n + 1)
  <2>1. ASSUME NEW i \in 2..(n + 1) PROVE i \div 2 # n + 1
    BY <1>2, <2>1, PlacesAround
  <2>2. ASSUME NEW i \in 2..(n + 1), i # n + 1 PROVE Key[b[i \div 2]] <= Key[b[i]]
    <3>1. i \in 2..n /\ i \in Nat /\ i \div 2 \in Nat
      BY <1>2, <2>2, Halves
    <3>2. i \div 2 # n + 1
      BY <2>1
    <3> QED
      BY <1>1, <1>8, <2>2, <3>1, <3>2 DEF Sorted
  <2> QED
    BY <2>1, <2>2 DEF SortedBelow, Bridged
<1>10. Placed(linked, b, n + 1, H \cup {x}, n + 1, x)
  BY <1>2, <1>7, <1>8 DEF Placed
<1> QED
  BY <1>5, <1>9, <1>10, SiftUpSorts

LEMMA RemoveSorts ==
    ASSUME NEW h, NEW n, NEW H, SortedTree(h, n, H), NEW x \in H
    PROVE  SortedTree(heap_remove(h, x), n - 1, H \ {x})
<1>1. PICK a : Rep(h, a, n) /\ Held(a, n) = H /\ Sorted(a, n)
  BY DEF SortedTree
<1>2. PICK k \in 1..n : x = a[k]
  BY <1>1 DEF Held
<1>3. /\ n \in Nat \ {0} /\ n - 1 \in Nat /\ h \in Heaps /\ h.nelts = n /\ Array(a, n) /\ n >= 1
      /\ x \in Nodes /\ n \in 1..n /\ a[n] \in Nodes
  BY <1>1, <1>2 DEF Rep, Array
<1> DEFINE last == a[n]
           b == Put(a, n, NoNode)
           unlinked == WithCount(Attach(h, n, NoNode), n - 1)
<1>4. heap_remove(h, x) = IF last = x THEN Forget(unlinked, x)
                          ELSE Settle(Forget(Replace(unlinked, x, last), x), last)
  <2>1. NodeAt(h, n) = last
    BY <1>1, <1>3, NodeAtPlace
  <2> QED
    BY <1>3, <2>1 DEF heap_remove, CountAfter, WithCount
<1>5. Rep(unlinked, b, n - 1) /\ Held(b, n - 1) = H \ {last}
  BY <1>1, <1>3, UnlinkClears
<1> HIDE DEF unlinked
<1>6. b[n] = NoNode /\ b \in [Nat -> Pointers] /\ \A i \in Nat \ {n} : b[i] = a[i]
  BY <1>3, PutPlaces DEF Array, Pointers
<1> HIDE DEF b
<1>7. \A i \in 2..(n - 1) : /\ i \in 2..n /\ i \div 2 \in Nat \ {n}
                           /\ b[i] = a[i] /\ b[i \div 2] = a[i \div 2]
  <2> SUFFICES ASSUME NEW i \in 2..(n - 1)
               PROVE  /\ i \in 2..n /\ i \div 2 \in Nat \ {n}
                      /\ b[i] = a[i] /\ b[i \div 2] = a[i \div 2]
    OBVIOUS
  <2>1. i \in 2..n /\ i \in Nat \ {n} /\ i \div 2 \in Nat /\ i \div 2 < i
    BY <1>3, Halves
  <2>2. i \div 2 # n
    BY <1>3, <2>1
  <2> QED
    BY <1>6, <2>1, <2>2
<1>8. CASE last = x
  <2>1. x \notin Held(b, n - 1) /\ NoNode \in Pointers /\ unlinked \in Heaps
    BY <1>5, <1>8 DEF Pointers, Rep
  <2>2. Repointed(WithPointers(unlinked, x, NoNode), unlinked, x, NoNode)
    BY <1>3, <2>1, PointersSet
  <2>3. Forget(unlinked, x) = WithPointers(unlinked, x, NoNode)
    BY DEF Forget, WithPointers
  <2>4. Rep(Forget(unlinked, x), b, n - 1)
    BY <1>3, <1>5, <2>1, <2>2, <2>3, OutsideFree DEF Repointed
  <2>5. Sorted(b, n - 1)
    BY <1>1, <1>7 DEF Sorted
  <2> QED
    BY <1>4, <1>5, <1>8, <2>4, <2>5 DEF SortedTree
<1>9. CASE last # x
  <2> DEFINE c == Put(b, k, last)
             g == Forget(Replace(unlinked, x, last), x)
  <2>1. k \in 1..(n - 1) /\ k \in Nat /\ b[k] = x /\ last \in Nodes \ Held(b, n - 1)
    BY <1>2, <1>3, <1>5, <1>6, <1>9
  <2>2. Rep(g, c, n - 1) /\ Held(c, n - 1) = (Held(b, n - 1) \ {x}) \cup {last}
    BY <1>5, <2>1, ReplacePuts
  <2>3. Held(c, n - 1) = H \ {x}
    <3>1. last \in H
      BY <1>1, <1>3 DEF Held
    <3> QED
      BY <1>5, <1>9, <2>2, <3>1
  <2>4. c[k] = last /\ \A i \in Nat \ {k} : c[i] = b[i]
    BY <1>6, <2>1, PutPlaces DEF Pointers
  <2> HIDE DEF c
  <2>5. ASSUME NEW i \in 2..(n - 1), i # k, i \div 2 # k PROVE Key[c[i \div 2]] <= Key[c[i]]
    <3>1. i \in Nat \ {k} /\ i \div 2 \in Nat \ {k}
      BY <1>7, <2>5
    <3>2. Key[a[i \div 2]] <= Key[a[i]]
      BY <1>1, <1>7 DEF Sorted
    <3> QED
      BY <1>7, <2>4, <3>1, <3>2
  <2>6. ASSUME k > 1, NEW i \in 2..(n - 1), i \div 2 = k PROVE Key[c[k \div 2]] <= Key[c[i]]
    <3>1. /\ k \in 2..(n - 1) /\ k \div 2 \in 1..n /\ k \div 2 \in Nat \ {k}
          /\ i \in Nat \ {k} /\ i \in 1..n /\ i \in 2..n /\ k \in 2..n
      <4>1. k \in 2..(n - 1) /\ k \in 2..n /\ i \in 2..n
        BY <1>3, <2>1, <2>6
      <4> QED
        BY <1>3, <2>1, <2>6, <4>1, PlacesAround
    <3>2. c[k \div 2] = a[k \div 2] /\ c[i] = a[i]
      BY <1>7, <2>4, <3>1
    <3>3. Key[a[k \div 2]] <= Key[a[k]] /\ Key[a[k]] <= Key[a[i]]
      BY <1>1, <2>6, <3>1 DEF Sorted
    <3>4. Key[a[k \div 2]] \in Nat /\ Key[a[k]] \in Nat /\ Key[a[i]] \in Nat
      BY <1>3, <3>1, KeysOfArray
    <3> QED
      BY <3>2, <3>3, <3>4
  <2>7. SortedAround(c, n - 1, k)
    BY <2>5, <2>6 DEF SortedAround, Bridged
  <2>8. Placed(g, c, n - 1, H \ {x}, k, last)
    BY <2>1, <2>2, <2>3, <2>4 DEF Placed
  <2>9. SortedTree(Settle(g, last), n - 1, H \ {x})
    BY <2>7, <2>8, SettleSorts
  <2> QED
    BY <1>4, <1>9, <2>9
<1> QED
  BY <1>8, <1>9

-----------------------------------------------------------------------------
(* The invariant.                                                           *)

\* The heap is a sorted tree of its members.
Inv == SortedTree(heap, heap.nelts, Members)

\* What a caller may do with a sorted tree.
LEMMA TreeSeen ==
    ASSUME NEW h, NEW n, NEW H, SortedTree(h, n, H)
    PROVE  /\ h.nelts = n
           /\ {NodeAt(h, i) : i \in 1..h.nelts} = H
           /\ H \subseteq Nodes
           /\ h.min = NoNode <=> H = {}
           /\ H # {} => h.min \in {x \in H : \A y \in H : ~less_than(y, x)}
<1>1. PICK a : Rep(h, a, n) /\ Held(a, n) = H /\ Sorted(a, n)
  BY DEF SortedTree
<1>2. n \in Nat /\ Array(a, n) /\ h.nelts = n /\ h.min = a[1]
  BY <1>1 DEF Rep, Array, Linked
<1>3. {NodeAt(h, i) : i \in 1..h.nelts} = H
  BY <1>1, MembersHeld
<1>4. H \subseteq Nodes
  BY <1>1, <1>2, ArrayCount
<1>5. CASE n = 0
  <2>1. 1..n = {} /\ 1 \notin 1..n
    BY <1>5
  <2>2. H = {}
    BY <1>1, <2>1 DEF Held
  <2>3. h.min = NoNode
    BY <1>2, <2>1 DEF Array, Pointers
  <2> QED
    BY <1>2, <1>3, <1>4, <2>2, <2>3
<1>6. CASE n # 0
  <2>1. 1 \in 1..n
    BY <1>2, <1>6
  <2>2. a[1] \in H /\ a[1] \in Nodes /\ a[1] # NoNode
    BY <1>1, <1>2, <2>1, KeysOfArray, NodesAssumption DEF Held
  <2>3. \A i \in 1..n : Key[a[1]] <= Key[a[i]] /\ Key[a[i]] \in Nat /\ Key[a[1]] \in Nat
    BY <1>1, <1>2, <2>1, RootLeast, KeysOfArray
  <2>4. ASSUME NEW y \in H PROVE ~less_than(y, a[1])
    <3>1. PICK i \in 1..n : y = a[i]
      BY <1>1 DEF Held
    <3> QED
      BY <2>3, <3>1 DEF less_than
  <2> QED
    BY <1>2, <1>3, <1>4, <2>2, <2>4
<1> QED
  BY <1>5, <1>6

LEMMA InitInv == HeapInit => Inv
<1> SUFFICES ASSUME HeapInit PROVE Inv
  OBVIOUS
<1> DEFINE a == [i \in Nat |-> NoNode]
<1>1. heap \in Heaps /\ heap.nelts = 0 /\ heap.min = NoNode
  BY DEF HeapInit, Heaps, NoPointers, Pointers
<1>2. a \in [Nat -> Pointers] /\ \A i \in Nat : a[i] = NoNode
  BY DEF Pointers
<1> HIDE DEF a
<1>3. 1..0 = {} /\ 2..0 = {} /\ 0 \in Nat /\ 1 \in Nat
  OBVIOUS
<1>4. Array(a, 0)
  BY <1>2, <1>3, NodesAssumption DEF Array
<1>5. Rep(heap, a, 0)
  BY <1>1, <1>2, <1>3, <1>4 DEF Rep, Linked
<1>6. Members = Held(a, 0)
  BY <1>1, <1>3 DEF Members, Positions, Held
<1>7. Sorted(a, 0)
  BY <1>3 DEF Sorted
<1> QED
  BY <1>1, <1>5, <1>6, <1>7 DEF Inv, SortedTree

\* The tree after each operation.
LEMMA AfterInsert ==
    ASSUME Inv, NEW x \in Nodes, HeapInsert(x)
    PROVE  SortedTree(heap', heap.nelts + 1, Members \cup {x})
<1>1. x \in Nodes \ Members
  BY DEF HeapInsert
<1> QED
  BY <1>1, InsertSorts DEF HeapInsert, Inv

LEMMA AfterRemove ==
    ASSUME Inv, NEW x \in Members, heap' = heap_remove(heap, x)
    PROVE  SortedTree(heap', heap.nelts - 1, Members \ {x})
BY RemoveSorts DEF Inv

\* An empty heap is left as it is.
LEMMA RemoveEmpty ==
    ASSUME NEW x, HeapRemove(x), x \notin Members
    PROVE  heap' = heap
BY DEF HeapRemove, heap_remove

\* The minimum is a member.
LEMMA MinMember ==
    ASSUME Inv, heap.min # NoNode
    PROVE  heap.min \in Members
<1>1. SortedTree(heap, heap.nelts, Members)
  BY DEF Inv
<1> QED
  BY <1>1, TreeSeen

\* A sorted tree is one of its members.
LEMMA TreeInv ==
    ASSUME NEW n, NEW H, SortedTree(heap', n, H)
    PROVE  Inv' /\ Members' = H
<1>1. heap'.nelts = n /\ {NodeAt(heap', i) : i \in 1..heap'.nelts} = H
  BY TreeSeen
<1>2. Members' = H
  BY <1>1 DEF Members, Positions
<1> QED
  BY <1>1, <1>2 DEF Inv

LEMMA NextInv == Inv /\ [HeapNext]_heap => Inv'
<1> SUFFICES ASSUME Inv, [HeapNext]_heap PROVE Inv'
  OBVIOUS
<1>1. ASSUME NEW x \in Nodes, HeapInsert(x) PROVE Inv'
  BY <1>1, AfterInsert, TreeInv
<1>2. ASSUME heap' = heap PROVE Inv'
  BY <1>2 DEF Inv, Members, Positions
<1>3. ASSUME NEW x \in Nodes, HeapRemove(x) PROVE Inv'
  <2>1. CASE x \in Members
    BY <1>3, <2>1, AfterRemove, TreeInv DEF HeapRemove
  <2>2. CASE x \notin Members
    BY <1>2, <1>3, <2>2, RemoveEmpty
  <2> QED
    BY <2>1, <2>2
<1>4. ASSUME HeapDequeue PROVE Inv'
  BY <1>4, MinMember, AfterRemove, TreeInv DEF HeapDequeue, heap_dequeue
<1> QED
  BY <1>1, <1>2, <1>3, <1>4 DEF HeapNext

LEMMA InvAlways == HeapSpec => []Inv
<1> QED
  BY InitInv, NextInv, PTL DEF HeapSpec

-----------------------------------------------------------------------------
(* What the invariant gives.                                                *)

\* The pointers are nodes or NoNode, and the count never exceeds the number of
\* nodes, nor goes below zero.
THEOREM TypeCorrect == HeapSpec => []HeapTypeOK
<1>1. ASSUME Inv PROVE HeapTypeOK
  <2>1. PICK a : Rep(heap, a, heap.nelts)
    BY <1>1 DEF Inv, SortedTree
  <2>2. heap \in Heaps /\ heap.nelts \in Nat /\ heap.nelts <= Cardinality(Nodes)
        /\ Cardinality(Nodes) \in Nat
    BY <2>1, ArrayCount DEF Rep, Heaps
  <2>3. heap.nelts \in 0..Cardinality(Nodes)
    BY <2>2
  <2> QED
    BY <2>2, <2>3 DEF HeapTypeOK, Heaps
<1> QED
  BY <1>1, InvAlways, PTL

\* The heap is always a complete binary tree whose parent pointers mirror its
\* child pointers, whatever was inserted and removed.
THEOREM AlwaysComplete == HeapSpec => []Complete
<1>1. ASSUME Inv PROVE Complete
  <2>1. PICK a, n : n = heap.nelts /\ Rep(heap, a, n) /\ Held(a, n) = Members
    BY <1>1 DEF Inv, SortedTree
  <2>2. n \in Nat /\ Array(a, n)
    BY <2>1 DEF Rep, Array
  <2>3. Members \subseteq Nodes /\ Cardinality(Members) = heap.nelts
    BY <2>1, <2>2, ArrayCount
  <2>4. \A i \in Nat \ {0} : NodeAt(heap, i) = a[i]
    BY <2>1, NodeAtPlace
  <2>5. \A i \in 1..(2 * n + 1) : i > n => NodeAt(heap, i) = NoNode
    <3> SUFFICES ASSUME NEW i \in 1..(2 * n + 1), i > n PROVE NodeAt(heap, i) = NoNode
      OBVIOUS
    <3>1. i \in Nat \ {0} /\ i \notin 1..n
      BY <2>2
    <3> QED
      BY <2>2, <2>4, <3>1 DEF Array, Pointers
  <2>6. ASSUME NEW i \in 1..n
        PROVE  heap.parent[NodeAt(heap, i)] = IF i = 1 THEN NoNode ELSE NodeAt(heap, i \div 2)
    <3>1. i \in Nat \ {0} /\ heap.parent[a[i]] = a[i \div 2]
      BY <2>1, <2>2 DEF Rep, Linked
    <3>2. CASE i = 1
      <4>1. i \div 2 = 0 /\ 0 \in Nat /\ 0 \notin 1..n
        BY <3>2, Halves, <2>2
      <4>2. a[0] = NoNode
        BY <2>2, <4>1 DEF Array, Pointers
      <4> QED
        BY <2>4, <3>1, <3>2, <4>1, <4>2
    <3>3. CASE i # 1
      <4>1. i \div 2 \in Nat \ {0}
        BY <3>1, <3>3, Halves
      <4> QED
        BY <2>4, <3>1, <3>3, <4>1
    <3> QED
      BY <3>2, <3>3
  <2> QED
    BY <2>1, <2>3, <2>5, <2>6 DEF Complete, Positions
<1> QED
  BY <1>1, InvAlways, PTL

\* No child is ever less than its parent once an operation has ended: the
\* walks down and up put every node right, also when keys tie.
THEOREM AlwaysOrdered == HeapSpec => []Ordered
<1>1. ASSUME Inv PROVE Ordered
  <2>1. PICK a, n : n = heap.nelts /\ Rep(heap, a, n) /\ Sorted(a, n)
    BY <1>1 DEF Inv, SortedTree
  <2>2. n \in Nat /\ Array(a, n)
    BY <2>1 DEF Rep, Array
  <2>3. ASSUME NEW i \in 1..n, i > 1
        PROVE  ~less_than(NodeAt(heap, i), NodeAt(heap, i \div 2))
    <3>1. i \in 2..n /\ i \in Nat \ {0}
      BY <2>2, <2>3
    <3>2. i \div 2 \in 1..n /\ i \div 2 \in Nat \ {0}
      BY <2>2, <3>1, PlacesAround, Halves
    <3>3. NodeAt(heap, i) = a[i] /\ NodeAt(heap, i \div 2) = a[i \div 2]
      BY <2>1, <3>1, <3>2, NodeAtPlace
    <3>4. Key[a[i \div 2]] <= Key[a[i]] /\ Key[a[i]] \in Nat /\ Key[a[i \div 2]] \in Nat
      BY <2>1, <2>2, <3>1, <3>2, KeysOfArray DEF Sorted
    <3> QED
      BY <3>3, <3>4 DEF less_than
  <2> QED
    BY <2>1, <2>3 DEF Ordered, Positions
<1> QED
  BY <1>1, InvAlways, PTL

-----------------------------------------------------------------------------
(* The queue with a minimum.                                                *)

\* What the heap's minimum must be of the members.
LEMMA BecomesTree ==
    ASSUME NEW n, NEW H, SortedTree(heap', n, H)
    PROVE  AbstractQueue!Becomes(H)
<1>1. Members' = H
  BY TreeInv
<1>2. /\ heap'.min = NoNode <=> H = {}
      /\ H # {} => heap'.min \in {x \in H : \A y \in H : ~less_than(y, x)}
  BY TreeSeen
<1> QED
  BY <1>1, <1>2 DEF AbstractQueue!Becomes, AbstractQueue!Least

\* Each operation adds or removes exactly the node it was given, and what it
\* leaves as the minimum is a least node of the others: the binary heap is a
\* queue with a minimum, also among equal keys.
THEOREM HeapImplementsMinQueue == HeapSpec => ImplementsMinQueue
<1>1. HeapInit => AbstractQueue!Init
  <2> SUFFICES ASSUME HeapInit PROVE AbstractQueue!Init
    OBVIOUS
  <2>1. heap.nelts = 0 /\ heap.min = NoNode /\ 1..0 = {}
    BY DEF HeapInit
  <2> QED
    BY <2>1 DEF AbstractQueue!Init, Members, Positions
<1>2. Inv /\ [HeapNext]_heap => [AbstractQueue!Next]_<<Members, heap.min>>
  <2> SUFFICES ASSUME Inv, [HeapNext]_heap PROVE [AbstractQueue!Next]_<<Members, heap.min>>
    OBVIOUS
  <2>1. Members \subseteq Nodes
    BY TreeSeen DEF Inv
  <2>2. ASSUME heap' = heap PROVE UNCHANGED <<Members, heap.min>>
    BY <2>2 DEF Members, Positions
  <2>3. ASSUME NEW x \in Nodes, HeapInsert(x) PROVE AbstractQueue!Next
    <3>1. AbstractQueue!Becomes(Members \cup {x})
      BY <2>3, AfterInsert, BecomesTree
    <3>2. AbstractQueue!Insert(x)
      BY <2>3, <3>1 DEF HeapInsert, AbstractQueue!Insert
    <3> QED
      BY <3>2 DEF AbstractQueue!Next
  <2>4. ASSUME NEW x \in Members, heap' = heap_remove(heap, x) PROVE AbstractQueue!Next
    <3>1. AbstractQueue!Becomes(Members \ {x})
      BY <2>4, AfterRemove, BecomesTree
    <3>2. AbstractQueue!Remove(x)
      BY <3>1 DEF AbstractQueue!Remove
    <3> QED
      BY <2>1, <3>2 DEF AbstractQueue!Next
  <2>5. ASSUME NEW x \in Nodes, HeapRemove(x) PROVE [AbstractQueue!Next]_<<Members, heap.min>>
    <3>1. CASE x \in Members
      BY <2>4, <2>5, <3>1 DEF HeapRemove
    <3>2. CASE x \notin Members
      BY <2>2, <2>5, <3>2, RemoveEmpty
    <3> QED
      BY <3>1, <3>2
  <2>6. ASSUME HeapDequeue PROVE AbstractQueue!Next
    BY <2>4, <2>6, MinMember DEF HeapDequeue, heap_dequeue
  <2> QED
    BY <2>2, <2>3, <2>5, <2>6 DEF HeapNext
<1> QED
  BY <1>1, <1>2, InvAlways, PTL DEF HeapSpec, ImplementsMinQueue, AbstractQueue!Spec

=============================================================================
