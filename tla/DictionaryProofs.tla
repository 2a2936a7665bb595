-------------------------- MODULE DictionaryProofs --------------------------
(* The dictionary counts its entries, finds them, always has room for a new *)
(* one, and implements a map: for any keys and values, however the keys     *)
(* hash and whichever allocations fail.                                     *)
EXTENDS Dictionary, FiniteSetTheorems, WellFoundedInduction, TLAPS

\* An entry is found by the hash of its key, and no key has two entries.
HashesKept == \A i \in Occupied : hash[i] = Hash[key[i]]
KeysUnique == \A i, j \in Occupied : key[i] = key[j] => i = j

IInv ==
    /\ TypeOK
    /\ size # 0
    /\ CountExact
    /\ lost = {} => HashesKept /\ KeysUnique

\* Nothing is said of the entries once an array is lost.
Whole == IInv /\ lost = {}

-----------------------------------------------------------------------------
(* Searching.                                                               *)

\* A set of natural numbers that is not empty has a least element.
LEMMA MinOfNaturals ==
    ASSUME NEW S \in SUBSET Nat, S # {}
    PROVE  Min(S) \in S
<1>1. PICK m \in S : \A x \in S : ~ (<<x, m>> \in OpToRel(<, Nat))
  BY NatLessThanWellFounded, WFMin
<1>2. \A x \in S : ~ (x < m)
  BY <1>1 DEF OpToRel
<1>3. \A x \in S : m =< x
  BY <1>2
<1> QED
  BY <1>3 DEF Min

\* The search from slot n upwards, wrapping, passes every slot, so that it
\* ends at an empty one if there is any.
LEMMA SearchEnds ==
    ASSUME NEW m \in Nat \ {0}, NEW keys \in [Slots(m) -> Keys \cup {NULL}],
           n \in Slots(m), \E i \in Slots(m) : keys[i] = NULL
    PROVE  EmptySlot(keys, m) \in Slots(m) /\ keys[EmptySlot(keys, m)] = NULL
<1> DEFINE free == {d \in Slots(m) : keys[(n + d) % m] = NULL}
<1>1. PICK i \in Slots(m) : keys[i] = NULL
  OBVIOUS
<1>2. n \in Nat /\ n < m /\ i \in Nat /\ i < m
  BY DEF Slots
<1>3. PICK d \in Slots(m) : (n + d) % m = i
  <2>1. CASE i >= n
    <3>1. i - n \in Slots(m) /\ (n + (i - n)) = i
      BY <1>2, <2>1 DEF Slots
    <3>2. i % m = i
      BY <1>2
    <3> QED
      BY <3>1, <3>2
  <2>2. CASE i < n
    <3>1. i - n + m \in Slots(m) /\ n + (i - n + m) = i + m
      BY <1>2, <2>2 DEF Slots
    <3>2. (i + m) % m = i
      BY <1>2
    <3> QED
      BY <3>1, <3>2
  <2> QED
    BY <1>2, <2>1, <2>2
<1>4. free \in SUBSET Nat /\ free # {}
  <2>1. d \in free
    BY <1>1, <1>3, Zenon
  <2>2. Slots(m) \in SUBSET Nat
    BY DEF Slots
  <2> QED
    BY <2>1, <2>2, Zenon
<1>5. Min(free) \in free
  BY <1>4, MinOfNaturals
<1>6. (n + Min(free)) % m \in Slots(m)
  <2>1. ASSUME NEW e \in Slots(m) PROVE (n + e) % m \in Slots(m)
    BY <1>2 DEF Slots
  <2> QED
    BY <1>5, <2>1, Zenon
<1> HIDE DEF free
<1>7. EmptySlot(keys, m) = (n + Min(free)) % m
  BY DEF EmptySlot, free
<1> QED
  BY <1>5, <1>6, <1>7 DEF free

\* A search for the key of an entry stops at that entry and at no other.
LEMMA MatchesOfEntry ==
    ASSUME Whole, NEW i \in Occupied
    PROVE  Matches(key[i]) = {i} /\ SlotOf(key[i]) = i
<1>1. Matches(key[i]) = {i}
  BY DEF Whole, IInv, HashesKept, KeysUnique, Matches
<1>2. i \in Nat
  BY DEF Whole, IInv, TypeOK, Occupied, Slots
<1>3. Min({i}) \in {i}
  BY <1>2, MinOfNaturals
<1> QED
  BY <1>1, <1>3 DEF SlotOf

\* A search finds a key exactly if an entry has it.
LEMMA FoundMeansEntry ==
    ASSUME Whole, NEW k \in Keys
    PROVE  /\ Found(k) => SlotOf(k) \in Occupied /\ key[SlotOf(k)] = k
           /\ ~Found(k) => \A i \in Occupied : key[i] # k
<1>1. ASSUME Found(k) PROVE SlotOf(k) \in Occupied /\ key[SlotOf(k)] = k
  <2>1. Matches(k) \in SUBSET Nat /\ Matches(k) # {}
    BY <1>1 DEF Found, Matches, Occupied, Slots, Whole, IInv, TypeOK
  <2>2. SlotOf(k) \in Matches(k)
    BY <2>1, MinOfNaturals DEF SlotOf
  <2> QED
    BY <2>2 DEF Matches
<1>2. ASSUME ~Found(k), NEW i \in Occupied PROVE key[i] # k
  BY <1>2, MatchesOfEntry DEF Found
<1> QED
  BY <1>1, <1>2

-----------------------------------------------------------------------------
(* Adding an entry.                                                         *)

LEMMA OccupiedFinite ==
    ASSUME TypeOK
    PROVE  IsFiniteSet(Occupied) /\ Cardinality(Occupied) \in Nat /\ Cardinality(Occupied) <= size
<1>1. IsFiniteSet(Slots(size)) /\ Cardinality(Slots(size)) = size
  BY FS_Interval DEF TypeOK, Slots
<1>2. Occupied \in SUBSET Slots(size)
  BY DEF Occupied
<1> QED
  BY <1>1, <1>2, FS_Subset, FS_CardinalityType

\* The keys after a growth, or without one.
Grown == Doubled(key, NewSize, NULL)

\* Growing leaves the entries where they are, and there is room for one more:
\* dictionary.c:271.
LEMMA RoomForOne ==
    ASSUME Whole
    PROVE  /\ NewSize \in Nat \ {0} /\ n \in Slots(NewSize) /\ Slots(size) \subseteq Slots(NewSize)
           /\ Grown \in [Slots(NewSize) -> Keys \cup {NULL}]
           /\ {i \in Slots(NewSize) : Grown[i] # NULL} = Occupied
           /\ \A i \in Occupied : Grown[i] = key[i]
           /\ \E i \in Slots(NewSize) : Grown[i] = NULL
<1>1. n \in Nat /\ size \in Nat \ {0} /\ n <= size /\ unkeyed \in Nat
  BY DEF Whole, IInv, TypeOK, CountExact
<1>2. NewSize \in Nat \ {0} /\ n \in Slots(NewSize) /\ Slots(size) \subseteq Slots(NewSize)
  BY <1>1 DEF NewSize, MustGrow, Slots
<1>3. DOMAIN key = Slots(size) /\ key \in [Slots(size) -> Keys \cup {NULL}]
  BY DEF Whole, IInv, TypeOK
<1>4. Grown = [i \in Slots(NewSize) |-> IF i \in Slots(size) THEN key[i] ELSE NULL]
  BY <1>3 DEF Grown, Doubled
<1>5. Grown \in [Slots(NewSize) -> Keys \cup {NULL}]
  BY <1>3, <1>4
<1>6. {i \in Slots(NewSize) : Grown[i] # NULL} = Occupied
  BY <1>2, <1>4 DEF Occupied
<1>7. \A i \in Occupied : Grown[i] = key[i]
  BY <1>2, <1>4 DEF Occupied
<1>8. \E i \in Slots(NewSize) : Grown[i] = NULL
  <2>1. CASE MustGrow
    <3>1. size \in Slots(NewSize) /\ size \notin Slots(size)
      BY <1>1, <2>1 DEF NewSize, Slots
    <3> QED
      BY <1>4, <3>1
  <2>2. CASE ~MustGrow
    <3>1. IsFiniteSet(Slots(size)) /\ Cardinality(Slots(size)) = size
      BY <1>1, FS_Interval DEF Slots
    <3>2. Cardinality(Occupied) \in Nat /\ Cardinality(Occupied) <= n
      BY <1>1, OccupiedFinite DEF Whole, IInv, CountExact
    <3>3. Occupied # Slots(size)
      BY <1>1, <2>2, <3>1, <3>2 DEF MustGrow
    <3> QED
      BY <1>2, <1>4, <3>3 DEF Occupied
  <2> QED
    BY <2>1, <2>2
<1> QED
  BY <1>2, <1>5, <1>6, <1>7, <1>8

\* The first empty slot is one, and no entry is in it.
LEMMA SlotIsFree ==
    ASSUME Whole
    PROVE  /\ EmptySlot(Grown, NewSize) \in Slots(NewSize)
           /\ EmptySlot(Grown, NewSize) \notin Occupied
  BY RoomForOne, SearchEnds

\* What a new entry makes of the dictionary: one entry more, or, when its key
\* could not be copied, one more that is only counted.
LEMMA Filled ==
    ASSUME Whole, NEW k \in Keys, NEW v \in Values \cup {NULL},
           Fill(k, v, EmptySlot(Grown, NewSize), NewSize)
    PROVE  \E s \in {k, NULL}, w \in Values \cup {NULL} :
             LET i == EmptySlot(Grown, NewSize)
             IN  /\ w \in {v, NULL}
                 /\ n' = n + 1 /\ size' = NewSize
                 /\ unkeyed' = unkeyed + (IF s = NULL THEN 1 ELSE 0)
                 /\ key' = [Grown EXCEPT ![i] = s]
                 /\ val' = [Doubled(val, NewSize, NULL) EXCEPT ![i] = w]
                 /\ hash' = [Doubled(hash, NewSize, 0) EXCEPT ![i] = Hash[k]]
                 /\ {j \in Slots(NewSize) : key'[j] # NULL}
                       = IF s = NULL THEN Occupied ELSE Occupied \cup {i}
<1> DEFINE i == EmptySlot(Grown, NewSize)
<1>1. PICK s \in Dup(k) : key' = [Grown EXCEPT ![i] = s]
                         /\ unkeyed' = unkeyed + (IF s = NULL THEN 1 ELSE 0)
  BY DEF Fill, Grown
<1>2. PICK w \in Dup(v) : val' = [Doubled(val, NewSize, NULL) EXCEPT ![i] = w]
  BY DEF Fill
<1>3. s \in {k, NULL} /\ w \in {v, NULL}
  BY DEF Dup
<1>4. i \in Slots(NewSize) /\ i \notin Occupied
  BY SlotIsFree
<1> HIDE DEF i
<1>5. {j \in Slots(NewSize) : key'[j] # NULL} = IF s = NULL THEN Occupied ELSE Occupied \cup {i}
  <2>1. \A j \in Slots(NewSize) : key'[j] = IF j = i THEN s ELSE Grown[j]
    BY <1>1, <1>4, RoomForOne
  <2>2. k # NULL
    BY StringsAssumption
  <2> QED
    BY <1>3, <1>4, <2>1, <2>2, RoomForOne
<1>6. n' = n + 1 /\ size' = NewSize /\ hash' = [Doubled(hash, NewSize, 0) EXCEPT ![i] = Hash[k]]
  BY DEF Fill, i
<1> QED
  BY <1>1, <1>2, <1>3, <1>5, <1>6 DEF i

\* The types, the count, the hashes and the keys after a new entry for a key
\* that had none.
LEMMA FillKeeps ==
    ASSUME Whole, NEW k \in Keys, NEW v \in Values \cup {NULL}, ~Found(k),
           Fill(k, v, EmptySlot(Grown, NewSize), NewSize),
           valcmt' \in Nat, lost' = lost, status' \in {"ok", "damaged", "deleted"}
    PROVE  IInv'
<1> DEFINE i == EmptySlot(Grown, NewSize)
<1>1. PICK s \in {k, NULL}, w \in Values \cup {NULL} :
         /\ n' = n + 1 /\ size' = NewSize
         /\ unkeyed' = unkeyed + (IF s = NULL THEN 1 ELSE 0)
         /\ key' = [Grown EXCEPT ![i] = s]
         /\ val' = [Doubled(val, NewSize, NULL) EXCEPT ![i] = w]
         /\ hash' = [Doubled(hash, NewSize, 0) EXCEPT ![i] = Hash[k]]
         /\ {j \in Slots(NewSize) : key'[j] # NULL}
               = IF s = NULL THEN Occupied ELSE Occupied \cup {i}
  BY Filled
<1>2. i \in Slots(NewSize) /\ i \notin Occupied
  BY SlotIsFree
<1> HIDE DEF i
<1>3. Occupied' = IF s = NULL THEN Occupied ELSE Occupied \cup {i}
  BY <1>1 DEF Occupied
<1>4. n \in Nat /\ unkeyed \in Nat /\ size \in Nat \ {0} /\ n = Cardinality(Occupied) + unkeyed
  BY DEF Whole, IInv, TypeOK, CountExact
<1>5. TypeOK'
  <2>1. NewSize \in Nat /\ Slots(size) \subseteq Slots(NewSize)
    BY RoomForOne
  <2>2. key' \in [Slots(NewSize) -> Keys \cup {NULL}]
    BY <1>1, <1>2, RoomForOne
  <2>3. /\ Doubled(val, NewSize, NULL) \in [Slots(NewSize) -> Values \cup {NULL}]
        /\ Doubled(hash, NewSize, 0) \in [Slots(NewSize) -> Nat]
    BY <2>1 DEF Whole, IInv, TypeOK, Doubled
  <2>4. Hash[k] \in Nat
    BY HashAssumption
  <2>5. val' \in [Slots(NewSize) -> Values \cup {NULL}] /\ hash' \in [Slots(NewSize) -> Nat]
    BY <1>1, <2>3, <2>4
  <2>6. n' \in Nat /\ unkeyed' \in Nat
    <3>1. PICK u \in {0, 1} : unkeyed' = unkeyed + u
      BY <1>1
    <3> QED
      BY <1>1, <1>4, <3>1
  <2>7. lost' \subseteq Arrays
    BY DEF Whole, IInv, TypeOK
  <2> QED
    BY <1>1, <2>1, <2>2, <2>5, <2>6, <2>7 DEF TypeOK
<1>6. size' # 0
  BY <1>1, RoomForOne
<1>7. CountExact'
  <2>1. IsFiniteSet(Occupied) /\ Cardinality(Occupied) \in Nat
    BY OccupiedFinite DEF Whole, IInv
  <2>2. n + 1 <= NewSize
    BY <1>4, RoomForOne DEF Slots
  <2>3. CASE s = NULL
    <3>1. Occupied' = Occupied /\ unkeyed' = unkeyed + 1
      BY <1>1, <1>3, <2>3
    <3> QED
      BY <1>1, <1>4, <2>1, <2>2, <3>1 DEF CountExact
  <2>4. CASE s # NULL
    <3>1. Occupied' = Occupied \cup {i} /\ unkeyed' = unkeyed + 0
      BY <1>1, <1>3, <2>4
    <3>2. Cardinality(Occupied \cup {i}) = Cardinality(Occupied) + 1
      BY <1>2, <2>1, FS_AddElement
    <3> QED
      BY <1>1, <1>4, <2>1, <2>2, <3>1, <3>2 DEF CountExact
  <2> QED
    BY <2>3, <2>4
<1>8. \A j \in Occupied' : IF j = i THEN s # NULL /\ key'[j] = k /\ hash'[j] = Hash[k]
                           ELSE j \in Occupied /\ key'[j] = key[j] /\ hash'[j] = hash[j]
  <2> SUFFICES ASSUME NEW j \in Occupied'
               PROVE  IF j = i THEN s # NULL /\ key'[j] = k /\ hash'[j] = Hash[k]
                      ELSE j \in Occupied /\ key'[j] = key[j] /\ hash'[j] = hash[j]
    OBVIOUS
  <2>1. Grown \in [Slots(NewSize) -> Keys \cup {NULL}] /\ \A x \in Occupied : Grown[x] = key[x]
    BY RoomForOne
  <2>2. /\ DOMAIN Doubled(hash, NewSize, 0) = Slots(NewSize)
        /\ \A x \in Occupied : x \in Slots(NewSize) /\ Doubled(hash, NewSize, 0)[x] = hash[x]
    BY RoomForOne DEF Whole, IInv, TypeOK, Doubled, Occupied
  <2>3. CASE j = i
    <3>1. s # NULL
      BY <1>2, <1>3, <2>3
    <3> QED
      BY <1>1, <1>2, <2>1, <2>2, <2>3, <3>1
  <2>4. CASE j # i
    <3>1. j \in Occupied
      BY <1>3, <2>4
    <3> QED
      BY <1>1, <1>2, <2>1, <2>2, <2>4, <3>1
  <2> QED
    BY <2>3, <2>4
<1>9. HashesKept' /\ KeysUnique'
  <2>1. \A j \in Occupied : key[j] # k /\ hash[j] = Hash[key[j]]
    BY FoundMeansEntry DEF Whole, IInv, HashesKept
  <2>2. \A x, y \in Occupied : key[x] = key[y] => x = y
    BY DEF Whole, IInv, KeysUnique
  <2> QED
    BY <1>8, <2>1, <2>2 DEF HashesKept, KeysUnique
<1> QED
  BY <1>5, <1>6, <1>7, <1>9 DEF IInv

-----------------------------------------------------------------------------
(* The other steps.                                                         *)

Statuses == {"ok", "damaged", "deleted"}

\* An update changes one value; a crash, a deletion and a failure of the
\* comments' array none.
LEMMA UpdateKeeps ==
    ASSUME IInv, UNCHANGED <<n, size, key, hash, lost, unkeyed>>,
           \/ UNCHANGED val
           \/ \E k \in Keys, w \in Values \cup {NULL} :
                Found(k) /\ val' = [val EXCEPT ![SlotOf(k)] = w],
           valcmt' \in Nat, status' \in Statuses
    PROVE  IInv'
<1>1. val' \in [Slots(size) -> Values \cup {NULL}]
  BY DEF IInv, TypeOK
<1>2. Occupied' = Occupied
  BY DEF Occupied
<1>3. TypeOK'
  BY <1>1 DEF IInv, TypeOK, Statuses
<1>4. CountExact'
  BY <1>2 DEF IInv, CountExact
<1>5. lost' = {} => HashesKept' /\ KeysUnique'
  BY <1>2 DEF IInv, HashesKept, KeysUnique
<1> QED
  BY <1>3, <1>4, <1>5 DEF IInv

LEMMA CrashKeeps == IInv /\ Crash => IInv'
  BY UpdateKeeps DEF Crash, Statuses, IInv, TypeOK

\* A growth that fails for an array takes what was in it, and the count stays.
LEMMA GrowFailsKeeps ==
    ASSUME IInv, NEW gone \in SUBSET Arrays, GrowFails(gone),
           valcmt' \in Nat, status' \in Statuses
    PROVE  IInv'
<1>1. /\ key' \in [Slots(size) -> Keys \cup {NULL}]
      /\ hash' \in [Slots(size) -> Nat]
      /\ val' \in [Slots(size) -> Values \cup {NULL}]
  BY DEF GrowFails, AfterFailure, IInv, TypeOK
<1>2. UNCHANGED <<n, size, unkeyed>> /\ lost' = gone /\ lost \subseteq gone
  BY DEF GrowFails
<1>3. TypeOK'
  BY <1>1, <1>2 DEF IInv, TypeOK, Statuses
<1>4. ASSUME "key" \notin gone PROVE Occupied' = Occupied /\ "key" \notin lost /\ key' = key
  BY <1>2, <1>4 DEF Occupied, GrowFails, AfterFailure
<1>5. CountExact'
  BY <1>2, <1>4 DEF IInv, CountExact
<1>6. lost' = {} => HashesKept' /\ KeysUnique'
  <2> SUFFICES ASSUME gone = {} PROVE HashesKept' /\ KeysUnique'
    BY <1>2
  <2>1. lost = {} /\ key' = key /\ hash' = hash
    BY <1>2 DEF GrowFails, AfterFailure
  <2> QED
    BY <1>4, <2>1 DEF IInv, HashesKept, KeysUnique
<1> QED
  BY <1>2, <1>3, <1>5, <1>6 DEF IInv

\* A removal takes the entry and its count away.
LEMMA UnsetKeeps ==
    ASSUME IInv, NEW k \in Keys, dictionary_unset(k)
    PROVE  IInv'
<1>1. CASE ~Found(k)
  <2>1. UNCHANGED <<n, size, key, hash, val, valcmt, lost, unkeyed, status>>
    BY <1>1 DEF dictionary_unset, UnsetCount
  <2>2. status' \in Statuses /\ valcmt' \in Nat
    BY <2>1 DEF IInv, TypeOK, Statuses
  <2> QED
    BY <2>1, <2>2, UpdateKeeps
<1>2. CASE Found(k)
  <2> DEFINE i == SlotOf(k)
  <2>0. Whole
    BY <1>2 DEF dictionary_unset, Faults, Whole
  <2>1. i \in Occupied /\ key[i] = k
    BY <1>2, <2>0, FoundMeansEntry
  <2> HIDE DEF i
  <2>2. /\ n' = n - 1 /\ UNCHANGED <<size, valcmt, lost, unkeyed>>
        /\ key' = [key EXCEPT ![i] = NULL]
        /\ val' = [val EXCEPT ![i] = NULL]
        /\ hash' = [hash EXCEPT ![i] = 0]
        /\ status' \in {status, "damaged"}
    BY <1>2 DEF dictionary_unset, UnsetCount, TouchComment, i
  <2>3. Occupied' = Occupied \ {i}
    BY <2>1, <2>2 DEF Occupied, IInv, TypeOK
  <2>4. /\ IsFiniteSet(Occupied) /\ Cardinality(Occupied) \in Nat
        /\ IsFiniteSet(Occupied') /\ Cardinality(Occupied') = Cardinality(Occupied) - 1
    BY <2>1, <2>3, OccupiedFinite, FS_RemoveElement DEF IInv
  <2>5. n \in Nat /\ unkeyed \in Nat /\ size \in Nat /\ n = Cardinality(Occupied) + unkeyed /\ n <= size
    BY <2>0 DEF Whole, IInv, TypeOK, CountExact
  <2>6. Cardinality(Occupied') \in Nat
    BY <2>4, FS_CardinalityType
  <2>7. n - 1 \in Nat
    BY <2>4, <2>5, <2>6
  <2>8. TypeOK'
    BY <2>2, <2>7 DEF IInv, TypeOK
  <2>9. CountExact'
    BY <2>2, <2>4, <2>5 DEF CountExact
  <2>10. \A j \in Occupied' : j \in Occupied /\ key'[j] = key[j] /\ hash'[j] = hash[j]
    BY <2>2, <2>3 DEF Occupied, IInv, TypeOK
  <2>11. HashesKept' /\ KeysUnique'
    BY <2>0, <2>10 DEF Whole, IInv, HashesKept, KeysUnique
  <2> QED
    BY <2>2, <2>8, <2>9, <2>11 DEF IInv
<1> QED
  BY <1>1, <1>2

\* What setting a value, with or without a comment, may do.
LEMMA SetCases ==
    ASSUME NEW k \in Keys, NEW v \in Values \cup {NULL},
           dictionary_set(k, v) \/ dictionary_set_comment(k, v)
    PROVE  \/ SetFaults
           \/ \E gone \in SUBSET Arrays :
                /\ GrowFails(gone) /\ status' \in {status, "damaged"}
                /\ valcmt' \in {valcmt, 0, NewSize}
           \/ /\ lost = {} /\ Found(k)
              /\ \E s \in Dup(v) : val' = [val EXCEPT ![SlotOf(k)] = s]
              /\ UNCHANGED <<n, size, key, hash, valcmt, lost, unkeyed>>
              /\ status' \in {status, "damaged"}
           \/ /\ lost = {} /\ ~Found(k)
              /\ Fill(k, v, EmptySlot(Grown, NewSize), NewSize)
              /\ lost' = lost /\ valcmt' \in {valcmt, NewSize} /\ status' \in {status, "damaged"}
<1>1. CASE dictionary_set(k, v)
  <2>1. SUBSET Arrays \ {{}} \subseteq SUBSET Arrays
    OBVIOUS
  <2> QED
    BY <1>1, <2>1 DEF dictionary_set, Grown
<1>2. CASE dictionary_set_comment(k, v)
  BY <1>2 DEF dictionary_set_comment, TouchComment, Grown
<1> QED
  BY <1>1, <1>2

\* Setting a value keeps the invariant.
LEMMA SetKeeps ==
    ASSUME IInv, NEW k \in Keys, NEW v \in Values \cup {NULL},
           dictionary_set(k, v) \/ dictionary_set_comment(k, v)
    PROVE  IInv'
<1>1. status \in Statuses /\ valcmt \in Nat /\ size \in Nat /\ NewSize \in Nat
  BY DEF IInv, TypeOK, Statuses, NewSize
<1>2. CASE SetFaults
  BY <1>2, CrashKeeps DEF SetFaults
<1>3. CASE \E gone \in SUBSET Arrays :
             /\ GrowFails(gone) /\ status' \in {status, "damaged"}
             /\ valcmt' \in {valcmt, 0, NewSize}
  <2>1. status' \in Statuses /\ valcmt' \in Nat
    BY <1>1, <1>3 DEF Statuses
  <2> QED
    BY <1>3, <2>1, GrowFailsKeeps
<1>4. CASE /\ lost = {} /\ Found(k)
           /\ \E s \in Dup(v) : val' = [val EXCEPT ![SlotOf(k)] = s]
           /\ UNCHANGED <<n, size, key, hash, valcmt, lost, unkeyed>>
           /\ status' \in {status, "damaged"}
  <2>1. Dup(v) \subseteq Values \cup {NULL}
    BY DEF Dup
  <2>2. status' \in Statuses /\ valcmt' \in Nat
    BY <1>1, <1>4 DEF Statuses
  <2> QED
    BY <1>4, <2>1, <2>2, UpdateKeeps
<1>5. CASE /\ lost = {} /\ ~Found(k)
           /\ Fill(k, v, EmptySlot(Grown, NewSize), NewSize)
           /\ lost' = lost /\ valcmt' \in {valcmt, NewSize} /\ status' \in {status, "damaged"}
  <2>1. status' \in {"ok", "damaged", "deleted"} /\ valcmt' \in Nat
    BY <1>1, <1>5 DEF Statuses
  <2> QED
    BY <1>5, <2>1, FillKeeps DEF Whole
<1> QED
  BY <1>1, <1>2, <1>3, <1>4, <1>5, SetCases

LEMMA Invariant == Spec => []IInv
<1>1. ASSUME Init PROVE IInv
  <2>1. DICTMINSZ \in Nat \ {0}
    BY SizesAssumption
  <2>2. TypeOK
    BY <1>1, <2>1 DEF Init, TypeOK, Failing, Arrays
  <2>3. Occupied = {}
    BY <1>1 DEF Init, Occupied
  <2>4. CountExact
    BY <1>1, <2>1, <2>3, FS_EmptySet DEF Init, CountExact
  <2> QED
    BY <1>1, <2>1, <2>2, <2>3, <2>4 DEF Init, IInv, HashesKept, KeysUnique
<1>2. IInv /\ [Next]_vars => IInv'
  <2> SUFFICES ASSUME IInv, [Next]_vars PROVE IInv'
    OBVIOUS
  <2>1. CASE dictionary_del
    BY <2>1, UpdateKeeps DEF dictionary_del, Statuses, IInv, TypeOK
  <2>2. CASE UNCHANGED vars
    BY <2>2, UpdateKeeps DEF vars, Statuses, IInv, TypeOK
  <2>3. CASE \E k \in Keys : LookupFaults(k)
    BY <2>3, CrashKeeps DEF LookupFaults
  <2> QED
    BY <2>1, <2>2, <2>3, SetKeeps, UnsetKeeps DEF Next
<1> QED
  BY <1>1, <1>2, PTL DEF Spec

-----------------------------------------------------------------------------
(* The results.                                                             *)

\* The arrays and the count of a dictionary keep their types.
THEOREM TypeCorrect == Spec => []TypeOK
<1>1. IInv => TypeOK
  BY DEF IInv
<1> QED
  BY <1>1, Invariant, PTL

\* n counts the entries, and those whose key could not be copied, and never
\* passes the size: the search for an empty slot ends, for any hashes, sizes
\* and failed allocations.
THEOREM CountKept == Spec => []CountExact
<1>1. IInv => CountExact
  BY DEF IInv
<1> QED
  BY <1>1, Invariant, PTL

\* Every entry is found by a search for its key, and no other one is, whatever
\* was removed before and however keys hash.
THEOREM EntriesFound == Spec => []Findable
<1>1. IInv => Findable
  BY MatchesOfEntry DEF Findable, Whole
<1> QED
  BY <1>1, Invariant, PTL

-----------------------------------------------------------------------------
(* The dictionary implements a map, until it is lost or ends.               *)

InUse == IInv /\ Usable

\* The map has the keys of the entries, each with the value of its entry.
LEMMA ContentOfEntries ==
    InUse => /\ DOMAIN Content = {key[i] : i \in Occupied}
             /\ Content = [k \in DOMAIN Content |-> Content[k]]
             /\ \A i \in Occupied : Content[key[i]] = val[i]
<1> SUFFICES ASSUME InUse
             PROVE  /\ DOMAIN Content = {key[i] : i \in Occupied}
                    /\ Content = [k \in DOMAIN Content |-> Content[k]]
                    /\ \A i \in Occupied : Content[key[i]] = val[i]
  OBVIOUS
<1>1. Content = [k \in {key[i] : i \in Occupied} |-> dictionary_get(k, NULL)]
  BY DEF Content, InUse
<1>2. ASSUME NEW i \in Occupied PROVE Found(key[i]) /\ SlotOf(key[i]) = i
  BY MatchesOfEntry DEF Found, InUse, Usable, Whole
<1>3. ASSUME NEW i \in Occupied PROVE Content[key[i]] = val[i]
  BY <1>1, <1>2 DEF dictionary_get
<1> QED
  BY <1>1, <1>3

LEMMA ContentOfEntriesNext ==
    InUse' => /\ DOMAIN Content' = {key'[i] : i \in Occupied'}
              /\ Content' = [k \in DOMAIN Content' |-> Content'[k]]
              /\ \A i \in Occupied' : Content'[key'[i]] = val'[i]
<1>1. (InUse => /\ DOMAIN Content = {key[i] : i \in Occupied}
                /\ Content = [k \in DOMAIN Content |-> Content[k]]
                /\ \A i \in Occupied : Content[key[i]] = val[i])'
  BY ContentOfEntries, PTL
<1> QED
  BY <1>1

\* The stage of the map while the dictionary is whole.
LEMMA StageInUse ==
    /\ InUse => Stage = "inUse"
    /\ InUse' => Stage' = "inUse"
  BY DEF InUse, Usable, Stage

\* Nothing is in a map that is lost or has ended.
LEMMA ContentGone ==
    /\ ~Usable => Content = Abstract!Empty
    /\ ~Usable' => Content' = Abstract!Empty
<1>1. ASSUME ~Usable PROVE Content = Abstract!Empty
  <2>1. Content = [k \in {} |-> dictionary_get(k, NULL)]
    BY <1>1 DEF Content
  <2> QED
    BY <2>1 DEF Abstract!Empty
<1>2. ASSUME ~Usable' PROVE Content' = Abstract!Empty
  <2>1. (~Usable => Content = Abstract!Empty)'
    BY <1>1, PTL
  <2> QED
    BY <1>2, <2>1 DEF Abstract!Empty
<1> QED
  BY <1>1, <1>2

\* A step after which the dictionary is no more ends the map.
LEMMA Ending ==
    ASSUME status = "ok", status' # "ok"
    PROVE  Abstract!End
<1>1. Stage # "ended" /\ Stage' = "ended"
  BY DEF Stage
<1>2. ~Usable'
  BY DEF Usable
<1> QED
  BY <1>1, <1>2, ContentGone DEF Abstract!End

\* A step that changes nothing.
LEMMA SameState ==
    ASSUME UNCHANGED <<n, size, key, hash, val, valcmt, lost, unkeyed, status>>
    PROVE  UNCHANGED Abstract!vars
<1>1. Stage' = Stage /\ Usable' = Usable /\ Occupied' = Occupied
  BY DEF Stage, Usable, Occupied
<1>2. Content' = Content
  BY DEF Content, Usable, Occupied, dictionary_get, Found, SlotOf, Matches, Min
<1> QED
  BY <1>1, <1>2 DEF Abstract!vars

\* Whatever leaves the entries and their values alone leaves the map alone.
LEMMA SameEntries ==
    ASSUME InUse, InUse', Occupied' = Occupied,
           \A i \in Occupied : key'[i] = key[i] /\ val'[i] = val[i]
    PROVE  UNCHANGED Abstract!vars
<1>1. DOMAIN Content' = DOMAIN Content
  BY ContentOfEntries, ContentOfEntriesNext
<1>2. ASSUME NEW k \in DOMAIN Content PROVE Content'[k] = Content[k]
  <2>1. PICK i \in Occupied : k = key[i]
    BY ContentOfEntries
  <2> QED
    BY <2>1, ContentOfEntries, ContentOfEntriesNext
<1>3. Content' = Content
  BY <1>1, <1>2, ContentOfEntries, ContentOfEntriesNext
<1> QED
  BY <1>3, StageInUse DEF Abstract!vars

\* An entry of key k, new or old, gets the value w.
LEMMA EntrySets ==
    ASSUME InUse, InUse', NEW k \in Keys, NEW w, NEW i \in Occupied',
           key'[i] = k, val'[i] = w, i \in Occupied => key[i] = k,
           \A j \in Occupied : j # i => j \in Occupied',
           \A j \in Occupied' : j # i => j \in Occupied /\ key'[j] = key[j] /\ val'[j] = val[j]
    PROVE  Abstract!Set(k, w)
<1>1. DOMAIN Content' = DOMAIN Content \cup {k}
  BY ContentOfEntries, ContentOfEntriesNext
<1>2. Content'[k] = w
  BY ContentOfEntriesNext
<1>3. ASSUME NEW x \in DOMAIN Content, x # k PROVE Content'[x] = Content[x]
  <2>1. PICK j \in Occupied : x = key[j]
    BY ContentOfEntries
  <2>2. j \in Occupied' /\ key'[j] = x /\ val'[j] = val[j]
    BY <1>3, <2>1
  <2> QED
    BY <2>1, <2>2, ContentOfEntries, ContentOfEntriesNext
<1> DEFINE old == Content
           new == Content'
<1>4. new = [x \in DOMAIN new |-> new[x]]
  BY ContentOfEntriesNext
<1> HIDE DEF old, new
<1>5. new = [x \in DOMAIN old \cup {k} |-> IF x = k THEN w ELSE old[x]]
  <2>1. DOMAIN new = DOMAIN old \cup {k} /\ new[k] = w
    BY <1>1, <1>2 DEF old, new
  <2>2. \A x \in DOMAIN old : x # k => new[x] = old[x]
    BY <1>3 DEF old, new
  <2>3. \A x \in DOMAIN new : new[x] = IF x = k THEN w ELSE old[x]
    BY <2>1, <2>2
  <2> QED
    BY <1>4, <2>1, <2>3
<1> QED
  BY <1>5, StageInUse DEF Abstract!Set, old, new

\* The entry of key k goes.
LEMMA EntryGoes ==
    ASSUME InUse, InUse', NEW k \in Keys, NEW i \in Occupied, key[i] = k,
           Occupied' = Occupied \ {i},
           \A j \in Occupied' : key'[j] = key[j] /\ val'[j] = val[j]
    PROVE  Abstract!Unset(k)
<1>1. DOMAIN Content' = DOMAIN Content \ {k}
  <2>1. \A j \in Occupied : j # i <=> key[j] # k
    BY DEF InUse, IInv, Usable, KeysUnique
  <2>2. DOMAIN Content' = {key'[j] : j \in Occupied \ {i}}
    BY ContentOfEntriesNext
  <2>3. DOMAIN Content' = {key[j] : j \in Occupied \ {i}}
    BY <2>2
  <2>4. DOMAIN Content = {key[j] : j \in Occupied}
    BY ContentOfEntries
  <2> QED
    BY <2>1, <2>3, <2>4
<1>2. ASSUME NEW x \in DOMAIN Content' PROVE Content'[x] = Content[x]
  <2>1. PICK j \in Occupied' : x = key[j]
    BY ContentOfEntriesNext
  <2> QED
    BY <2>1, ContentOfEntries, ContentOfEntriesNext
<1> DEFINE old == Content
           new == Content'
<1>3. new = [x \in DOMAIN new |-> new[x]]
  BY ContentOfEntriesNext
<1> HIDE DEF old, new
<1>4. new = [x \in DOMAIN old \ {k} |-> old[x]]
  BY <1>1, <1>2, <1>3 DEF old, new
<1> QED
  BY <1>4, StageInUse DEF Abstract!Unset, old, new

\* A growth that fails loses the map, or has lost it before, unless it only
\* fails for the comments.
LEMMA FailureSimulates ==
    ASSUME IInv, IInv', NEW gone \in SUBSET Arrays, GrowFails(gone), status = "ok", status' = "ok"
    PROVE  UNCHANGED Abstract!vars \/ Abstract!Lose
<1>1. lost' = gone /\ lost \subseteq gone /\ AllocMayFail
  BY DEF GrowFails
<1>2. CASE gone = {}
  <2>1. UNCHANGED <<size, key, val>> /\ Occupied' = Occupied
    BY <1>2 DEF GrowFails, AfterFailure, Occupied
  <2>2. InUse /\ InUse'
    BY <1>1, <1>2 DEF InUse, Usable
  <2> QED
    BY <2>1, <2>2, SameEntries
<1>3. CASE gone # {} /\ lost = {}
  <2>1. Stage = "inUse" /\ Stage' = "lost" /\ ~Usable'
    BY <1>1, <1>3 DEF Stage, Usable
  <2> QED
    BY <1>1, <2>1, ContentGone DEF Abstract!Lose
<1>4. CASE lost # {}
  <2>1. Stage = "lost" /\ Stage' = "lost" /\ ~Usable /\ ~Usable'
    BY <1>1, <1>4 DEF Stage, Usable
  <2>2. Content' = Content /\ Stage' = Stage
    BY <2>1, ContentGone
  <2> QED
    BY <2>2 DEF Abstract!vars
<1> QED
  BY <1>2, <1>3, <1>4

LEMMA SetSimulates ==
    ASSUME IInv, IInv', NEW k \in Keys, NEW v \in Values \cup {NULL}, status = "ok",
           dictionary_set(k, v) \/ dictionary_set_comment(k, v)
    PROVE  \/ UNCHANGED Abstract!vars
           \/ \E w \in Values \cup {NULL} : Abstract!Set(k, w)
           \/ Abstract!Lose
           \/ Abstract!End
<1>0. CASE status' # "ok"
  BY <1>0, Ending
<1>1. CASE SetFaults
  BY <1>1, Ending DEF SetFaults, Crash
<1>2. CASE status' = "ok" /\ \E gone \in SUBSET Arrays : GrowFails(gone)
  BY <1>2, FailureSimulates
<1>3. CASE /\ status' = "ok" /\ lost = {} /\ Found(k)
           /\ \E s \in Dup(v) : val' = [val EXCEPT ![SlotOf(k)] = s]
           /\ UNCHANGED <<n, size, key, hash, valcmt, lost, unkeyed>>
  <2>1. PICK w \in Dup(v) : val' = [val EXCEPT ![SlotOf(k)] = w]
    BY <1>3
  <2>2. w \in Values \cup {NULL}
    BY DEF Dup
  <2>3. UNCHANGED <<size, key>> /\ Occupied' = Occupied
    BY <1>3 DEF Occupied
  <2>4. InUse /\ InUse' /\ Whole
    BY <1>3 DEF InUse, Usable, Whole
  <2>5. SlotOf(k) \in Occupied /\ key[SlotOf(k)] = k
    BY <1>3, <2>4, FoundMeansEntry
  <2>6. /\ val'[SlotOf(k)] = w
        /\ \A j \in Occupied : j # SlotOf(k) => val'[j] = val[j]
    BY <2>1, <2>5 DEF IInv, TypeOK, Occupied
  <2>7. Abstract!Set(k, w)
    BY <2>3, <2>4, <2>5, <2>6, EntrySets
  <2> QED
    BY <2>2, <2>7
<1>4. CASE /\ status' = "ok" /\ lost = {} /\ ~Found(k) /\ lost' = lost
           /\ Fill(k, v, EmptySlot(Grown, NewSize), NewSize)
  <2>0. InUse /\ InUse' /\ Whole
    BY <1>4 DEF InUse, Usable, Whole
  <2> DEFINE i == EmptySlot(Grown, NewSize)
  <2>1. PICK s \in {k, NULL}, w \in Values \cup {NULL} :
           /\ size' = NewSize
           /\ key' = [Grown EXCEPT ![i] = s]
           /\ val' = [Doubled(val, NewSize, NULL) EXCEPT ![i] = w]
           /\ {j \in Slots(NewSize) : key'[j] # NULL}
                 = IF s = NULL THEN Occupied ELSE Occupied \cup {i}
    BY <1>4, <2>0, Filled
  <2>2. i \in Slots(NewSize) /\ i \notin Occupied
    BY <2>0, SlotIsFree
  <2> HIDE DEF i
  <2>3. Occupied' = IF s = NULL THEN Occupied ELSE Occupied \cup {i}
    BY <2>1 DEF Occupied
  <2>4. \A j \in Occupied : key'[j] = key[j] /\ val'[j] = val[j]
    <3>1. /\ DOMAIN Doubled(val, NewSize, NULL) = Slots(NewSize)
          /\ \A x \in Occupied : x \in Slots(NewSize) /\ Doubled(val, NewSize, NULL)[x] = val[x]
      BY <2>0, RoomForOne DEF IInv, TypeOK, Doubled, Occupied
    <3>2. Grown \in [Slots(NewSize) -> Keys \cup {NULL}] /\ \A x \in Occupied : Grown[x] = key[x]
      BY <2>0, RoomForOne
    <3> QED
      BY <2>1, <2>2, <3>1, <3>2
  <2>5. CASE s = NULL
    BY <2>0, <2>3, <2>4, <2>5, SameEntries
  <2>6. CASE s # NULL
    <3>1. Occupied' = Occupied \cup {i} /\ s = k
      BY <2>3, <2>6
    <3>2. key'[i] = k
      BY <2>0, <2>1, <2>2, <3>1, RoomForOne
    <3>3. val'[i] = w
      BY <2>1, <2>2 DEF Doubled
    <3>4. Abstract!Set(k, w)
      BY <2>0, <2>2, <2>4, <3>1, <3>2, <3>3, EntrySets
    <3> QED
      BY <3>4
  <2> QED
    BY <2>5, <2>6
<1> QED
  BY <1>0, <1>1, <1>2, <1>3, <1>4, SetCases

LEMMA UnsetSimulates ==
    ASSUME IInv, IInv', NEW k \in Keys, dictionary_unset(k)
    PROVE  UNCHANGED Abstract!vars \/ Abstract!Unset(k) \/ Abstract!End
<1>0. status = "ok"
  BY DEF dictionary_unset
<1>1. CASE ~Found(k)
  <2>1. UNCHANGED <<n, size, key, hash, val, valcmt, lost, unkeyed, status>>
    BY <1>1 DEF dictionary_unset, UnsetCount
  <2> QED
    BY <2>1, SameState
<1>2. CASE status' # "ok"
  BY <1>0, <1>2, Ending
<1>3. CASE Found(k) /\ status' = "ok"
  <2> DEFINE i == SlotOf(k)
  <2>0. lost = {} /\ lost' = lost
    BY <1>3 DEF dictionary_unset, Faults
  <2>1. InUse /\ InUse' /\ Whole
    BY <1>0, <1>3, <2>0 DEF InUse, Usable, Whole
  <2>2. i \in Occupied /\ key[i] = k
    BY <1>3, <2>1, FoundMeansEntry
  <2> HIDE DEF i
  <2>3. key' = [key EXCEPT ![i] = NULL] /\ val' = [val EXCEPT ![i] = NULL] /\ UNCHANGED size
    BY <1>3 DEF dictionary_unset, i
  <2>4. Occupied' = Occupied \ {i}
    BY <2>2, <2>3 DEF Occupied, IInv, TypeOK
  <2>5. \A j \in Occupied' : key'[j] = key[j] /\ val'[j] = val[j]
    BY <2>3, <2>4 DEF Occupied, IInv, TypeOK
  <2> QED
    BY <2>1, <2>2, <2>4, <2>5, EntryGoes
<1> QED
  BY <1>1, <1>2, <1>3

\* The arrays implement a map: growth, holes and collisions never show.  An
\* allocation that fails costs the entry or the value being set, or the whole
\* map if it is one of the three arrays', and a lost map stays empty.
THEOREM MapImplemented == Spec => ImplementsMap
<1>1. Init => Abstract!Init
  <2> SUFFICES ASSUME Init PROVE Abstract!Init
    OBVIOUS
  <2>1. Occupied = {}
    BY DEF Init, Occupied
  <2>2. Content = Abstract!Empty
    <3>1. Content = [k \in {} |-> dictionary_get(k, NULL)]
      BY <2>1 DEF Content
    <3> QED
      BY <3>1 DEF Abstract!Empty
  <2>3. Stage \in {"inUse"} \cup (IF AllocMayFail THEN {"lost"} ELSE {})
    BY DEF Init, Stage, Failing
  <2> QED
    BY <2>2, <2>3 DEF Abstract!Init
<1>2. IInv /\ IInv' /\ [Next]_vars => [Abstract!Next]_(Abstract!vars)
  <2> SUFFICES ASSUME IInv, IInv', [Next]_vars PROVE Abstract!Next \/ UNCHANGED Abstract!vars
    OBVIOUS
  <2>1. CASE dictionary_del
    <3>1. status = "ok" /\ status' # "ok"
      BY <2>1 DEF dictionary_del
    <3> QED
      BY <3>1, Ending DEF Abstract!Next
  <2>2. CASE UNCHANGED vars
    BY <2>2, SameState DEF vars
  <2>3. CASE \E k \in Keys, v \in Values \cup {NULL} : dictionary_set(k, v) \/ dictionary_set_comment(k, v)
    BY <2>3, SetSimulates DEF Abstract!Next, dictionary_set, dictionary_set_comment
  <2>4. CASE \E k \in Keys : dictionary_unset(k)
    BY <2>4, UnsetSimulates DEF Abstract!Next
  <2>5. CASE \E k \in Keys : LookupFaults(k)
    <3>1. status = "ok" /\ status' # "ok"
      BY <2>5 DEF LookupFaults, Crash
    <3> QED
      BY <3>1, Ending DEF Abstract!Next
  <2> QED
    BY <2>1, <2>2, <2>3, <2>4, <2>5 DEF Next
<1> QED
  BY <1>1, <1>2, Invariant, PTL DEF Spec, ImplementsMap, Abstract!Spec

=============================================================================
