----------------------------- MODULE Dictionary -----------------------------
(* The string dictionary of iniparser/dictionary.c: four parallel arrays of *)
(* `size` slots, a count `n` of the occupied ones, growth by doubling, and  *)
(* lookup by hash and then by string.  A dictionary belongs to one thread   *)
(* at a time (parser.c guards it with a lock), so an operation is one step. *)
EXTENDS Integers, FiniteSets, FiniteSetsExt

CONSTANTS
    Keys, Values,    \* strings
    NULL,
    Hash,            \* dictionary_hash; keys may collide
    DICTMINSZ,       \* dictionary.c:27
    MaxSize,         \* bound: the arrays do not grow beyond this
    AllocMayFail     \* may malloc and calloc return NULL?

ASSUME StringsAssumption == NULL \notin Keys \cup Values

ASSUME HashAssumption == Hash \in [Keys -> Nat]

ASSUME SizesAssumption == DICTMINSZ \in Nat \ {0} /\ MaxSize \in Nat

ASSUME AllocAssumption == AllocMayFail \in BOOLEAN

VARIABLES
    n,        \* number of entries
    size,     \* number of slots
    key,      \* slot -> key or NULL
    hash,     \* slot -> hash of its key
    val,      \* slot -> value or NULL
    valcmt,   \* the number of slots valcmt has, 0 if its pointer is NULL;
              \* the comments are left out
    lost,     \* the arrays whose pointer is NULL; nothing is in them
    unkeyed,  \* history: entries counted whose key could not be copied
    status    \* "ok"; "damaged": an access went past an array or through
              \* NULL; "deleted"

vars == <<n, size, key, hash, val, valcmt, lost, unkeyed, status>>

Slots(m) == 0..(m - 1)

Arrays == {"key", "hash", "val"}

TypeOK ==
    /\ n \in Nat
    /\ size \in Nat
    /\ key \in [Slots(size) -> Keys \cup {NULL}]
    /\ hash \in [Slots(size) -> Nat]
    /\ val \in [Slots(size) -> Values \cup {NULL}]
    /\ valcmt \in Nat
    /\ lost \subseteq Arrays
    /\ unkeyed \in Nat
    /\ status \in {"ok", "damaged", "deleted"}

\* Sets of arrays of which an allocation may fail.
Failing == IF AllocMayFail THEN SUBSET Arrays ELSE {{}}

\* dictionary_new(0), which does not test what calloc gives it for the arrays.
Init ==
    /\ n = 0
    /\ size = DICTMINSZ
    /\ key = [i \in Slots(DICTMINSZ) |-> NULL]
    /\ hash = [i \in Slots(DICTMINSZ) |-> 0]
    /\ val = [i \in Slots(DICTMINSZ) |-> NULL]
    /\ valcmt \in {DICTMINSZ} \cup (IF AllocMayFail THEN {0} ELSE {})
    /\ lost \in Failing
    /\ unkeyed = 0
    /\ status = "ok"

-----------------------------------------------------------------------------
(* Looking up.                                                              *)

Occupied == {i \in Slots(size) : key[i] # NULL}

\* The slots a search for k stops at, if it gets there.
Matches(k) == {i \in Occupied : hash[i] = Hash[k] /\ key[i] = k}

Found(k) == Matches(k) # {}

\* The search runs upwards.
SlotOf(k) == Min(Matches(k))

dictionary_get(k, def) == IF Found(k) THEN val[SlotOf(k)] ELSE def

\* What xstrdup makes of a string.
Dup(s) == IF AllocMayFail THEN {s, NULL} ELSE {s}

-----------------------------------------------------------------------------
(* Growing and adding.                                                      *)

\* Mutant: the new array is not filled from the old one.
DoubledEmpty(f, m, zero) == [i \in Slots(m) |-> zero]

\* Mutant: the size given for the hashes is 0, so none is copied.
DoubledNoHashes(f, m, zero) ==
    [i \in Slots(m) |-> IF zero # 0 /\ i \in DOMAIN f THEN f[i] ELSE zero]

\* mem_double: the old elements, then zeroes, m slots in all.
Doubled(f, m, zero) == [i \in Slots(m) |-> IF i \in DOMAIN f THEN f[i] ELSE zero]

\* The size a new entry needs; the bound MaxSize is the model's.
MustGrow == n = size
NewSize == IF MustGrow THEN 2 * size ELSE size
MayGrow == NewSize <= MaxSize

\* The first empty slot of `keys`, from slot n upwards, wrapping at m.
EmptySlot(keys, m) ==
    LET distance == Min({d \in Slots(m) : keys[(n + d) % m] = NULL})
    IN  (n + distance) % m

\* A new entry for k, into slot i of arrays of m slots.  A key that cannot be
\* copied leaves the slot empty and is counted all the same.
Fill(k, v, i, m) ==
    /\ \E s \in Dup(k) :
         /\ key' = [Doubled(key, m, NULL) EXCEPT ![i] = s]
         /\ unkeyed' = unkeyed + (IF s = NULL THEN 1 ELSE 0)
    /\ \E s \in Dup(v) : val' = [Doubled(val, m, NULL) EXCEPT ![i] = s]
    /\ hash' = [Doubled(hash, m, 0) EXCEPT ![i] = Hash[k]]
    /\ n' = n + 1
    /\ size' = m

\* What is in the array a after a growth that fails for the arrays `gone`:
\* a pointer overwritten with NULL takes everything that was in the array.
AfterFailure(a, gone, f, zero) ==
    IF a \in gone THEN [i \in DOMAIN f |-> zero] ELSE f

\* mem_double returns NULL for the arrays `gone`: -1 is returned, with `size`
\* as it was, so that the new room of the other arrays is not seen.  An array
\* that was lost before cannot be doubled: its copy would read through NULL.
GrowFails(gone) ==
    /\ MustGrow
    /\ AllocMayFail
    /\ lost \subseteq gone
    /\ lost' = gone
    /\ key' = AfterFailure("key", gone, key, NULL)
    /\ hash' = AfterFailure("hash", gone, hash, 0)
    /\ val' = AfterFailure("val", gone, val, NULL)
    /\ UNCHANGED <<n, size, unkeyed>>

-----------------------------------------------------------------------------
(* The operations, on a dictionary and a key that are not NULL.             *)

\* Looking k up accesses an array that is lost: the keys, the hashes if there
\* is a key to compare, the values if k is found.
Faults(k) ==
    /\ lost # {}
    /\ "key" \in lost \/ (Occupied # {} /\ "hash" \in lost) \/ Found(k)

Crash ==
    /\ status' = "damaged"
    /\ UNCHANGED <<n, size, key, hash, val, valcmt, lost, unkeyed>>

\* dictionary_get and dictionary_unset.
LookupFaults(k) == status = "ok" /\ Faults(k) /\ Crash

\* Accessing the comment of slot i, in an array of m; past its end it hits
\* other memory.
TouchComment(i, m) == status' = IF i < m THEN status ELSE "damaged"

\* With an array lost a set ends in an access through NULL, unless it can
\* fail to grow once more first.
SetFaults == lost # {} /\ Crash

\* Neither an update nor the growth touches valcmt.
dictionary_set(k, v) ==
    /\ status = "ok"
    /\ \/ SetFaults
       \/ /\ lost = {}
          /\ Found(k)
          /\ \E s \in Dup(v) : val' = [val EXCEPT ![SlotOf(k)] = s]
          /\ UNCHANGED <<n, size, key, hash, valcmt, lost, unkeyed, status>>
       \/ /\ lost = {}
          /\ ~Found(k)
          /\ MayGrow
          /\ Fill(k, v, EmptySlot(Doubled(key, NewSize, NULL), NewSize), NewSize)
          /\ UNCHANGED <<valcmt, lost, status>>
       \/ /\ ~Found(k) /\ ~Faults(k)
          /\ \E gone \in SUBSET Arrays \ {{}} : GrowFails(gone)
          /\ UNCHANGED <<valcmt, status>>

\* The growth copies `size` comments, which reads past a shorter valcmt, and
\* it may fail for the comments, too, or for them alone.
dictionary_set_comment(k, v) ==
    /\ status = "ok"
    /\ \/ SetFaults
       \/ /\ lost = {}
          /\ Found(k)
          /\ \E s \in Dup(v) : val' = [val EXCEPT ![SlotOf(k)] = s]
          /\ TouchComment(SlotOf(k), valcmt)
          /\ UNCHANGED <<n, size, key, hash, valcmt, lost, unkeyed>>
       \/ /\ lost = {}
          /\ ~Found(k)
          /\ MayGrow
          /\ LET i == EmptySlot(Doubled(key, NewSize, NULL), NewSize)
             IN  /\ Fill(k, v, i, NewSize)
                 /\ valcmt' = IF MustGrow THEN NewSize ELSE valcmt
                 /\ IF MustGrow
                    THEN TouchComment(size - 1, valcmt)
                    ELSE TouchComment(i, valcmt)
          /\ UNCHANGED lost
       \/ /\ ~Found(k) /\ ~Faults(k)
          /\ \E gone \in SUBSET Arrays :
               /\ GrowFails(gone)
               /\ \/ valcmt' = 0 /\ UNCHANGED status
                  \/ /\ gone # {}
                     /\ valcmt' = NewSize
                     /\ TouchComment(size - 1, valcmt)

\* Mutant: the count goes down whether or not the key was there.
UnsetCountAlways(found) == n - 1

UnsetCount(found) == IF found THEN n - 1 ELSE n

dictionary_unset(k) ==
    /\ status = "ok"
    /\ ~Faults(k)
    /\ n' = UnsetCount(Found(k))
    /\ IF Found(k)
       THEN /\ key' = [key EXCEPT ![SlotOf(k)] = NULL]
            /\ val' = [val EXCEPT ![SlotOf(k)] = NULL]
            /\ hash' = [hash EXCEPT ![SlotOf(k)] = 0]
            /\ TouchComment(SlotOf(k), valcmt)
       ELSE UNCHANGED <<key, val, hash, status>>
    /\ UNCHANGED <<size, valcmt, lost, unkeyed>>

\* Every slot of the three arrays of strings is freed.
dictionary_del ==
    /\ status = "ok"
    /\ status' = IF valcmt < size \/ lost \cap {"key", "val"} # {}
                 THEN "damaged" ELSE "deleted"
    /\ UNCHANGED <<n, size, key, hash, val, valcmt, lost, unkeyed>>

Next ==
    \/ \E k \in Keys, v \in Values \cup {NULL} : dictionary_set(k, v)
    \/ \E k \in Keys, v \in Values \cup {NULL} : dictionary_set_comment(k, v)
    \/ \E k \in Keys : dictionary_unset(k) \/ LookupFaults(k)
    \/ dictionary_del

Spec == Init /\ [][Next]_vars

-----------------------------------------------------------------------------
(* What the dictionary promises.                                            *)

\* dictionary.h:42: n is the number of entries.  It is, as long as the keys
\* are there, but for the entries that were counted although their key could
\* not be copied, and it never passes the size: "Because d->n < d->size this
\* will necessarily terminate" (dictionary.c:271), the search for an empty
\* slot finds one, also after removals and failed allocations.
CountExact ==
    /\ "key" \notin lost => n = Cardinality(Occupied) + unkeyed
    /\ n <= size

\* dictionary.h:36: each association has a unique key.  Every entry is found
\* by a search for its key, whatever entries were removed or hash alike.
Findable == lost = {} => \A i \in Occupied : Matches(key[i]) = {i}

\* The dictionary is a map: growth, removals and collisions do not show.  An
\* allocation that fails costs the entry or the value being set, or, if it is
\* one of the keys, hashes or values, the whole map: then nothing is got or
\* set any more.  A failure of the comments' alone costs no entry.
Usable == status = "ok" /\ lost = {}

Content ==
    [k \in IF Usable THEN {key[i] : i \in Occupied} ELSE {} |-> dictionary_get(k, NULL)]

Stage == IF status # "ok" THEN "ended" ELSE IF lost = {} THEN "inUse" ELSE "lost"

Abstract == INSTANCE KeyValue WITH map <- Content, stage <- Stage, MayFail <- AllocMayFail

ImplementsMap == Abstract!Spec

\* dictionary.h:43: size is the storage size, of each of the four arrays.
ArraysHaveSize == valcmt = size

=============================================================================
