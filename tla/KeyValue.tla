------------------------------ MODULE KeyValue ------------------------------
(* What iniparser/dictionary.c promises: a finite map from keys to values,  *)
(* where a value may be NULL, until the map is lost or ends.                *)
CONSTANTS Keys, Values, NULL,
          MayFail    \* may an allocation fail?

VARIABLES map,
          stage      \* "inUse", "lost" with all its entries, or "ended"

vars == <<map, stage>>

Empty == [k \in {} |-> NULL]

Init ==
    /\ map = Empty
    /\ stage \in {"inUse"} \cup (IF MayFail THEN {"lost"} ELSE {})

Set(k, v) ==
    /\ stage = "inUse"
    /\ map' = [j \in DOMAIN map \cup {k} |-> IF j = k THEN v ELSE map[j]]
    /\ UNCHANGED stage

Unset(k) ==
    /\ stage = "inUse"
    /\ map' = [j \in DOMAIN map \ {k} |-> map[j]]
    /\ UNCHANGED stage

Lose ==
    /\ MayFail
    /\ stage = "inUse"
    /\ stage' = "lost"
    /\ map' = Empty

End ==
    /\ stage # "ended"
    /\ stage' = "ended"
    /\ map' = Empty

Next ==
    \/ \E k \in Keys, v \in Values \cup {NULL} : Set(k, v)
    \/ \E k \in Keys : Unset(k)
    \/ Lose
    \/ End

Spec == Init /\ [][Next]_vars
=============================================================================
