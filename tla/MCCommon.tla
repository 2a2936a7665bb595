------------------------------ MODULE MCCommon ------------------------------
(* The instances of the parts of src/common/ that TLC checks, in one run:   *)
(* SysInfo, Codec, Heap and RingBuf.                                        *)
EXTENDS SysInfo, Codec, Heap, RingBuf, TLC

\* With models and speeds (x86), with models only, with neither.
KnownFormats == {[models |-> TRUE, speeds |-> TRUE], [models |-> TRUE, speeds |-> FALSE],
                 [models |-> FALSE, speeds |-> FALSE]}

\* Every byte alone; up to four bytes around the places where digits change.
SomeBytes == {0, 9, 62, 159, 160, 255}
SomeInputs == {<<>>} \cup {<<b>> : b \in Bytes} \cup UNION {[1..n -> SomeBytes] : n \in 2..4}
SomeNumbers == {0, 9, 10, 99, 100, 101, 4096, 1999999999, 2147483647}

CONSTANTS n1, n2, n3, n4, n5, n6, n7, n8, n9

\* Nine nodes, so the bottom row is the fourth level.  Two nodes tie.
Keys == n1 :> 1 @@ n2 :> 2 @@ n3 :> 3 @@ n4 :> 4 @@ n5 :> 5 @@ n6 :> 5 @@ n7 :> 7
        @@ n8 :> 8 @@ n9 :> 9

-----------------------------------------------------------------------------
(* The parts have no state in common, so it is enough to let each of them   *)
(* run while the others are as they were at the start.                      *)

MCInit == Init /\ CodecInit /\ HeapInit /\ RingInit

NoCall == pc = "idle" /\ result = NULL /\ online = CPUs /\ format.speeds /\ steady /\ eintr = 0

MCNext ==
    \/ /\ Next
       /\ ~Converting /\ HeapInit /\ RingInit
       /\ UNCHANGED <<bytes, number, heap, ringVars>>
    \/ /\ CodecNext
       /\ NoCall /\ HeapInit /\ RingInit
       /\ UNCHANGED <<vars, heap, ringVars>>
    \/ /\ HeapNext
       /\ NoCall /\ ~Converting /\ RingInit
       /\ UNCHANGED <<vars, bytes, number, ringVars>>
    \/ /\ RingNext
       /\ NoCall /\ ~Converting /\ HeapInit
       /\ UNCHANGED <<vars, bytes, number, heap>>

MCSpec ==
    /\ MCInit
    /\ [][MCNext]_<<vars, bytes, number, heap, ringVars>>
    /\ WF_vars(CallStep)

=============================================================================
