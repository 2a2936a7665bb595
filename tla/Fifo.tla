-------------------------------- MODULE Fifo --------------------------------
(* What common/ringbuf.c promises: a bounded first-in first-out queue of    *)
(* bytes, written and read in chunks.                                       *)
EXTENDS Integers, Sequences

CONSTANTS Bytes, Capacity

VARIABLE content

Init == content = <<>>

Write == \E m \in 1..(Capacity - Len(content)) : \E chunk \in [1..m -> Bytes] :
           content' = content \o chunk

Read == \E m \in 1..Len(content) : content' = SubSeq(content, m + 1, Len(content))

Clear == content' = <<>>

Next == Write \/ Read \/ Clear

Spec == Init /\ [][Next]_content
=============================================================================
