---------------------------- MODULE MCDictionary ----------------------------
(* Instances of Dictionary for TLC.                                         *)
EXTENDS Dictionary, TLC

CONSTANTS k1, k2, k3

\* Two of the three keys collide.
Hashes == k1 :> 7 @@ k2 :> 7 @@ k3 :> 9

=============================================================================
