---------------------------- MODULE MCTimerLoop ----------------------------
(* Instances of TimerLoop for TLC.                                          *)
EXTENDS TimerLoop, TLC

CONSTANTS a, b

\* Two timers that share a deadline when b is started one millisecond before a.
Timeouts == a :> 1 @@ b :> 2

\* The callers' start_ids.
Ids == a :> 1 @@ b :> 2

=============================================================================
