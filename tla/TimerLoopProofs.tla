-------------------------- MODULE TimerLoopProofs --------------------------
(* What TimerLoop promises, for any timers, timeouts and clock range.       *)
EXTENDS TimerLoop, WellFoundedInduction, TLAPS

-----------------------------------------------------------------------------
(* Arithmetic of uint64_t.                                                  *)

\* A sum reduced to uint64_t is in range.
LEMMA ModInRange ==
    ASSUME NEW x \in Nat, NEW m \in Nat \ {0}
    PROVE  x % m \in 0..(m - 1)
BY SMT

\* A sum that is in range is not changed.
LEMMA ModSmall ==
    ASSUME NEW x \in Nat, NEW m \in Nat \ {0}, x < m
    PROVE  x % m = x
BY SMT

-----------------------------------------------------------------------------
(* The heap's minimum.                                                      *)

\* A set of natural numbers that is not empty has a least element.
LEMMA LeastNat ==
    ASSUME NEW S \in SUBSET Nat, S # {}
    PROVE  \E m \in S : \A n \in S : m <= n
<1>1. PICK m \in S : \A n \in S : ~ (<<n, m>> \in OpToRel(<, Nat))
  BY NatLessThanWellFounded, WFMin
<1>2. \A n \in S : ~ (n < m)
  BY <1>1 DEF OpToRel
<1> QED
  BY <1>2

\* loop_timer_less_than has a minimum in every heap that is not empty.
LEMMA MinExists ==
    ASSUME TypeOK, queued # {}
    PROVE  \E t \in queued : IsMin(t)
<1> DEFINE first == {nexttime[t] : t \in queued}
<1>1. first \in SUBSET Nat /\ first # {}
  BY RangeAssumption DEF TypeOK
<1>2. PICK m \in first : \A n \in first : m <= n
  BY <1>1, LeastNat
<1> DEFINE tied == {t \in queued : nexttime[t] = m}
<1> DEFINE ids == {StartId[t] : t \in tied}
<1>3. ids \in SUBSET Nat /\ ids # {}
  BY <1>2, TimersAssumption DEF TypeOK
<1>4. PICK i \in ids : \A j \in ids : i <= j
  BY <1>3, LeastNat
<1>5. PICK t \in tied : StartId[t] = i
  BY <1>4
<1>6. ASSUME NEW u \in queued PROVE ~loop_timer_less_than(u, t)
  <2>1. nexttime[u] \in Nat /\ nexttime[t] = m /\ m <= nexttime[u] /\ m \in Nat
    BY <1>1, <1>2, <1>5
  <2>2. nexttime[u] = m => StartId[t] <= StartId[u]
    BY <1>4, <1>5
  <2>3. StartId[u] \in Nat /\ StartId[t] \in Nat
    BY <1>5, TimersAssumption DEF TypeOK
  <2> QED
    BY <2>1, <2>2, <2>3 DEF loop_timer_less_than
<1> QED
  BY <1>5, <1>6 DEF IsMin

-----------------------------------------------------------------------------
(* Types.                                                                   *)

\* A deadline is a uint64_t.
LEMMA DeadlineType ==
    ASSUME TypeOK, NEW t \in Timers
    PROVE  Deadline(t) \in 0..(Modulus - 1)
<1>1. Timeout[t] + clock \in Nat
  BY TimersAssumption, RangeAssumption DEF TypeOK
<1>2. Modulus \in Nat \ {0}
  BY RangeAssumption
<1> QED
  BY <1>1, <1>2, ModInRange DEF Deadline

\* The timeout of the poll is -1 or a length of time.
LEMMA TimeoutType ==
    ASSUME TypeOK
    PROVE  loop_next_timeout(clock) \in Nat \cup {Forever}
<1>1. CASE queued = {}
  BY <1>1 DEF loop_next_timeout
<1>2. CASE queued # {}
  <2> DEFINE head == CHOOSE t \in queued : IsMin(t)
  <2>1. head \in queued
    BY <1>2, MinExists
  <2>2. nexttime[head] \in Nat /\ clock \in Nat
    BY <2>1, RangeAssumption DEF TypeOK
  <2> HIDE DEF head
  <2>3. loop_next_timeout(clock) =
          IF nexttime[head] <= clock THEN 0 ELSE Clamp(nexttime[head] - clock)
    BY <1>2 DEF loop_next_timeout, head
  <2> QED
    BY <2>2, <2>3, RangeAssumption DEF Clamp
<1> QED
  BY <1>1, <1>2

\* Every variable keeps its type.
THEOREM TypeCorrect == Spec => []TypeOK
<1>1. ASSUME Init PROVE TypeOK
  <2>1. 0 \in 0..(Modulus - 1) /\ 0 \in 0..Horizon
    BY RangeAssumption
  <2>2. /\ nexttime \in [Timers -> 0..(Modulus - 1)]
        /\ startedAt \in [Timers -> 0..Horizon]
        /\ repeat \in [Timers -> Nat] /\ asked \in [Timers -> Nat] /\ fired \in [Timers -> Nat]
    BY <1>1, <2>1 DEF Init
  <2>3. /\ life \in [Timers -> {"new", "armed", "stopped", "spent"}]
    BY <1>1 DEF Init
  <2>4. clock \in 0..Horizon /\ time \in 0..Horizon
    BY <1>1, <2>1 DEF Init
  <2> QED
    BY <1>1, <2>2, <2>3, <2>4 DEF Init, TypeOK
<1>2. TypeOK /\ [Next]_vars => TypeOK'
  <2> SUFFICES ASSUME TypeOK, [Next]_vars PROVE TypeOK'
    OBVIOUS
  <2> \A t \in Timers : Deadline(t) \in 0..(Modulus - 1)
    BY DeadlineType
  <2> \A t \in Timers : Without(t) \in SUBSET Timers
    BY DEF TypeOK, Without
  <2> USE DEF TypeOK
  <2>1. CASE ClientTimerCall
    <3>1. PICK t \in Timers : (\E r \in Repeats : StartTimer(t, r)) \/ StopTimer(t)
      BY <2>1 DEF ClientTimerCall
    <3>2. ASSUME NEW r \in Repeats, StartTimer(t, r) PROVE TypeOK'
      <4>1. repeat' \in [Timers -> Nat] /\ asked' \in [Timers -> Nat] /\ fired' \in [Timers -> Nat]
        BY <3>2, TimersAssumption DEF StartTimer
      <4>2. nexttime' \in [Timers -> 0..(Modulus - 1)] /\ startedAt' \in [Timers -> 0..Horizon]
        BY <3>2 DEF StartTimer
      <4>3. /\ queued' \in SUBSET Timers
            /\ life' \in [Timers -> {"new", "armed", "stopped", "spent"}]
        BY <3>2 DEF StartTimer
      <4> QED
        BY <2>1, <4>1, <4>2, <4>3 DEF ClientTimerCall, loopVars
    <3>3. CASE StopTimer(t)
      BY <2>1, <3>3 DEF ClientTimerCall, StopTimer, loopVars
    <3> QED
      BY <3>1, <3>2, <3>3
  <2>2. CASE loop_stop
    BY <2>2 DEF loop_stop, timerVars
  <2>3. CASE loop_exit
    BY <2>3 DEF loop_exit, timerVars
  <2>4. CASE loop_run
    BY <2>4 DEF loop_run, timerVars
  <2>5. CASE Iterate
    BY <2>5 DEF Iterate, timerVars
  <2>6. ASSUME NEW t \in Timers, RunTimer(t) PROVE TypeOK'
    <3>1. repeat' \in [Timers -> Nat] /\ fired' \in [Timers -> Nat]
      <4>1. Decrement(repeat[t]) \in Nat
        BY DEF Decrement
      <4> QED
        BY <2>6, <4>1 DEF RunTimer
    <3>2. nexttime' \in [Timers -> 0..(Modulus - 1)] /\ startedAt' \in [Timers -> 0..Horizon]
      BY <2>6 DEF RunTimer
    <3>3. /\ queued' \in SUBSET Timers
          /\ life' \in [Timers -> {"new", "armed", "stopped", "spent"}]
      BY <2>6 DEF RunTimer
    <3> QED
      BY <2>6, <3>1, <3>2, <3>3 DEF RunTimer
  <2>7. CASE EndTimers
    BY <2>7, TimeoutType DEF EndTimers, timerVars
  <2>8. CASE Poll
    BY <2>8 DEF Poll, timerVars, Forever
  <2>9. CASE WaitEnds
    BY <2>9 DEF WaitEnds, timerVars
  <2>10. CASE IoEvent
    BY <2>10 DEF IoEvent, timerVars
  <2>11. CASE TimerCallbackReturns
    BY <2>11 DEF TimerCallbackReturns, timerVars
  <2>12. CASE IoCallbackReturns
    BY <2>12 DEF IoCallbackReturns, timerVars
  <2>13. CASE Tick
    BY <2>13, RangeAssumption DEF Tick, loopVars, timerVars
  <2>14. CASE UNCHANGED vars
    BY <2>14 DEF vars, loopVars, timerVars
  <2> QED
    BY <2>1, <2>2, <2>3, <2>4, <2>5, <2>6, <2>7, <2>8, <2>9, <2>10, <2>11, <2>12,
       <2>13, <2>14 DEF Next, LoopStep, ClientStep
<1> QED
  BY <1>1, <1>2, PTL DEF Spec

-----------------------------------------------------------------------------
(* Repeats.                                                                 *)

\* The inductive invariant behind FiresAsOften: the heap holds exactly the
\* armed timers, and an armed timer with nothing to repeat was asked for none.
Counted(t) ==
    /\ life[t] = "armed" <=> t \in queued
    /\ t \in queued => fired[t] + repeat[t] = asked[t] /\ (repeat[t] = 0 => asked[t] = 0)
    /\ life[t] = "spent" => fired[t] = IF asked[t] = 0 THEN 1 ELSE asked[t]

Countdown == \A t \in Timers : Counted(t)

\* Only a client's call and a timer pass touch what Countdown speaks of.
LEMMA CountdownStep == TypeOK /\ Countdown /\ [Next]_vars => Countdown'
<1> SUFFICES ASSUME TypeOK, Countdown, [Next]_vars, NEW u \in Timers PROVE Counted(u)'
  BY DEF Countdown
<1> USE DEF Countdown, Counted, TypeOK
<1>1. CASE ClientTimerCall
  <2>1. PICK t \in Timers : (\E r \in Repeats : StartTimer(t, r)) \/ StopTimer(t)
    BY <1>1 DEF ClientTimerCall
  <2>2. ASSUME NEW r \in Repeats, StartTimer(t, r)
        PROVE  /\ life'[u] = IF u = t THEN "armed" ELSE life[u]
               /\ u \in queued' <=> (u = t \/ u \in queued)
               /\ repeat'[u] = IF u = t THEN r ELSE repeat[u]
               /\ asked'[u] = IF u = t THEN r ELSE asked[u]
               /\ fired'[u] = IF u = t THEN 0 ELSE fired[u]
               /\ r \in Nat
    BY <2>2, TimersAssumption DEF StartTimer
  <2>3. ASSUME StopTimer(t)
        PROVE  /\ life'[u] = IF u = t THEN "stopped" ELSE life[u]
               /\ u \in queued' <=> (u # t /\ u \in queued)
               /\ repeat' = repeat /\ asked' = asked /\ fired' = fired
    BY <2>3 DEF StopTimer, Without
  <2>4. CASE \E r \in Repeats : StartTimer(t, r)
    <3>1. PICK r \in Repeats : StartTimer(t, r)
      BY <2>4
    <3>2. CASE u = t
      BY <2>2, <3>1, <3>2
    <3>3. CASE u # t
      BY <2>2, <3>1, <3>3
    <3> QED
      BY <3>2, <3>3
  <2>5. CASE StopTimer(t)
    BY <2>3, <2>5
  <2> QED
    BY <2>1, <2>4, <2>5
<1>2. ASSUME NEW t \in Timers, RunTimer(t)
      PROVE  Counted(u)'
  <2>1. /\ t \in queued
        /\ repeat'[u] = IF u = t THEN Decrement(repeat[t]) ELSE repeat[u]
        /\ fired'[u] = IF u = t THEN fired[t] + 1 ELSE fired[u]
        /\ asked' = asked
    BY <1>2 DEF RunTimer, IsMin
  <2>2. CASE repeat[t] > 1
    <3>1. queued' = queued /\ life' = life
      BY <1>2, <2>2 DEF RunTimer, Restarts
    <3> QED
      BY <2>1, <2>2, <3>1 DEF Decrement
  <2>3. CASE ~(repeat[t] > 1)
    <3>1. /\ life'[u] = IF u = t THEN "spent" ELSE life[u]
          /\ u \in queued' <=> (u # t /\ u \in queued)
      BY <1>2, <2>3 DEF RunTimer, Restarts, Without
    <3> QED
      BY <2>1, <2>3, <3>1
  <2> QED
    BY <2>2, <2>3
<1>3. CASE UNCHANGED timerVars
  BY <1>3 DEF timerVars
<1>4. loop_stop \/ loop_exit \/ loop_run \/ Iterate \/ EndTimers \/ Poll \/ WaitEnds
      \/ IoEvent \/ TimerCallbackReturns \/ IoCallbackReturns \/ Tick \/ UNCHANGED vars
        => UNCHANGED timerVars
  BY DEF loop_stop, loop_exit, loop_run, Iterate, EndTimers, Poll, WaitEnds, IoEvent,
         TimerCallbackReturns, IoCallbackReturns, Tick, vars
<1> QED
  BY <1>1, <1>2, <1>3, <1>4 DEF Next, LoopStep, ClientStep

\* A timer started with `repeat` = n runs exactly n times, once for n = 0.
THEOREM RepeatsKept == Spec => []FiresAsOften
<1>1. Init => Countdown
  BY DEF Init, Countdown, Counted
<1>2. TypeOK /\ Countdown => FiresAsOften
  BY DEF TypeOK, Countdown, Counted, FiresAsOften
<1> QED
  BY <1>1, <1>2, CountdownStep, TypeCorrect, PTL DEF Spec

-----------------------------------------------------------------------------
(* The timeout of the poll.                                                 *)

\* The timeout computed for the poll reaches no further than any deadline.
LEMMA TimeoutIsSafe ==
    ASSUME TypeOK, NEW t \in queued
    PROVE  /\ loop_next_timeout(clock) # Forever
           /\ \/ loop_next_timeout(clock) = 0
              \/ clock + loop_next_timeout(clock) <= nexttime[t]
<1> DEFINE head == CHOOSE u \in queued : IsMin(u)
<1>1. head \in queued /\ IsMin(head)
  BY MinExists
<1>2. nexttime[head] \in Nat /\ nexttime[t] \in Nat /\ clock \in Nat
  BY <1>1, RangeAssumption DEF TypeOK
<1>3. nexttime[head] <= nexttime[t]
  BY <1>1, <1>2 DEF IsMin, loop_timer_less_than
<1> HIDE DEF head
<1>4. loop_next_timeout(clock) =
        IF nexttime[head] <= clock THEN 0 ELSE Clamp(nexttime[head] - clock)
  BY DEF loop_next_timeout, head
<1> QED
  BY <1>2, <1>3, <1>4, RangeAssumption DEF Clamp, Forever

\* The loop never asks epoll to wait past the first deadline.
THEOREM WaitsKept == Spec => []NeverOversleeps
<1>1. Init => NeverOversleeps
  BY DEF Init, NeverOversleeps
<1>2. TypeOK /\ NeverOversleeps /\ [Next]_vars => NeverOversleeps'
  <2> SUFFICES ASSUME TypeOK, NeverOversleeps, [Next]_vars, pc' \in {"poll", "wait"},
                      NEW t \in queued'
               PROVE  timeout' # Forever /\ (timeout' = 0 \/ time' + timeout' <= nexttime'[t])
    BY DEF NeverOversleeps
  <2>1. CASE EndTimers
    <3>1. t \in queued /\ nexttime' = nexttime /\ time' = clock
          /\ timeout' = loop_next_timeout(clock)
      BY <2>1 DEF EndTimers, timerVars
    <3> QED
      BY <3>1, TimeoutIsSafe
  <2>2. CASE Poll \/ Tick \/ UNCHANGED vars
    BY <2>2 DEF Poll, Tick, vars, loopVars, timerVars, NeverOversleeps
  <2>3. ASSUME NEW u \in Timers, RunTimer(u) PROVE FALSE
    BY <2>3 DEF RunTimer
  <2>4. CASE ClientStep
    BY <2>4 DEF ClientStep, ClientTimerCall, loop_stop, loop_exit, loop_run, InCallback, loopVars
  <2>5. CASE Iterate \/ WaitEnds \/ TimerCallbackReturns \/ IoCallbackReturns \/ IoEvent
    BY <2>5 DEF Iterate, WaitEnds, TimerCallbackReturns, IoCallbackReturns, IoEvent
  <2> QED
    BY <2>1, <2>2, <2>3, <2>4, <2>5 DEF Next, LoopStep
<1> QED
  BY <1>1, <1>2, TypeCorrect, PTL DEF Spec

-----------------------------------------------------------------------------
(* Deadlines.                                                               *)

\* The inductive invariant behind NeverEarly: the cached time is not ahead of
\* the clock, and a deadline is the start plus the timeout, in uint64_t.
Deadlines ==
    /\ time <= clock
    /\ \A t \in queued : nexttime[t] = (Timeout[t] + startedAt[t]) % Modulus

\* Each step keeps Deadlines.
LEMMA DeadlinesStep == TypeOK /\ Deadlines /\ [Next]_vars => Deadlines'
<1> SUFFICES ASSUME TypeOK, Deadlines, [Next]_vars PROVE Deadlines'
  OBVIOUS
<1> USE DEF Deadlines
<1>1. CASE ClientTimerCall
  <2>1. PICK t \in Timers : (\E r \in Repeats : StartTimer(t, r)) \/ StopTimer(t)
    BY <1>1 DEF ClientTimerCall
  <2>2. time' = time /\ clock' = clock
    BY <1>1 DEF ClientTimerCall, loopVars
  <2>3. CASE \E r \in Repeats : StartTimer(t, r)
    BY <2>2, <2>3 DEF StartTimer, TypeOK, Deadline
  <2>4. CASE StopTimer(t)
    BY <2>2, <2>4 DEF StopTimer, Without
  <2> QED
    BY <2>1, <2>3, <2>4
<1>2. ASSUME NEW t \in Timers, RunTimer(t) PROVE Deadlines'
  BY <1>2 DEF RunTimer, TypeOK, Deadline, Without
<1>3. CASE Iterate \/ EndTimers
  BY <1>3 DEF Iterate, EndTimers, timerVars, TypeOK
<1>4. CASE Tick
  BY <1>4 DEF Tick, loopVars, timerVars, TypeOK
<1>5. CASE loop_stop \/ loop_exit \/ loop_run \/ Poll \/ WaitEnds \/ IoEvent
           \/ TimerCallbackReturns \/ IoCallbackReturns \/ UNCHANGED vars
  BY <1>5 DEF loop_stop, loop_exit, loop_run, Poll, WaitEnds, IoEvent,
              TimerCallbackReturns, IoCallbackReturns, vars, loopVars, timerVars
<1> QED
  BY <1>1, <1>2, <1>3, <1>4, <1>5 DEF Next, LoopStep, ClientStep

\* A callback runs no sooner than its timeout after the start, if no deadline
\* wraps around uint64_t.
THEOREM EarlyKept == Spec => NeverEarly
<1> DEFINE OnTime == NoWrap => \A t \in Timers : fired'[t] = fired[t] + 1 /\ pc = "timers" =>
                                 clock >= startedAt[t] + Timeout[t]
<1>1. Init => Deadlines
  BY RangeAssumption DEF Init, Deadlines
<1>2. TypeOK /\ Deadlines /\ [Next]_vars => [OnTime]_vars
  <2> SUFFICES ASSUME TypeOK, Deadlines, NoWrap, [Next]_vars, NEW t \in Timers,
                      fired'[t] = fired[t] + 1, pc = "timers"
               PROVE  clock >= startedAt[t] + Timeout[t]
    OBVIOUS
  <2>1. fired' # fired
    BY DEF TypeOK
  <2>2. PICK u \in Timers : RunTimer(u)
    BY <2>1 DEF Next, LoopStep, ClientStep, ClientTimerCall, InCallback, loop_stop, loop_exit,
                loop_run, Iterate, EndTimers, Poll, WaitEnds, IoEvent, TimerCallbackReturns,
                IoCallbackReturns, Tick, vars, timerVars
  <2>3. t = u /\ t \in queued /\ nexttime[t] <= time
    BY <2>2 DEF RunTimer, IsMin, Due, TypeOK
  <2>4. /\ Timeout[t] \in Nat /\ startedAt[t] \in Nat /\ time \in Nat /\ clock \in Nat
        /\ Modulus \in Nat \ {0} /\ Timeout[t] + startedAt[t] < Modulus
    BY TimersAssumption, RangeAssumption DEF TypeOK, NoWrap
  <2>5. nexttime[t] = Timeout[t] + startedAt[t]
    BY <2>3, <2>4, ModSmall DEF Deadlines
  <2> QED
    BY <2>3, <2>4, <2>5 DEF Deadlines
<1> QED
  BY <1>1, <1>2, DeadlinesStep, TypeCorrect, PTL DEF Spec, NeverEarly

=============================================================================
