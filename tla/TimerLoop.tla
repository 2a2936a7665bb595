----------------------------- MODULE TimerLoop -----------------------------
(* The event loop of core/loop.c with its timers: loop_run, the timer pass, *)
(* the poll with its timeout, and the calls a callback may make.            *)
(*                                                                          *)
(* The clock is CLOCK_MONOTONIC in milliseconds and may advance between any *)
(* two steps; loop->time is the loop's cached reading of it.  The timer     *)
(* heap is the set `queued` with a least element (Heap.tla is the pointer   *)
(* structure behind it); descriptors are only "something can interrupt the  *)
(* wait" (EpollServer.tla has their detail).                                *)
EXTENDS Integers

CONSTANTS
    Timers,      \* loop_timer_t objects
    Timeout,     \* timer->timeout of each, in milliseconds
    StartId,     \* timer->start_id of each, set by the caller
    Repeats,     \* values a caller gives timer->repeat before a start
    Modulus,     \* 2^64, the range of uint64_t
    MaxWait,     \* INT16_MAX, the longest wait asked of epoll
    HasFds,      \* are descriptors registered, i.e. nevents > 0?
    Horizon      \* bound: the clock stops here

ASSUME TimersAssumption ==
    /\ Timeout \in [Timers -> Nat]
    /\ StartId \in [Timers -> Nat]
    /\ Repeats \subseteq Nat

ASSUME RangeAssumption ==
    /\ Modulus \in Nat \ {0}
    /\ MaxWait \in Nat \ {0}
    /\ Horizon \in Nat
    /\ Horizon < Modulus
    /\ \A t \in Timers : Timeout[t] < Modulus

ASSUME HasFdsAssumption == HasFds \in BOOLEAN

Forever == -1    \* the timeout that blocks indefinitely

VARIABLES
    pc,          \* where the loop's thread is
    clock,       \* CLOCK_MONOTONIC
    time,        \* loop->time
    queued,      \* timers in loop->timer_heap
    nexttime,    \* timer->nexttime
    repeat,      \* timer->repeat
    stop_flag,   \* loop->stop_flag
    event,       \* is loop->epollop.event allocated?
    timeout,     \* the argument of ep_io_poll
    wakeAt,      \* when epoll_wait gives up
    life,        \* history: what became of the caller's last start
    startedAt,   \* history: the clock at the last loop_timer_start
    asked,       \* history: repeat at the caller's last start
    fired        \* history: callbacks run since the caller's last start

loopVars  == <<pc, time, stop_flag, event, timeout, wakeAt>>
timerVars == <<queued, nexttime, repeat, life, startedAt, asked, fired>>
vars == <<clock, loopVars, timerVars>>

TypeOK ==
    /\ pc \in {"idle", "main", "timers", "cb", "poll", "wait", "iocb", "crashed"}
    /\ clock \in 0..Horizon
    /\ time \in 0..Horizon
    /\ queued \in SUBSET Timers
    /\ nexttime \in [Timers -> 0..(Modulus - 1)]
    /\ repeat \in [Timers -> Nat]
    /\ stop_flag \in BOOLEAN
    /\ event \in BOOLEAN
    /\ timeout \in Nat \cup {Forever}
    /\ wakeAt \in Nat \cup {Forever}
    /\ life \in [Timers -> {"new", "armed", "stopped", "spent"}]
    /\ startedAt \in [Timers -> 0..Horizon]
    /\ asked \in [Timers -> Nat]
    /\ fired \in [Timers -> Nat]

Init ==
    /\ pc = "idle"
    /\ clock \in 0..Horizon
    /\ time = 0
    /\ queued = {}
    /\ nexttime = [t \in Timers |-> 0]
    /\ repeat = [t \in Timers |-> 0]
    /\ stop_flag = FALSE
    /\ event = TRUE
    /\ timeout = 0
    /\ wakeAt = 0
    /\ life = [t \in Timers |-> "new"]
    /\ startedAt = [t \in Timers |-> 0]
    /\ asked = [t \in Timers |-> 0]
    /\ fired = [t \in Timers |-> 0]

-----------------------------------------------------------------------------
(* The heap's order and the timer operations.                               *)

loop_timer_less_than(a, b) ==
    \/ nexttime[a] < nexttime[b]
    \/ nexttime[a] = nexttime[b] /\ StartId[a] < StartId[b]

\* Mutant: a minimum that looks at start_id only.
IsMinById(t) == t \in queued /\ \A u \in queued : StartId[t] <= StartId[u]

\* heap_min returns t.
IsMin(t) == t \in queued /\ \A u \in queued : ~loop_timer_less_than(u, t)

\* Mutants: the cached time instead of a fresh reading; no timeout added.
DeadlineCached(t) == (Timeout[t] + time) % Modulus
DeadlineNow(t) == clock

\* timer->timeout + loop_timer_mstime(), in uint64_t.
Deadline(t) == (Timeout[t] + clock) % Modulus

\* The heap when t is taken out.
Without(t) == queued \ {t}

\* Mutant: an unconditional `--repeat`.
DecrementBlind(r) == r - 1

\* loop_timer_again: `repeat && --repeat`.
Decrement(r) == IF r > 0 THEN r - 1 ELSE 0

\* Mutant: `repeat-- > 0`.
RestartsOneMore(r) == r > 0

\* The timer goes back into the heap.  Every timer here has a callback: one
\* without is not restarted (loop.c:68), but loop_timer_run calls cb all the
\* same, and that ends the process.
Restarts(r) == r > 1

\* A client calls loop_timer_start on a timer that is not in the heap, with
\* the repeat count it has just set.
StartTimer(t, r) ==
    /\ t \notin queued
    /\ queued' = queued \cup {t}
    /\ nexttime' = [nexttime EXCEPT ![t] = Deadline(t)]
    /\ repeat' = [repeat EXCEPT ![t] = r]
    /\ life' = [life EXCEPT ![t] = "armed"]
    /\ startedAt' = [startedAt EXCEPT ![t] = clock]
    /\ asked' = [asked EXCEPT ![t] = r]
    /\ fired' = [fired EXCEPT ![t] = 0]

\* loop_timer_stop on a timer that is in the heap.
StopTimer(t) ==
    /\ t \in queued
    /\ queued' = Without(t)
    /\ life' = [life EXCEPT ![t] = "stopped"]
    /\ UNCHANGED <<nexttime, repeat, startedAt, asked, fired>>

-----------------------------------------------------------------------------
(* The calls a client makes, before loop_run or inside a callback.          *)

InCallback == pc \in {"idle", "cb", "iocb"}

ClientTimerCall ==
    /\ InCallback
    /\ \E t \in Timers : (\E r \in Repeats : StartTimer(t, r)) \/ StopTimer(t)
    /\ UNCHANGED <<clock, loopVars>>

loop_stop ==
    /\ InCallback
    /\ stop_flag' = TRUE
    /\ UNCHANGED <<clock, pc, time, event, timeout, wakeAt, timerVars>>

\* loop_exit also frees the array epoll_wait fills.
loop_exit ==
    /\ InCallback
    /\ stop_flag' = TRUE
    /\ event' = FALSE
    /\ UNCHANGED <<clock, pc, time, timeout, wakeAt, timerVars>>

-----------------------------------------------------------------------------
(* loop_run.                                                                *)

loop_run ==
    /\ pc = "idle"
    /\ stop_flag' = FALSE
    /\ pc' = "main"
    /\ UNCHANGED <<clock, time, event, timeout, wakeAt, timerVars>>

\* Mutant: the loop goes on while timers are left.
StoppedWhenEmpty == stop_flag /\ queued = {}

\* The condition of the while loop fails.
Stopped == stop_flag

\* The head of the while loop, with the first loop_update_time.
Iterate ==
    /\ pc = "main"
    /\ IF Stopped
       THEN pc' = "idle" /\ UNCHANGED time
       ELSE pc' = "timers" /\ time' = clock
    /\ UNCHANGED <<clock, stop_flag, event, timeout, wakeAt, timerVars>>

Due(t) == nexttime[t] <= time

\* loop_timer_run, one timer: taken out, perhaps put back with a new
\* deadline, then its callback is entered.
RunTimer(t) ==
    /\ pc = "timers"
    /\ IsMin(t)
    /\ Due(t)
    /\ IF Restarts(repeat[t])
       THEN /\ nexttime' = [nexttime EXCEPT ![t] = Deadline(t)]
            /\ startedAt' = [startedAt EXCEPT ![t] = clock]
                    /\ UNCHANGED <<queued, life>>
       ELSE /\ queued' = Without(t)
            /\ life' = [life EXCEPT ![t] = "spent"]
            /\ UNCHANGED <<nexttime, startedAt>>
    /\ repeat' = [repeat EXCEPT ![t] = Decrement(@)]
    /\ fired' = [fired EXCEPT ![t] = @ + 1]
    /\ pc' = "cb"
    /\ UNCHANGED <<clock, time, stop_flag, event, timeout, wakeAt, asked>>

Clamp(d) == IF d > MaxWait THEN MaxWait ELSE d

\* Mutant: the clock is not read again after the callbacks.
loop_next_timeoutStale(now) ==
    IF queued = {} THEN Forever
    ELSE LET first == nexttime[CHOOSE t \in queued : IsMin(t)]
         IN  IF first <= time THEN 0 ELSE Clamp(first - time)

\* loop_next_timeout, when loop->time reads `now`.
loop_next_timeout(now) ==
    IF queued = {} THEN Forever
    ELSE LET first == nexttime[CHOOSE t \in queued : IsMin(t)]
         IN  IF first <= now THEN 0 ELSE Clamp(first - now)

\* No timer is due: the second loop_update_time, and the timeout for the poll.
EndTimers ==
    /\ pc = "timers"
    /\ \A t \in Timers : IsMin(t) => ~Due(t)
    /\ time' = clock
    /\ timeout' = loop_next_timeout(clock)
    /\ pc' = "poll"
    /\ UNCHANGED <<clock, stop_flag, event, wakeAt, timerVars>>

\* ep_io_poll: without an event array or descriptors there is no wait.
Poll ==
    /\ pc = "poll"
    /\ IF event /\ HasFds
       THEN /\ pc' = "wait"
            /\ wakeAt' = IF timeout = Forever THEN Forever ELSE clock + timeout
       ELSE pc' = "main" /\ UNCHANGED wakeAt
    /\ UNCHANGED <<clock, time, stop_flag, event, timeout, timerVars>>

\* epoll_wait times out.  At the horizon no later moment exists to wait for.
WaitEnds ==
    /\ pc = "wait"
    /\ wakeAt # Forever
    /\ clock >= wakeAt \/ clock = Horizon
    /\ pc' = "main"
    /\ UNCHANGED <<clock, time, stop_flag, event, timeout, wakeAt, timerVars>>

\* epoll_wait reports an event and an I/O callback is entered.
IoEvent ==
    /\ pc = "wait"
    /\ pc' = "iocb"
    /\ UNCHANGED <<clock, time, stop_flag, event, timeout, wakeAt, timerVars>>

TimerCallbackReturns ==
    /\ pc = "cb"
    /\ pc' = "timers"
    /\ UNCHANGED <<clock, time, stop_flag, event, timeout, wakeAt, timerVars>>

\* After an I/O callback the dispatch goes on; if the callback freed the event
\* array, reading the next event dereferences NULL, unless none was left.
IoCallbackReturns ==
    /\ pc = "iocb"
    /\ pc' \in IF event THEN {"main"} ELSE {"main", "crashed"}
    /\ UNCHANGED <<clock, time, stop_flag, event, timeout, wakeAt, timerVars>>

Tick ==
    /\ clock < Horizon
    /\ clock' = clock + 1
    /\ UNCHANGED <<loopVars, timerVars>>

-----------------------------------------------------------------------------

LoopStep ==
    \/ Iterate
    \/ \E t \in Timers : RunTimer(t)
    \/ EndTimers
    \/ Poll
    \/ WaitEnds
    \/ TimerCallbackReturns
    \/ IoCallbackReturns

ClientStep == ClientTimerCall \/ loop_stop \/ loop_exit \/ loop_run

Next == LoopStep \/ ClientStep \/ IoEvent \/ Tick

Spec == Init /\ [][Next]_vars

\* Time goes on and the loop's thread runs; callbacks return.  Clients need
\* not call anything and no I/O need ever arrive.
FairSpec == Spec /\ WF_vars(LoopStep) /\ WF_vars(Tick)

-----------------------------------------------------------------------------
(* What the loop promises.                                                  *)

\* No deadline passes the end of uint64_t while the clock is below Horizon.
NoWrap == \A t \in Timers : Timeout[t] + Horizon < Modulus

\* A callback runs no sooner than `timeout` milliseconds after the timer was
\* (re)started, however stale loop->time is, unless its deadline wraps.
NeverEarly ==
    [][NoWrap => \A t \in Timers : fired'[t] = fired[t] + 1 /\ pc = "timers" =>
                   clock >= startedAt[t] + Timeout[t]]_vars

\* A timer started with `repeat` = n runs exactly n times, once for n = 0,
\* unless it is stopped; while it is in the heap the rest is still to come.
FiresAsOften ==
    \A t \in Timers :
      /\ life[t] = "armed" => fired[t] + repeat[t] = asked[t] /\ t \in queued
      /\ life[t] # "armed" => t \notin queued
      /\ life[t] = "spent" => fired[t] = IF asked[t] = 0 THEN 1 ELSE asked[t]

\* The loop never asks epoll to wait past the first deadline, and asks it to
\* wait for ever only when there is no timer at all.
NeverOversleeps ==
    pc \in {"poll", "wait"} =>
      \A t \in queued : timeout # Forever /\ (timeout = 0 \/ time + timeout <= nexttime[t])

\* A deadline that comes is kept: the timer runs or is stopped before long,
\* in a loop that is running and not told to stop.
TimerFires ==
    \A t \in Timers, n \in 0..Horizon :
      (life[t] = "armed" /\ nexttime[t] = n)
        ~> (life[t] # "armed" \/ nexttime[t] # n \/ stop_flag \/ pc = "idle")

\* One timer pass ends even when callbacks keep starting timers, as long as no
\* timeout is below LOOP_TIMER_MIN = 1: it cannot starve the poll.
PassEnds == pc = "timers" ~> pc = "poll"

\* A stop asked for in a callback ends loop_run, unless the loop is parked in
\* an epoll_wait without timeout that no I/O ends, or crashed.
StopsUnlessParked ==
    stop_flag ~> (pc \in {"idle", "crashed"} \/ (pc = "wait" /\ wakeAt = Forever))

-----------------------------------------------------------------------------
(* What the repository says of the program, and the program does not do.    *)

\* loop.c:42: timers with the same timeout are told apart by a start_id that
\* is allocated when a timer is started, i.e. they run in start order.
StartOrderTies ==
    [][\A t \in Timers : fired'[t] = fired[t] + 1 /\ pc = "timers" =>
         \A u \in queued : nexttime[u] = nexttime[t] => startedAt[u] >= startedAt[t]]_vars

=============================================================================
