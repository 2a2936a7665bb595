---------------------------- MODULE ParserProofs ----------------------------
(* parser.c for any number of threads, any keys and any files: whoever has  *)
(* the lock gives it back, and a reader sees one dictionary from its lookup *)
(* to its unlock; what a save wrote is what a start reads, and saving that  *)
(* again writes the same.                                                   *)
(*                                                                          *)
(* The second half is about iniparser_dump_ini and iniparser_load.  A save  *)
(* is the blocks of the sections, in each every entry of it once and in     *)
(* order; a load of such lines puts back what each line was made of; and    *)
(* what is loaded has its entries section by section, the order in which it *)
(* will be saved.                                                           *)
EXTENDS Parser, SequenceTheorems, WellFoundedInduction, TLAPS

\* The variables that hold something for each thread.
PerThread ==
    /\ pc \in [Threads -> {"idle", "lock", "in", "lookup", "open", "unlock"}]
    /\ DOMAIN req = Threads /\ req = [t \in Threads |-> req[t]]
    /\ DOMAIN got = Threads /\ got = [t \in Threads |-> got[t]]

\* A call past its lock step holds the lock the way its operation takes it,
\* and no other call holds it.
Held ==
    /\ readers \subseteq Threads
    /\ writer # NoThread => readers = {}
    /\ \A t \in Threads : pc[t] \in {"idle", "lock"} => t \notin readers /\ writer # t
    /\ \A t \in Threads : pc[t] \in {"in", "lookup", "open", "unlock"} =>
         IF ReadsOnly(req[t].op) THEN t \in readers ELSE writer = t

\* Only a getter looks up, in a dictionary that is there; only a writer has
\* the file open; what a getter returns is not set before its lookup.
Getting ==
    /\ \A t \in Threads : pc[t] = "lookup" => ReadsOnly(req[t].op) /\ ini # NULL
    /\ \A t \in Threads : pc[t] = "open" => ~ReadsOnly(req[t].op)
    /\ \A t \in Threads : pc[t] # "unlock" => got[t] = NoValue

IInv == PerThread /\ Held /\ Getting /\ RightValue

LEMMA Initially == Init => IInv
  BY ThreadsAssumption DEF Init, IInv, PerThread, Held, Getting, RightValue

LEMMA RestartKeeps == IInv /\ Restart => IInv'
  BY ThreadsAssumption DEF Restart, IInv, PerThread, Held, Getting, RightValue

LEMMA CallKeeps == ASSUME NEW t \in Threads, IInv, Call(t) PROVE IInv'
<1>1. PICK r \in Requests : req' = [req EXCEPT ![t] = r]
  BY DEF Call
<1>2. pc[t] = "idle" /\ pc' = [pc EXCEPT ![t] = "lock"]
  BY DEF Call
<1>3. UNCHANGED <<readers, writer, ini, mixed, got>>
  BY DEF Call
<1>4. PerThread'
  BY <1>1, <1>2, <1>3 DEF IInv, PerThread
<1>5. Held'
  BY <1>1, <1>2, <1>3 DEF IInv, PerThread, Held, ReadsOnly
<1>6. Getting'
  BY <1>1, <1>2, <1>3 DEF IInv, PerThread, Getting, ReadsOnly
<1>7. RightValue'
  BY <1>1, <1>2, <1>3 DEF IInv, PerThread, Held, RightValue
<1>. QED
  BY <1>4, <1>5, <1>6, <1>7 DEF IInv

LEMMA LockKeeps == ASSUME NEW t \in Threads, IInv, Lock(t) PROVE IInv'
<1>1. /\ pc[t] = "lock"
      /\ pc' = [pc EXCEPT ![t] = IF req[t].op = "noflush" THEN "unlock" ELSE "in"]
      /\ writer = NoThread
      /\ UNCHANGED <<req, ini, mixed, got>>
  BY DEF Lock
<1>2. PerThread'
  BY <1>1 DEF IInv, PerThread
<1>3. CASE ReadsOnly(req[t].op)
  <2>1. readers' = readers \cup {t} /\ writer' = writer
    BY <1>3 DEF Lock
  <2>2. pc' = [pc EXCEPT ![t] = "in"]
    BY <1>1, <1>3 DEF ReadsOnly
  <2>3. Held'
    BY <1>1, <1>3, <2>1, <2>2, ThreadsAssumption DEF IInv, PerThread, Held
  <2>4. Getting' /\ RightValue'
    BY <1>1, <1>3, <2>1, <2>2 DEF IInv, PerThread, Getting, RightValue
  <2>. QED
    BY <1>2, <2>3, <2>4 DEF IInv
<1>4. CASE ~ReadsOnly(req[t].op)
  <2>1. readers = {} /\ readers' = {} /\ writer' = t
    BY <1>4 DEF Lock
  <2>2. Held'
    BY <1>1, <1>4, <2>1, ThreadsAssumption DEF IInv, PerThread, Held
  <2>3. Getting' /\ RightValue'
    BY <1>1, <1>4, <2>1 DEF IInv, PerThread, Getting, RightValue
  <2>. QED
    BY <1>2, <2>2, <2>3 DEF IInv
<1>. QED
  BY <1>3, <1>4

LEMMA UnlockKeeps == ASSUME NEW t \in Threads, IInv, trd_rwlock_unlock(t) PROVE IInv'
<1>1. /\ pc[t] = "unlock"
      /\ pc' = [pc EXCEPT ![t] = "idle"]
      /\ readers' = readers \ {t}
      /\ writer' = IF writer = t THEN NoThread ELSE writer
      /\ req' = [req EXCEPT ![t] = NoFlush]
      /\ got' = [got EXCEPT ![t] = NoValue]
      /\ mixed' = mixed \ {t}
      /\ ini' = ini
  BY DEF trd_rwlock_unlock
<1>2. PerThread'
  BY <1>1 DEF IInv, PerThread
<1>3. Held'
  BY <1>1, ThreadsAssumption DEF IInv, PerThread, Held
<1>4. Getting'
  BY <1>1 DEF IInv, PerThread, Getting
<1>5. RightValue'
  BY <1>1 DEF IInv, PerThread, Held, RightValue
<1>. QED
  BY <1>2, <1>3, <1>4, <1>5 DEF IInv

\* What Work does, and who holds the lock meanwhile.
LEMMA Working ==
    ASSUME NEW t \in Threads, NEW op, NEW next, IInv, Work(t, op, next)
    PROVE  /\ pc[t] = "in" /\ req[t].op = op /\ pc' = [pc EXCEPT ![t] = next]
           /\ UNCHANGED <<req, readers, writer>>
           /\ IF ReadsOnly(op) THEN t \in readers ELSE writer = t /\ readers = {}
  BY ThreadsAssumption DEF Work, IInv, PerThread, Held

LEMMA strlwcKeeps == ASSUME NEW t \in Threads, IInv, strlwc(t) PROVE IInv'
<1>1. Work(t, "get", IF ini = NULL THEN "unlock" ELSE "lookup") /\ ini' = ini /\ got' = got
  BY DEF strlwc
<1>2. /\ pc[t] = "in" /\ req[t].op = "get"
      /\ pc' = [pc EXCEPT ![t] = IF ini = NULL THEN "unlock" ELSE "lookup"]
      /\ UNCHANGED <<req, readers, writer>>
  BY <1>1, Working
<1>3. \A u \in Threads : u \in mixed /\ u # t => u \in mixed'
  BY DEF strlwc
<1>4. PerThread' /\ Held'
  BY <1>1, <1>2 DEF IInv, PerThread, Held
<1>5. Getting'
  BY <1>1, <1>2 DEF IInv, PerThread, Getting, ReadsOnly
<1>6. RightValue'
  <2>. SUFFICES ASSUME NEW u \in readers' \ mixed', pc'[u] = "unlock"
                PROVE  got'[u] = IF ini = NULL THEN NoValue
                                 ELSE iniparser_getstring(ini, req[u].key, NoValue)
    BY <1>1, <1>2 DEF RightValue
  <2>1. u \in Threads
    BY <1>2 DEF IInv, Held
  <2>2. CASE u = t
    BY <1>1, <1>2, <2>2, <2>1 DEF IInv, PerThread, Getting
  <2>3. CASE u # t
    BY <1>1, <1>2, <1>3, <2>1, <2>3 DEF IInv, PerThread, RightValue
  <2>. QED
    BY <2>2, <2>3
<1>. QED
  BY <1>4, <1>5, <1>6 DEF IInv

LEMMA LookupKeeps == ASSUME NEW t \in Threads, IInv, Lookup(t) PROVE IInv'
<1>1. /\ pc[t] = "lookup"
      /\ pc' = [pc EXCEPT ![t] = "unlock"]
      /\ UNCHANGED <<req, readers, writer, ini, mixed>>
  BY DEF Lookup
<1>2. PICK v : /\ got' = [got EXCEPT ![t] = v]
               /\ t \notin mixed => v = iniparser_getstring(ini, req[t].key, NoValue)
  BY DEF Lookup
<1>3. ini # NULL
  BY <1>1 DEF IInv, Getting
<1>4. PerThread' /\ Held' /\ Getting'
  BY <1>1, <1>2 DEF IInv, PerThread, Held, Getting
<1>5. RightValue'
  <2>. SUFFICES ASSUME NEW u \in readers \ mixed, pc'[u] = "unlock"
                PROVE  got'[u] = iniparser_getstring(ini, req[u].key, NoValue)
    BY <1>1, <1>3 DEF RightValue
  <2>1. u \in Threads
    BY DEF IInv, Held
  <2>2. CASE u = t
    BY <1>2, <2>1, <2>2 DEF IInv, PerThread
  <2>3. CASE u # t
    BY <1>1, <1>2, <1>3, <2>1, <2>3 DEF IInv, PerThread, RightValue
  <2>. QED
    BY <2>2, <2>3
<1>. QED
  BY <1>4, <1>5 DEF IInv

\* A step of a writer: whatever it does to the dictionary, no reader is there.
LEMMA WriterKeeps ==
    ASSUME NEW t \in Threads, NEW next, IInv,
           writer = t, readers = {}, pc[t] \in {"in", "open"}, ~ReadsOnly(req[t].op),
           next \in {"open", "unlock"},
           pc' = [pc EXCEPT ![t] = next],
           UNCHANGED <<req, readers, writer, got>>
    PROVE  IInv'
<1>1. PerThread' /\ Held'
  BY DEF IInv, PerThread, Held
<1>2. \A u \in Threads : pc[u] # "lookup"
  BY DEF IInv, Held, Getting
<1>3. Getting'
  BY <1>2 DEF IInv, PerThread, Getting
<1>4. RightValue'
  BY DEF RightValue
<1>. QED
  BY <1>1, <1>3, <1>4 DEF IInv

LEMMA WritersKeep ==
    ASSUME NEW t \in Threads, IInv,
           parser_setstr(t) \/ parser_exit(t) \/ OpenFile(t) \/ WriteFile(t)
    PROVE  IInv'
<1>1. CASE parser_setstr(t)
  BY <1>1, Working, WriterKeeps DEF parser_setstr, ReadsOnly
<1>2. CASE parser_exit(t)
  BY <1>2, Working, WriterKeeps DEF parser_exit, ReadsOnly
<1>3. CASE OpenFile(t)
  BY <1>3, Working, WriterKeeps DEF OpenFile, AfterFailedOpen, ReadsOnly
<1>4. CASE WriteFile(t)
  <2>1. pc[t] = "open" /\ pc' = [pc EXCEPT ![t] = "unlock"]
        /\ UNCHANGED <<req, readers, writer, got>>
    BY <1>4 DEF WriteFile
  <2>2. ~ReadsOnly(req[t].op) /\ writer = t
    BY <2>1 DEF IInv, Held, Getting
  <2>3. readers = {}
    BY <2>2, ThreadsAssumption DEF IInv, Held
  <2>. QED
    BY <2>1, <2>2, <2>3, WriterKeeps
<1>. QED
  BY <1>1, <1>2, <1>3, <1>4

LEMMA Stuttering == IInv /\ UNCHANGED vars => IInv'
  BY DEF vars, IInv, PerThread, Held, Getting, RightValue

LEMMA StepKeeps == IInv /\ [Next]_vars => IInv'
<1>. SUFFICES ASSUME IInv, [Next]_vars PROVE IInv'
  OBVIOUS
<1>1. CASE Restart
  BY <1>1, RestartKeeps
<1>2. ASSUME NEW t \in Threads, Call(t) \/ Lock(t) PROVE IInv'
  BY <1>2, CallKeeps, LockKeeps
<1>3. ASSUME NEW t \in Threads, Inside(t) PROVE IInv'
  BY <1>3, strlwcKeeps, LookupKeeps, WritersKeep, UnlockKeeps DEF Inside
<1>4. CASE UNCHANGED vars
  BY <1>4, Stuttering
<1>. QED
  BY <1>1, <1>2, <1>3, <1>4 DEF Next

LEMMA Always == Spec => []IInv
  BY Initially, StepKeeps, PTL DEF Spec

\* The lock is given back on every path of every call, a failed fopen
\* included, and a writer is alone, for any number of threads.
THEOREM LockKept == Spec => []LockBalanced
<1>1. IInv => LockBalanced
  BY DEF IInv, PerThread, Held, LockBalanced
<1>. QED
  BY <1>1, Always, PTL

\* A getter whose key was not overwritten returns what its key has in the
\* dictionary, until it unlocks: no set, exit or flush comes in between.
THEOREM ReadersAreRight == Spec => []RightValue
<1>1. IInv => RightValue
  BY DEF IInv
<1>. QED
  BY <1>1, Always, PTL

-----------------------------------------------------------------------------
(* What goes over a sequence from its start.                                *)

\* A set of natural numbers that is not empty has a least element.
LEMMA LeastNat ==
    ASSUME NEW S \in SUBSET Nat, S # {}
    PROVE  \E m \in S : \A n \in S : m <= n
<1>1. PICK m \in S : \A n \in S : ~ (<<n, m>> \in OpToRel(<, Nat))
  BY NatLessThanWellFounded, WFMin
<1>2. \A n \in S : ~ (n < m)
  BY <1>1 DEF OpToRel
<1>. QED
  BY <1>2

\* A set that holds 0 and, with a number, the next one up to n, holds them all.
LEMMA UpTo ==
    ASSUME NEW n \in Nat, NEW S, 0 \in S, \A i \in 1..n : i - 1 \in S => i \in S
    PROVE  \A i \in 0..n : i \in S
<1>. DEFINE missing == {i \in 0..n : i \notin S}
<1>1. SUFFICES ASSUME missing # {} PROVE FALSE
  OBVIOUS
<1>2. missing \in SUBSET Nat
  OBVIOUS
<1>3. PICK m \in missing : \A i \in missing : m <= i
  BY <1>1, <1>2, LeastNat
<1>4. m # 0 /\ m \in 0..n /\ m \notin S
  BY <1>3
<1>5. m \in 1..n /\ m - 1 \in 0..n /\ m - 1 \notin missing
  BY <1>3, <1>4
<1>. QED
  BY <1>4, <1>5

\* The results of n steps, from h, one after the other.
Runs(S, B, h, n) ==
    {t \in [0..n -> S] : t[0] = h /\ \A i \in 1..n : t[i] = B[<<t[i - 1], i>>]}

\* Steps that keep within S can be taken one after the other.
LEMMA RunsExist ==
    ASSUME NEW S, NEW n \in Nat, NEW B \in [S \X (1..n) -> S], NEW h \in S
    PROVE  Runs(S, B, h, n) # {}
<1>. DEFINE good == {m \in 0..n : Runs(S, B, h, m) # {}}
<1>1. 0 \in good
  <2>. DEFINE t == [i \in 0..0 |-> h]
  <2>1. t \in [0..0 -> S] /\ t[0] = h /\ 0 \in 0..n /\ 1..0 = {}
    OBVIOUS
  <2>. HIDE DEF t
  <2>. QED
    BY <2>1 DEF Runs
<1>2. ASSUME NEW m \in 1..n, m - 1 \in good PROVE m \in good
  <2>1. PICK t \in [0..(m - 1) -> S] : t[0] = h /\ \A i \in 1..(m - 1) : t[i] = B[<<t[i - 1], i>>]
    BY <1>2 DEF Runs
  <2>2. PICK next \in S : next = B[<<t[m - 1], m>>]
    OBVIOUS
  <2>. DEFINE u == [i \in 0..m |-> IF i = m THEN next ELSE t[i]]
  <2>3. u \in [0..m -> S] /\ u[0] = h
    BY <2>1
  <2>4. ASSUME NEW i \in 1..m PROVE u[i] = B[<<u[i - 1], i>>]
    <3>1. CASE i = m
      <4>1. u[m] = next /\ u[m - 1] = t[m - 1]
        OBVIOUS
      <4>. QED
        BY <2>2, <3>1, <4>1
    <3>2. CASE i # m
      <4>1. i \in 1..(m - 1) /\ u[i] = t[i] /\ u[i - 1] = t[i - 1]
        BY <3>2
      <4>. QED
        BY <2>1, <4>1
    <3>. QED
      BY <3>1, <3>2
  <2>. HIDE DEF u
  <2>. QED
    BY <2>3, <2>4 DEF Runs
<1>. HIDE DEF good
<1>3. \A i \in 0..n : i \in good
  BY <1>1, <1>2, UpTo
<1>. QED
  BY <1>3 DEF good

\* Selected goes over the entries and takes those of the slots S.
LEMMA SelectedSteps ==
    ASSUME NEW E, NEW d \in Seq(E), NEW S
    PROVE  \E u \in [0..Len(d) -> Seq(E)] :
             /\ u[0] = <<>> /\ Selected(d, S) = u[Len(d)]
             /\ \A i \in 1..Len(d) : u[i] = IF i \in S THEN Append(u[i - 1], d[i]) ELSE u[i - 1]
<1>. DEFINE n == Len(d)
            B == [x \in Seq(E) \X (1..n) |-> IF x[2] \in S THEN Append(x[1], d[x[2]]) ELSE x[1]]
            Step(t) == [i \in 0..n |->
                          IF i = 0 THEN <<>>
                          ELSE IF i \in S THEN Append(t[i - 1], d[i]) ELSE t[i - 1]]
            u == CHOOSE t : t = Step(t)
<1>1. n \in Nat /\ \A i \in 1..n : d[i] \in E
  BY LenProperties, ElementOfSeq
<1>2. <<>> \in Seq(E) /\ \A s \in Seq(E) : \A i \in 1..n : Append(s, d[i]) \in Seq(E)
  BY <1>1, AppendProperties, EmptySeq
<1>3. B \in [Seq(E) \X (1..n) -> Seq(E)]
  BY <1>2
<1>4. PICK t \in [0..n -> Seq(E)] : t[0] = <<>> /\ \A i \in 1..n : t[i] = B[<<t[i - 1], i>>]
  <2>. HIDE DEF B, n
  <2>1. Runs(Seq(E), B, <<>>, n) # {}
    BY <1>1, <1>2, <1>3, RunsExist
  <2>. QED
    BY <2>1 DEF Runs
<1>5. \A i \in 1..n : t[i] = IF i \in S THEN Append(t[i - 1], d[i]) ELSE t[i - 1]
  <2>1. \A i \in 1..n : i - 1 \in 0..n
    BY <1>1
  <2>. QED
    BY <1>1, <1>4, <2>1
<1>6. t = Step(t)
  <2>1. \A i \in 0..n : i # 0 => i \in 1..n
    BY <1>1
  <2>. QED
    BY <1>4, <1>5, <2>1
<1>7. u = Step(u)
  <2>. HIDE DEF Step
  <2>. QED
    BY <1>6
<1>. HIDE DEF u
<1>8. Selected(d, S) = u[n]
  BY DEF Selected, u
<1>9. u[0] = <<>> /\ \A i \in 1..n : u[i] = IF i \in S THEN Append(u[i - 1], d[i]) ELSE u[i - 1]
  <2>1. n \in Nat /\ 0 \in 0..n /\ \A i \in 1..n : i \in 0..n /\ i # 0
    BY <1>1
  <2>. HIDE DEF n
  <2>. QED
    BY <1>7, <2>1
<1>. HIDE DEF n
<1>10. \A i \in 0..n : u[i] \in Seq(E)
  <2>. DEFINE typed == {i \in 0..n : u[i] \in Seq(E)}
  <2>1. 0 \in typed
    <3>1. u[0] \in Seq(E) /\ 0 \in 0..n
      <4>1. u[0] = <<>>
        BY <1>9
      <4>. QED
        BY <1>1, <1>2, <4>1
    <3>. QED
      BY <3>1
  <2>2. ASSUME NEW i \in 1..n, i - 1 \in typed PROVE i \in typed
    <3>1. i \in 0..n /\ u[i - 1] \in Seq(E)
      BY <1>1, <2>2
    <3>2. Append(u[i - 1], d[i]) \in Seq(E)
      BY <1>2, <3>1
    <3>. QED
      BY <1>9, <3>1, <3>2
  <2>. HIDE DEF typed
  <2>3. \A i \in 0..n : i \in typed
    BY <1>1, <2>1, <2>2, UpTo
  <2>. QED
    BY <2>3 DEF typed
<1>11. u \in [0..n -> Seq(E)]
  BY <1>7, <1>10
<1>. QED
  BY <1>8, <1>9, <1>11 DEF n

\* s is the entries of the slots S of d in their order.
InOrder(d, S, s) ==
    \E at \in [1..Len(s) -> S] :
      /\ \A i \in 1..Len(s) : s[i] = d[at[i]]
      /\ \A i, j \in 1..Len(s) : i < j => at[i] < at[j]
      /\ \A k \in S : \E i \in 1..Len(s) : at[i] = k

\* What Selected takes is the entries of the slots S in their order.
LEMMA SelectedPlaces ==
    ASSUME NEW E, NEW d \in Seq(E), NEW S \in SUBSET (1..Len(d))
    PROVE  Selected(d, S) \in Seq(E) /\ InOrder(d, S, Selected(d, S))
<1>. DEFINE n == Len(d)
            Places(s, l, m) ==
              \E at \in [1..l -> {k \in S : k <= m}] :
                /\ \A i \in 1..l : s[i] = d[at[i]]
                /\ \A i, j \in 1..l : i < j => at[i] < at[j]
                /\ \A k \in S : k <= m => \E i \in 1..l : at[i] = k
<1>1. n \in Nat /\ \A i \in 1..n : d[i] \in E
  BY LenProperties, ElementOfSeq
<1>2. PICK u \in [0..n -> Seq(E)] :
        /\ u[0] = <<>> /\ Selected(d, S) = u[n]
        /\ \A i \in 1..n : u[i] = IF i \in S THEN Append(u[i - 1], d[i]) ELSE u[i - 1]
  BY SelectedSteps
<1>3. \A k \in S : k \in 1..n
  OBVIOUS
<1>. HIDE DEF n
<1>. DEFINE good == {m \in 0..n : Places(u[m], Len(u[m]), m)}
<1>4. 0 \in good
  <2>1. Len(u[0]) = 0 /\ 1..0 = {} /\ {k \in S : k <= 0} = {}
    <3>1. \A k \in S : ~(k <= 0)
      BY <1>3
    <3>2. Len(u[0]) = 0
      BY <1>2, EmptySeq
    <3>3. {k \in S : k <= 0} = {}
      BY <3>1
    <3>4. 1..0 = {}
      OBVIOUS
    <3>. QED
      BY <3>2, <3>3, <3>4
  <2>. DEFINE none == [i \in {} |-> 0]
  <2>2. none \in [{} -> {}]
    OBVIOUS
  <2>. HIDE DEF none
  <2>3. \A k \in S : ~(k <= 0)
    BY <1>3
  <2>4. Places(u[0], Len(u[0]), 0)
    BY <2>1, <2>2, <2>3
  <2>5. 0 \in 0..n
    BY <1>1
  <2>. HIDE DEF Places
  <2>. QED
    BY <2>4, <2>5
<1>5. ASSUME NEW m \in 1..n, m - 1 \in good PROVE m \in good
  <2>1. m - 1 \in 0..n /\ m \in 0..n /\ u[m - 1] \in Seq(E) /\ d[m] \in E
    BY <1>1, <1>2
  <2>2. PICK s : s = u[m - 1]
    OBVIOUS
  <2>3. PICK l \in Nat : l = Len(s)
    BY <2>1, <2>2, LenProperties
  <2>9. Places(s, l, m - 1)
    <3>. HIDE DEF Places
    <3>. QED
      BY <1>5, <2>2, <2>3
  <2>4. PICK at \in [1..l -> {k \in S : k <= m - 1}] :
                /\ \A i \in 1..l : s[i] = d[at[i]]
                /\ \A i, j \in 1..l : i < j => at[i] < at[j]
                /\ \A k \in S : k <= m - 1 => \E i \in 1..l : at[i] = k
    BY <2>9
  <2>5. \A k \in S : k <= m => k <= m - 1 \/ k = m
    BY <1>3
  <2>8. \A i \in 1..l : at[i] \in S /\ at[i] \in 1..n /\ at[i] <= m - 1 /\ at[i] <= m
    <3>1. \A i \in 1..l : at[i] \in S /\ at[i] <= m - 1
      BY <2>4
    <3>2. \A k \in S : k \in 1..n /\ (k <= m - 1 => k <= m)
      BY <1>3
    <3>. QED
      BY <3>1, <3>2
  <2>6. CASE m \notin S
    <3>1. u[m] = s
      BY <1>2, <2>2, <2>6
    <3>2. {k \in S : k <= m - 1} = {k \in S : k <= m}
      <4>1. \A k \in S : k <= m - 1 <=> k <= m
        BY <1>3, <2>6
      <4>. QED
        BY <4>1
    <3>3. Places(s, l, m)
      BY <2>4, <2>5, <2>6, <3>2
    <3>. HIDE DEF Places
    <3>. QED
      BY <2>1, <2>3, <3>1, <3>3
  <2>7. CASE m \in S
    <3>1. PICK new : new = Append(s, d[m])
      OBVIOUS
    <3>2. u[m] = new
      BY <1>2, <2>2, <2>7, <3>1
    <3>3. /\ Len(new) = l + 1 /\ new[l + 1] = d[m]
          /\ \A i \in 1..l : new[i] = s[i]
      BY <2>1, <2>2, <2>3, <3>1, AppendProperties
    <3>. DEFINE more == [i \in 1..(l + 1) |-> IF i = l + 1 THEN m ELSE at[i]]
    <3>4. \A i \in 1..(l + 1) : i = l + 1 \/ (i \in 1..l /\ i # l + 1)
      OBVIOUS
    <3>5. more \in [1..(l + 1) -> {k \in S : k <= m}]
      <4>1. m \in {k \in S : k <= m}
        BY <2>7
      <4>2. \A i \in 1..l : at[i] \in {k \in S : k <= m}
        BY <2>8
      <4>. QED
        BY <3>4, <4>1, <4>2
    <3>6. more[l + 1] = m /\ \A i \in 1..l : more[i] = at[i]
      OBVIOUS
    <3>. HIDE DEF more
    <3>7. \A i \in 1..(l + 1) : new[i] = d[more[i]]
      BY <2>4, <3>3, <3>4, <3>6
    <3>8. ASSUME NEW i \in 1..(l + 1), NEW j \in 1..(l + 1), i < j
          PROVE  more[i] < more[j]
      <4>1. i \in 1..l
        BY <3>8
      <4>2. CASE j = l + 1
        <5>1. at[i] \in Nat /\ at[i] <= m - 1
          BY <2>8, <4>1
        <5>. QED
          BY <3>6, <4>1, <4>2, <5>1
      <4>3. CASE j # l + 1
        BY <2>4, <3>4, <3>6, <3>8, <4>1, <4>3
      <4>. QED
        BY <4>2, <4>3
    <3>9. \A k \in S : k <= m => \E i \in 1..(l + 1) : more[i] = k
      <4>1. l + 1 \in 1..(l + 1) /\ \A i \in 1..l : i \in 1..(l + 1)
        OBVIOUS
      <4>. QED
        BY <2>4, <2>5, <3>6, <4>1
    <3>10. Places(new, l + 1, m)
      BY <3>5, <3>7, <3>8, <3>9
    <3>. HIDE DEF Places
    <3>. QED
      BY <2>1, <3>2, <3>3, <3>10
  <2>. QED
    BY <2>6, <2>7
<1>6. n \in good
  <2>. HIDE DEF good
  <2>1. \A i \in 0..n : i \in good
    BY <1>1, <1>4, <1>5, UpTo
  <2>. QED
    BY <1>1, <2>1
<1>7. {k \in S : k <= n} = S /\ \A k \in S : k <= n
  <2>1. \A k \in S : k <= n
    BY <1>1, <1>3
  <2>. QED
    BY <2>1
<1>8. Selected(d, S) \in Seq(E)
  BY <1>1, <1>2
<1>9. Places(Selected(d, S), Len(Selected(d, S)), n)
  <2>. HIDE DEF Places
  <2>. QED
    BY <1>2, <1>6
<1>. HIDE DEF good
<1>. QED
  BY <1>7, <1>8, <1>9 DEF InOrder

\* FlattenSeq joins one sequence after the other.
LEMMA FlattenSteps ==
    ASSUME NEW E, NEW q \in Seq(Seq(E)), q # <<>>
    PROVE  \E u \in [1..Len(q) -> Seq(E)] :
             /\ u[1] = q[1] /\ FlattenSeq(q) = u[Len(q)]
             /\ \A i \in 2..Len(q) : u[i] = u[i - 1] \o q[i]
<1>. DEFINE n == Len(q)
            B == [x \in Seq(E) \X (1..(n - 1)) |-> x[1] \o q[x[2] + 1]]
            Step(t) == [i \in 1..n |-> IF i = 1 THEN q[i] ELSE t[i - 1] \o q[i]]
            u == CHOOSE t : t = Step(t)
<1>1. n \in Nat /\ n # 0 /\ \A i \in 1..n : q[i] \in Seq(E)
  BY LenProperties, ElementOfSeq, EmptySeq
<1>2. \A s \in Seq(E) : \A i \in 1..n : s \o q[i] \in Seq(E)
  BY <1>1, ConcatProperties
<1>3. B \in [Seq(E) \X (1..(n - 1)) -> Seq(E)]
  <2>1. \A i \in 1..(n - 1) : i + 1 \in 1..n
    BY <1>1
  <2>2. \A s \in Seq(E) : \A i \in 1..(n - 1) : s \o q[i + 1] \in Seq(E)
    BY <1>2, <2>1
  <2>. HIDE DEF n
  <2>. QED
    BY <2>2
<1>4. PICK t \in [0..(n - 1) -> Seq(E)] :
        t[0] = q[1] /\ \A i \in 1..(n - 1) : t[i] = B[<<t[i - 1], i>>]
  <2>0. n - 1 \in Nat /\ q[1] \in Seq(E)
    BY <1>1
  <2>. HIDE DEF B, n
  <2>1. Runs(Seq(E), B, q[1], n - 1) # {}
    BY <1>3, <2>0, RunsExist
  <2>. QED
    BY <2>1 DEF Runs
<1>5. \A i \in 1..(n - 1) : t[i] = t[i - 1] \o q[i + 1]
  <2>1. \A i \in 1..(n - 1) : i - 1 \in 0..(n - 1)
    BY <1>1
  <2>2. \A i \in 1..(n - 1) : <<t[i - 1], i>> \in Seq(E) \X (1..(n - 1))
    BY <1>4, <2>1
  <2>. HIDE DEF n
  <2>. QED
    BY <1>4, <2>2
<1>. DEFINE w == [i \in 1..n |-> t[i - 1]]
<1>6. w = Step(w)
  <2>1. \A i \in 1..n : i # 1 => i - 1 \in 1..n /\ i - 1 \in 1..(n - 1) /\ (i - 1) + 1 = i
    BY <1>1
  <2>2. \A i \in 1..n : i # 1 => w[i] = w[i - 1] \o q[i]
    <3>. SUFFICES ASSUME NEW i \in 1..n, i # 1 PROVE w[i] = w[i - 1] \o q[i]
      OBVIOUS
    <3>. HIDE DEF n
    <3>. QED
      BY <1>5, <2>1
  <2>3. w[1] = q[1] /\ 1 \in 1..n
    BY <1>1, <1>4
  <2>. HIDE DEF n
  <2>. QED
    BY <2>2, <2>3
<1>7. u = Step(u)
  <2>. HIDE DEF Step
  <2>. QED
    BY <1>6
<1>. HIDE DEF u
<1>8. FlattenSeq(q) = u[n]
  BY <1>1 DEF FlattenSeq, u
<1>9. u[1] = q[1] /\ \A i \in 2..n : u[i] = u[i - 1] \o q[i]
  <2>1. n \in Nat /\ 1 \in 1..n /\ \A i \in 2..n : i \in 1..n /\ i # 1
    BY <1>1
  <2>. HIDE DEF n
  <2>. QED
    BY <1>7, <2>1
<1>. HIDE DEF n
<1>10. \A i \in 0..(n - 1) : u[i + 1] \in Seq(E)
  <2>. DEFINE typed == {i \in 0..(n - 1) : u[i + 1] \in Seq(E)}
  <2>1. 0 \in typed
    <3>1. u[0 + 1] \in Seq(E)
      <4>1. q[1] \in Seq(E)
        BY <1>1
      <4>. QED
        BY <1>9, <4>1
    <3>. QED
      BY <1>1, <3>1
  <2>2. ASSUME NEW i \in 1..(n - 1), i - 1 \in typed PROVE i \in typed
    <3>1. i + 1 \in 2..n /\ (i + 1) - 1 = i /\ (i - 1) + 1 = i /\ i + 1 \in 1..n
      BY <1>1
    <3>2. u[i] \in Seq(E) /\ u[i + 1] = u[i] \o q[i + 1]
      BY <1>9, <2>2, <3>1
    <3>3. u[i + 1] \in Seq(E)
      BY <1>2, <3>1, <3>2
    <3>. QED
      BY <1>1, <3>3
  <2>. HIDE DEF typed
  <2>3. \A i \in 0..(n - 1) : i \in typed
    <3>1. n - 1 \in Nat
      BY <1>1
    <3>. QED
      BY <2>1, <2>2, <3>1, UpTo
  <2>. QED
    BY <2>3 DEF typed
<1>11. u \in [1..n -> Seq(E)]
  <2>1. \A i \in 1..n : i - 1 \in 0..(n - 1) /\ (i - 1) + 1 = i
    BY <1>1
  <2>2. \A i \in 1..n : u[i] \in Seq(E)
    BY <1>10, <2>1
  <2>. QED
    BY <1>7, <2>2
<1>. QED
  BY <1>8, <1>9, <1>11 DEF n

-----------------------------------------------------------------------------
(* What a save writes.                                                      *)

\* The dictionaries there are: no key twice, no empty name.
Good(d) ==
    /\ d \in Seq(Entry)
    /\ \A i \in 1..Len(d) : d[i].key \in EntryKeys
    /\ \A i, j \in 1..Len(d) : d[i].key = d[j].key => i = j

\* The line of an entry, and its section.
LineOf(e) == IF IsSection(e) THEN SectionLine(e.key[1]) ELSE EntryLine(e)

\* L[p] is the line of entry own[p].
Copies(d, L, own) ==
    /\ L \in Seq(Lines)
    /\ own \in [1..Len(L) -> 1..Len(d)]
    /\ \A p \in 1..Len(L) : L[p] = LineOf(d[own[p]])

LEMMA KeyParts ==
    ASSUME NEW d, Good(d), NEW i \in 1..Len(d)
    PROVE  /\ d[i] \in Entry /\ d[i].key \in Keys /\ d[i].cmt \in Texts
           /\ d[i].val \in Texts \cup {NULL}
           /\ Len(d[i].key) \in Nat \ {0} /\ d[i].key[1] \in Names \cup {Root}
           /\ IsSection(d[i]) => d[i].key = <<d[i].key[1]>> /\ d[i].key[1] \in Names
<1>1. d[i] \in Entry
  BY ElementOfSeq DEF Good
<1>2. /\ d[i].key \in Keys /\ d[i].cmt \in Texts /\ d[i].val \in Texts \cup {NULL}
      /\ d[i].key # <<>> /\ d[i].key # <<Root>>
  BY <1>1 DEF Entry, Good, EntryKeys, Named
<1>3. PICK k \in Seq(Names \cup {Root}) : k = d[i].key
  BY <1>2 DEF Keys
<1>4. Len(k) \in Nat \ {0}
  BY <1>2, <1>3, EmptySeq
<1>5. k[1] \in Names \cup {Root}
  BY <1>4, ElementOfSeq
<1>6. Len(k) = 1 => k = <<k[1]>> /\ k[1] \in Names
  <2>1. Len(k) = 1 => k = <<k[1]>>
    BY <1>5, SeqEqual
  <2>. QED
    BY <1>2, <1>3, <1>5, <2>1
<1>. QED
  BY <1>1, <1>2, <1>3, <1>4, <1>5, <1>6 DEF IsSection

\* A line that is saved is one a load can read.
LEMMA LineTyped ==
    ASSUME NEW d, Good(d), NEW i \in 1..Len(d)
    PROVE  LineOf(d[i]) \in Lines
<1>1. /\ d[i] \in Entry /\ d[i].key \in Keys /\ d[i].cmt \in Texts
      /\ Len(d[i].key) \in Nat \ {0} /\ d[i].key[1] \in Names \cup {Root}
  BY KeyParts
<1>2. <<>> \in Texts /\ <<>> \in Keys
  BY EmptySeq DEF Texts, Keys
<1>3. CASE IsSection(d[i])
  <2>1. PICK s \in Names : s = d[i].key[1]
    BY <1>3, KeyParts
  <2>2. <<s>> \in Keys /\ Len(<<s>>) = 1 /\ Named(<<s>>)
    <3>1. <<s>>[1] = s /\ <<Root>>[1] = Root /\ Len(<<s>>) = 1 /\ Len(<<>>) = 0
      OBVIOUS
    <3>. QED
      BY <3>1, NamesAssumption DEF Keys, Named
  <2>. QED
    BY <1>2, <1>3, <2>1, <2>2 DEF LineOf, SectionLine, Line, Lines
<1>4. CASE ~IsSection(d[i])
  <2>1. PICK v \in Texts : v = Shown(d[i].val, <<>>)
    BY <1>2, KeyParts DEF Shown
  <2>2. PICK t : t = Tail(d[i].key)
    OBVIOUS
  <2>3. t \in Keys /\ Len(t) = Len(d[i].key) - 1
    BY <1>1, <2>2, HeadTailProperties, EmptySeq DEF Keys
  <2>4. Named(t)
    <3>1. Len(d[i].key) # 1 /\ d[i].key \in EntryKeys
      BY <1>4 DEF IsSection, Good
    <3>. QED
      BY <2>2, <3>1 DEF EntryKeys
  <2>5. v \o d[i].cmt \in Texts
    BY <1>1, <2>1, ConcatProperties DEF Texts
  <2>. QED
    BY <1>2, <1>4, <2>1, <2>2, <2>3, <2>4, <2>5
       DEF LineOf, EntryLine, Name, ValueLine, Line, Lines
<1>. QED
  BY <1>3, <1>4

\* Two sections of one name are one entry.
LEMMA SectionOnce ==
    ASSUME NEW d, Good(d), NEW i \in 1..Len(d), NEW j \in 1..Len(d),
           IsSection(d[i]), IsSection(d[j]), d[i].key[1] = d[j].key[1]
    PROVE  i = j
<1>1. d[i].key = <<d[i].key[1]>> /\ d[j].key = <<d[j].key[1]>>
  BY KeyParts
<1>2. d[i].key = d[j].key
  BY <1>1
<1>. QED
  BY <1>2 DEF Good

\* The order of the saved lines of a and b: by the sections' slots, and in a
\* section by their own, below the section.
Before(d, a, b) ==
    \/ /\ d[a].key[1] = d[b].key[1]
       /\ ~IsSection(d[b])
       /\ IsSection(d[a]) \/ a < b
    \/ \E h, k \in 1..Len(d) :
         /\ h < k /\ IsSection(d[h]) /\ IsSection(d[k])
         /\ d[h].key[1] = d[a].key[1] /\ d[k].key[1] = d[b].key[1]

\* The entries own[1] to own[n] are in that order, each below its section.
Blocks(d, own, n) ==
    /\ n >= 1 /\ IsSection(d[own[1]])
    /\ \A p \in 2..n : ~IsSection(d[own[p]]) => d[own[p]].key[1] = d[own[p - 1]].key[1]
    /\ \A p, r \in 1..n : p < r => Before(d, own[p], own[r])

\* They are the entries of the sections in the slots W.
Covers(d, own, n, W) ==
    /\ \A p \in 1..n : \E h \in W : d[own[p]].key[1] = d[h].key[1]
    /\ \A j \in 1..Len(d) : \A h \in W :
         d[j].key[1] = d[h].key[1] => \E p \in 1..n : own[p] = j

\* L is the saved lines of these sections.
SavedLines(d, L, W) ==
    \E own : Copies(d, L, own) /\ Blocks(d, own, Len(L)) /\ Covers(d, own, Len(L), W)

\* What is saved of a section is its line, then those of its entries.
LEMMA SectionCopied ==
    ASSUME NEW d, Good(d), NEW h \in 1..Len(d), IsSection(d[h])
    PROVE  SavedLines(d, iniparser_dumpsection_ini(d, d[h].key[1]), {h})
<1>0. PICK L : L = iniparser_dumpsection_ini(d, d[h].key[1])
  OBVIOUS
<1>. DEFINE s == d[h].key[1]
            S == {i \in DOMAIN d : ~IsSection(d[i]) /\ d[i].key[1] = s}
<1>1. d \in Seq(Entry) /\ DOMAIN d = 1..Len(d)
  BY LenProperties DEF Good
<1>2. S \in SUBSET (1..Len(d))
  BY <1>1
<1>3. PICK entries : entries = EntriesOf(d, s)
  OBVIOUS
<1>4. entries = Selected(d, S)
  BY <1>3 DEF EntriesOf
<1>. HIDE DEF S
<1>5. entries \in Seq(Entry)
  BY <1>1, <1>2, <1>4, SelectedPlaces
<1>6. PICK n \in Nat : n = Len(entries) /\ DOMAIN entries = 1..n
  BY <1>5, LenProperties
<1>7. PICK at \in [1..n -> S] :
        /\ \A i \in 1..n : entries[i] = d[at[i]]
        /\ \A i, j \in 1..n : i < j => at[i] < at[j]
        /\ \A k \in S : \E i \in 1..n : at[i] = k
  <2>1. InOrder(d, S, entries)
    BY <1>1, <1>2, <1>4, SelectedPlaces
  <2>. QED
    BY <1>6, <2>1 DEF InOrder
<1>8. \A i \in 1..n : /\ at[i] \in 1..Len(d) /\ ~IsSection(d[at[i]]) /\ d[at[i]].key[1] = s
  BY <1>1, <1>2, <1>7 DEF S
<1>9. \A j \in 1..Len(d) : d[j].key[1] = s => j = h \/ \E i \in 1..n : at[i] = j
  <2>1. \A j \in 1..Len(d) : d[j].key[1] = s => j = h \/ j \in S
    BY <1>1, SectionOnce DEF S
  <2>. QED
    BY <1>7, <2>1
<1>10. PICK body : body = [i \in 1..n |-> EntryLine(entries[i])]
  OBVIOUS
<1>11. \A i \in 1..n : body[i] = LineOf(d[at[i]]) /\ body[i] \in Lines
  <2>1. \A i \in 1..n : body[i] = LineOf(d[at[i]])
    BY <1>7, <1>8, <1>10 DEF LineOf
  <2>. QED
    BY <1>8, <2>1, LineTyped
<1>12. body \in Seq(Lines) /\ Len(body) = n
  <2>1. body \in [1..n -> Lines]
    BY <1>10, <1>11
  <2>2. body \in Seq(Lines)
    BY <2>1
  <2>. QED
    BY <2>1, <2>2, LenProperties
<1>13. PICK head : head = <<SectionLine(s)>>
  OBVIOUS
<1>14. head \in Seq(Lines) /\ Len(head) = 1 /\ head[1] = LineOf(d[h])
  <2>1. SectionLine(s) = LineOf(d[h])
    BY DEF LineOf
  <2>2. SectionLine(s) \in Lines
    BY <2>1, LineTyped
  <2>. QED
    BY <1>13, <2>1, <2>2
<1>15. L = head \o body
  BY <1>0, <1>3, <1>6, <1>10, <1>13 DEF iniparser_dumpsection_ini
<1>16. /\ L \in Seq(Lines) /\ Len(L) = n + 1
       /\ \A i \in 1..(n + 1) : L[i] = IF i <= 1 THEN head[i] ELSE body[i - 1]
  <2>1. /\ head \o body \in Seq(Lines)
        /\ Len(head \o body) = Len(head) + Len(body)
        /\ \A i \in 1..(Len(head) + Len(body)) :
             (head \o body)[i] = IF i <= Len(head) THEN head[i] ELSE body[i - Len(head)]
    BY <1>12, <1>14, ConcatProperties
  <2>2. Len(head) + Len(body) = n + 1
    BY <1>12, <1>14
  <2>. QED
    BY <1>14, <1>15, <2>1, <2>2
<1>. DEFINE own == [p \in 1..(n + 1) |-> IF p = 1 THEN h ELSE at[p - 1]]
<1>17. own[1] = h /\ \A p \in 1..(n + 1) : p # 1 => own[p] = at[p - 1]
  OBVIOUS
<1>18. \A p \in 1..(n + 1) : p # 1 => p - 1 \in 1..n
  OBVIOUS
<1>19. own \in [1..(n + 1) -> 1..Len(d)]
  BY <1>8, <1>18
<1>. HIDE DEF own, s
<1>20. \A p \in 1..(n + 1) : L[p] = LineOf(d[own[p]])
  <2>. SUFFICES ASSUME NEW p \in 1..(n + 1) PROVE L[p] = LineOf(d[own[p]])
    OBVIOUS
  <2>1. CASE p = 1
    <3>1. L[1] = head[1]
      BY <1>16
    <3>. QED
      BY <1>14, <1>17, <2>1, <3>1
  <2>2. CASE p # 1
    <3>1. L[p] = body[p - 1] /\ p - 1 \in 1..n
      BY <1>16, <2>2
    <3>. QED
      BY <1>11, <1>17, <2>2, <3>1
  <2>. QED
    BY <2>1, <2>2
<1>21. Copies(d, L, own)
  BY <1>16, <1>19, <1>20 DEF Copies
<1>22. \A p \in 1..(n + 1) : d[own[p]].key[1] = s /\ (p # 1 => ~IsSection(d[own[p]]))
  BY <1>8, <1>17, <1>18 DEF s
<1>23. ASSUME NEW p \in 1..(n + 1), NEW r \in 1..(n + 1), p # 1, p < r
       PROVE  own[p] < own[r]
  <2>1. r # 1 /\ p - 1 \in 1..n /\ r - 1 \in 1..n /\ p - 1 < r - 1
    BY <1>23
  <2>2. at[p - 1] < at[r - 1]
    BY <1>7, <2>1
  <2>. QED
    BY <1>17, <1>23, <2>1, <2>2
<1>24. \A j \in 1..Len(d) : d[j].key[1] = s => \E p \in 1..(n + 1) : own[p] = j
  <2>1. 1 \in 1..(n + 1) /\ \A i \in 1..n : i + 1 \in 1..(n + 1) /\ i + 1 # 1 /\ (i + 1) - 1 = i
    OBVIOUS
  <2>2. \A i \in 1..n : own[i + 1] = at[i]
    BY <1>17, <2>1
  <2>. SUFFICES ASSUME NEW j \in 1..Len(d), d[j].key[1] = s
                PROVE  \E p \in 1..(n + 1) : own[p] = j
    OBVIOUS
  <2>3. CASE j = h
    BY <1>17, <2>1, <2>3
  <2>4. CASE \E i \in 1..n : at[i] = j
    BY <2>1, <2>2, <2>4
  <2>. QED
    BY <1>9, <2>3, <2>4 DEF s
<1>25. Blocks(d, own, n + 1)
  <2>1. n + 1 >= 1 /\ IsSection(d[own[1]])
    BY <1>17
  <2>2. \A p \in 2..(n + 1) : p \in 1..(n + 1) /\ p - 1 \in 1..(n + 1)
    OBVIOUS
  <2>3. \A p \in 2..(n + 1) : d[own[p]].key[1] = d[own[p - 1]].key[1]
    BY <1>22, <2>2
  <2>4. ASSUME NEW p \in 1..(n + 1), NEW r \in 1..(n + 1), p < r
        PROVE  Before(d, own[p], own[r])
    <3>1. r # 1
      BY <2>4
    <3>2. CASE p = 1
      BY <1>17, <1>22, <3>1, <3>2 DEF Before
    <3>3. CASE p # 1
      BY <1>22, <1>23, <2>4, <3>1, <3>3 DEF Before
    <3>. QED
      BY <3>2, <3>3
  <2>. QED
    BY <2>1, <2>3, <2>4 DEF Blocks
<1>26. Covers(d, own, n + 1, {h})
  BY <1>22, <1>24 DEF Covers, s
<1>27. Len(L) = n + 1
  BY <1>16
<1>. QED
  BY <1>0, <1>21, <1>25, <1>26, <1>27 DEF SavedLines

\* Sections before a section: all their lines before its lines.
LEMMA BlocksJoined ==
    ASSUME NEW d, Good(d), NEW W \in SUBSET (1..Len(d)), NEW k \in 1..Len(d),
           IsSection(d[k]), \A h \in W : IsSection(d[h]) /\ h < k,
           NEW A, SavedLines(d, A, W),
           NEW B, SavedLines(d, B, {k})
    PROVE  SavedLines(d, A \o B, W \cup {k})
<1>1. PICK a : Copies(d, A, a) /\ Blocks(d, a, Len(A)) /\ Covers(d, a, Len(A), W)
  BY DEF SavedLines
<1>2. PICK b : Copies(d, B, b) /\ Blocks(d, b, Len(B)) /\ Covers(d, b, Len(B), {k})
  BY DEF SavedLines
<1>3. A \in Seq(Lines) /\ B \in Seq(Lines)
  BY <1>1, <1>2 DEF Copies
<1>4. PICK n \in Nat : n = Len(A)
  BY <1>3, LenProperties
<1>5. PICK m \in Nat : m = Len(B)
  BY <1>3, LenProperties
<1>6. PICK L : L = A \o B
  OBVIOUS
<1>7. /\ L \in Seq(Lines) /\ Len(L) = n + m
      /\ \A i \in 1..(n + m) : L[i] = IF i <= n THEN A[i] ELSE B[i - n]
  BY <1>3, <1>4, <1>5, <1>6, ConcatProperties
<1>8. /\ a \in [1..n -> 1..Len(d)] /\ \A p \in 1..n : A[p] = LineOf(d[a[p]])
      /\ b \in [1..m -> 1..Len(d)] /\ \A p \in 1..m : B[p] = LineOf(d[b[p]])
  BY <1>1, <1>2, <1>4, <1>5 DEF Copies
<1>. DEFINE own == [p \in 1..(n + m) |-> IF p <= n THEN a[p] ELSE b[p - n]]
<1>9. \A p \in 1..(n + m) : p <= n => p \in 1..n /\ own[p] = a[p]
  OBVIOUS
<1>10. \A p \in 1..(n + m) : ~(p <= n) => p - n \in 1..m /\ own[p] = b[p - n]
  OBVIOUS
<1>11. own \in [1..(n + m) -> 1..Len(d)]
  BY <1>8, <1>9, <1>10
<1>. HIDE DEF own
<1>12. Copies(d, L, own)
  BY <1>7, <1>8, <1>9, <1>10, <1>11 DEF Copies
<1>13. Blocks(d, a, n) /\ Covers(d, a, n, W) /\ Blocks(d, b, m) /\ Covers(d, b, m, {k})
  BY <1>1, <1>2, <1>4, <1>5
<1>18. /\ \A p \in 1..n : \E h \in W : d[a[p]].key[1] = d[h].key[1]
       /\ \A p \in 1..m : d[b[p]].key[1] = d[k].key[1]
  BY <1>13 DEF Covers
<1>14. \A p \in 1..n : p \in 1..(n + m) /\ p <= n
  OBVIOUS
<1>15. \A p \in 1..m : p + n \in 1..(n + m) /\ ~(p + n <= n) /\ (p + n) - n = p
  OBVIOUS
<1>16. Covers(d, own, n + m, W \cup {k})
  <2>1. ASSUME NEW p \in 1..(n + m)
        PROVE  \E h \in W \cup {k} : d[own[p]].key[1] = d[h].key[1]
    <3>1. CASE p <= n
      <4>1. p \in 1..n /\ own[p] = a[p]
        BY <1>9, <3>1
      <4>2. PICK h \in W : d[a[p]].key[1] = d[h].key[1]
        BY <1>18, <4>1
      <4>. QED
        BY <4>1, <4>2
    <3>2. CASE ~(p <= n)
      <4>1. p - n \in 1..m /\ own[p] = b[p - n]
        BY <1>10, <3>2
      <4>. QED
        BY <1>18, <4>1
    <3>. QED
      BY <3>1, <3>2
  <2>2. ASSUME NEW j \in 1..Len(d), NEW h \in W \cup {k}, d[j].key[1] = d[h].key[1]
        PROVE  \E p \in 1..(n + m) : own[p] = j
    <3>1. CASE h \in W
      <4>1. PICK p \in 1..n : a[p] = j
        BY <1>13, <2>2, <3>1 DEF Covers
      <4>. QED
        BY <1>9, <1>14, <4>1
    <3>2. CASE h = k
      <4>1. PICK p \in 1..m : b[p] = j
        BY <1>13, <2>2, <3>2 DEF Covers
      <4>2. own[p + n] = j
        BY <1>10, <1>15, <4>1
      <4>. QED
        BY <1>15, <4>2
    <3>. QED
      BY <3>1, <3>2
  <2>. QED
    BY <2>1, <2>2 DEF Covers
<1>17. Blocks(d, own, n + m)
  <2>1. n >= 1 /\ m >= 1 /\ IsSection(d[a[1]]) /\ IsSection(d[b[1]])
    BY <1>13 DEF Blocks
  <2>2. n + m >= 1 /\ own[1] = a[1]
    BY <1>9, <2>1
  <2>3. ASSUME NEW p \in 2..(n + m), ~IsSection(d[own[p]])
        PROVE  d[own[p]].key[1] = d[own[p - 1]].key[1]
    <3>0. p \in 1..(n + m) /\ p - 1 \in 1..(n + m)
      OBVIOUS
    <3>1. CASE p <= n
      <4>1. p \in 2..n /\ p - 1 <= n
        BY <3>1
      <4>2. own[p] = a[p] /\ own[p - 1] = a[p - 1]
        BY <1>9, <3>0, <3>1, <4>1
      <4>. QED
        BY <1>13, <2>3, <4>1, <4>2 DEF Blocks
    <3>2. CASE p = n + 1
      <4>1. own[p] = b[1]
        <5>1. p - n = 1 /\ ~(p <= n)
          BY <3>2
        <5>. QED
          BY <1>10, <3>0, <5>1
      <4>. QED
        BY <2>1, <2>3, <4>1
    <3>3. CASE ~(p <= n) /\ p # n + 1
      <4>1. p - n \in 2..m /\ ~(p - 1 <= n) /\ (p - 1) - n = (p - n) - 1
        BY <3>3
      <4>2. own[p] = b[p - n] /\ own[p - 1] = b[(p - n) - 1]
        BY <1>10, <3>0, <3>3, <4>1
      <4>. QED
        BY <1>13, <2>3, <4>1, <4>2 DEF Blocks
    <3>. QED
      BY <3>1, <3>2, <3>3
  <2>4. ASSUME NEW p \in 1..(n + m), NEW r \in 1..(n + m), p < r
        PROVE  Before(d, own[p], own[r])
    <3>1. CASE r <= n
      <4>1. p <= n
        BY <2>4, <3>1
      <4>. QED
        BY <1>9, <1>13, <2>4, <3>1, <4>1 DEF Blocks
    <3>2. CASE ~(p <= n)
      <4>1. ~(r <= n) /\ p - n < r - n
        BY <2>4, <3>2
      <4>. QED
        BY <1>10, <1>13, <3>2, <4>1 DEF Blocks
    <3>3. CASE p <= n /\ ~(r <= n)
      <4>1. PICK h \in W : d[own[p]].key[1] = d[h].key[1]
        <5>1. p \in 1..n /\ own[p] = a[p]
          BY <1>9, <3>3
        <5>2. PICK h \in W : d[a[p]].key[1] = d[h].key[1]
          BY <1>18, <5>1
        <5>. QED
          BY <5>1, <5>2
      <4>2. d[own[r]].key[1] = d[k].key[1]
        <5>1. r - n \in 1..m /\ own[r] = b[r - n]
          BY <1>10, <3>3
        <5>. QED
          BY <1>18, <5>1
      <4>3. h \in 1..Len(d) /\ IsSection(d[h]) /\ h < k
        BY <4>1
      <4>. QED
        BY <4>1, <4>2, <4>3 DEF Before
    <3>. QED
      BY <3>1, <3>2, <3>3
  <2>. QED
    BY <2>1, <2>2, <2>3, <2>4 DEF Blocks
<1>. QED
  BY <1>6, <1>7, <1>12, <1>16, <1>17 DEF SavedLines

SectionSlots(d) == {i \in 1..Len(d) : IsSection(d[i])}

\* The sections that are saved are all there are.
LEMMA SectionsFound ==
    ASSUME NEW d, Good(d)
    PROVE  Sections(d) \in Seq(Entry) /\ InOrder(d, SectionSlots(d), Sections(d))
<1>1. d \in Seq(Entry) /\ DOMAIN d = 1..Len(d)
  BY LenProperties DEF Good
<1>2. Sections(d) = Selected(d, SectionSlots(d))
  BY <1>1 DEF Sections, SectionSlots
<1>3. SectionSlots(d) \in SUBSET (1..Len(d))
  BY DEF SectionSlots
<1>. QED
  BY <1>1, <1>2, <1>3, SelectedPlaces

\* A dictionary with a section is saved section by section.
LEMMA DumpCopied ==
    ASSUME NEW d, Good(d), Sections(d) # <<>>
    PROVE  SavedLines(d, iniparser_dump_ini(d), SectionSlots(d))
<1>1. PICK t \in Seq(Entry) : t = Sections(d)
  BY SectionsFound
<1>2. PICK n \in Nat : n = Len(t) /\ DOMAIN t = 1..n
  BY LenProperties
<1>3. n # 0
  BY <1>1, <1>2, EmptySeq
<1>4. InOrder(d, SectionSlots(d), t)
  BY <1>1, SectionsFound
<1>5. PICK at \in [1..n -> SectionSlots(d)] :
        /\ \A i \in 1..n : t[i] = d[at[i]]
        /\ \A i, j \in 1..n : i < j => at[i] < at[j]
        /\ \A k \in SectionSlots(d) : \E i \in 1..n : at[i] = k
  BY <1>2, <1>4 DEF InOrder
<1>6. \A i \in 1..n : at[i] \in 1..Len(d) /\ IsSection(d[at[i]])
  BY <1>5 DEF SectionSlots
<1>7. PICK q : q = [i \in 1..n |-> iniparser_dumpsection_ini(d, t[i].key[1])]
  OBVIOUS
<1>8. \A i \in 1..n : SavedLines(d, q[i], {at[i]})
  <2>1. \A i \in 1..n : q[i] = iniparser_dumpsection_ini(d, d[at[i]].key[1])
    BY <1>5, <1>7
  <2>. QED
    BY <1>6, <2>1, SectionCopied
<1>9. q \in Seq(Seq(Lines)) /\ Len(q) = n /\ q # <<>>
  <2>1. \A i \in 1..n : q[i] \in Seq(Lines)
    BY <1>8 DEF SavedLines, Copies
  <2>2. q \in [1..n -> Seq(Lines)]
    BY <1>7, <2>1
  <2>3. q \in Seq(Seq(Lines))
    BY <2>2
  <2>4. Len(q) = n
    BY <2>2, <2>3, LenProperties
  <2>. QED
    BY <1>3, <2>3, <2>4, EmptySeq
<1>10. iniparser_dump_ini(d) = FlattenSeq(q)
  <2>1. t # <<>>
    BY <1>1
  <2>. QED
    BY <1>1, <1>2, <1>7, <2>1 DEF iniparser_dump_ini
<1>11. PICK u \in [1..n -> Seq(Lines)] :
         /\ u[1] = q[1] /\ FlattenSeq(q) = u[n]
         /\ \A i \in 2..n : u[i] = u[i - 1] \o q[i]
  BY <1>9, FlattenSteps
<1>. DEFINE W(i) == {at[k] : k \in 1..i}
            good == {i \in 0..(n - 1) : SavedLines(d, u[i + 1], W(i + 1))}
<1>12. 0 \in good
  <2>1. W(1) = {at[1]} /\ 1 \in 1..n
    BY <1>3
  <2>2. SavedLines(d, u[1], W(1))
    BY <1>8, <1>11, <2>1
  <2>3. 0 \in 0..(n - 1) /\ 0 + 1 = 1
    BY <1>3
  <2>. HIDE DEF W
  <2>. QED
    BY <2>2, <2>3
<1>13. ASSUME NEW i \in 1..(n - 1), i - 1 \in good PROVE i \in good
  <2>1. i \in 1..n /\ i + 1 \in 2..n /\ i + 1 \in 1..n /\ (i + 1) - 1 = i /\ (i - 1) + 1 = i
    BY <1>2
  <2>2. SavedLines(d, u[i], W(i))
    <3>. HIDE DEF W
    <3>. QED
      BY <1>13, <2>1
  <2>3. u[i + 1] = u[i] \o q[i + 1]
    BY <1>11, <2>1
  <2>4. ASSUME NEW k \in 1..i PROVE k \in 1..n /\ at[k] < at[i + 1]
    <3>1. k \in 1..n /\ k < i + 1
      BY <1>2, <2>1
    <3>. QED
      BY <1>5, <2>1, <3>1
  <2>5. W(i) \in SUBSET (1..Len(d)) /\ \A h \in W(i) : IsSection(d[h]) /\ h < at[i + 1]
    BY <1>6, <2>4
  <2>6. W(i + 1) = W(i) \cup {at[i + 1]}
    <3>1. \A k \in 1..(i + 1) : k \in 1..i \/ k = i + 1
      OBVIOUS
    <3>2. \A k \in 1..i : k \in 1..(i + 1)
      OBVIOUS
    <3>3. i + 1 \in 1..(i + 1)
      OBVIOUS
    <3>. QED
      BY <3>1, <3>2, <3>3
  <2>. HIDE DEF W
  <2>7. SavedLines(d, u[i] \o q[i + 1], W(i) \cup {at[i + 1]})
    BY <1>6, <1>8, <2>1, <2>2, <2>5, BlocksJoined
  <2>8. SavedLines(d, u[i + 1], W(i + 1))
    BY <2>3, <2>6, <2>7
  <2>9. i \in 0..(n - 1)
    OBVIOUS
  <2>. QED
    BY <2>8, <2>9
<1>14. n - 1 \in good
  <2>1. n - 1 \in Nat
    BY <1>2, <1>3
  <2>. HIDE DEF good
  <2>2. \A i \in 0..(n - 1) : i \in good
    BY <1>12, <1>13, <2>1, UpTo
  <2>. QED
    BY <2>1, <2>2
<1>15. W(n) = SectionSlots(d)
  BY <1>5
<1>16. SavedLines(d, u[n], W(n))
  <2>1. (n - 1) + 1 = n
    BY <1>2
  <2>. HIDE DEF W
  <2>. QED
    BY <1>14, <2>1
<1>. HIDE DEF W
<1>. QED
  BY <1>10, <1>11, <1>15, <1>16

\* Without any section, each entry is one line.
LEMMA DumpPlain ==
    ASSUME NEW d, Good(d), Sections(d) = <<>>
    PROVE  SectionSlots(d) = {} /\ iniparser_dump_ini(d) \in Seq(Lines)
<1>1. PICK n \in Nat : n = Len(d) /\ DOMAIN d = 1..n
  BY LenProperties DEF Good
<1>2. InOrder(d, SectionSlots(d), <<>>)
  BY SectionsFound
<1>3. SectionSlots(d) = {}
  <2>1. Len(<<>>) = 0
    OBVIOUS
  <2>2. \A k \in SectionSlots(d) : \E i \in 1..0 : TRUE
    BY <1>2, <2>1 DEF InOrder
  <2>3. 1..0 = {}
    OBVIOUS
  <2>. QED
    BY <2>2, <2>3
<1>. DEFINE Plain(e) == ValueLine(e.key, Shown(e.val, <<NullText>>))
<1>4. \A i \in 1..n : Plain(d[i]) \in Lines
  <2>. SUFFICES ASSUME NEW i \in 1..n PROVE Plain(d[i]) \in Lines
    OBVIOUS
  <2>1. d[i].val \in Texts \cup {NULL} /\ d[i].key \in Keys /\ Named(d[i].key)
    BY <1>1, KeyParts DEF Good, EntryKeys
  <2>2. <<>> \in Texts /\ <<NullText>> \in Texts
    BY EmptySeq, PiecesAssumption DEF Texts
  <2>3. Shown(d[i].val, <<NullText>>) \in Texts
    BY <2>1, <2>2 DEF Shown
  <2>. QED
    BY <2>1, <2>2, <2>3 DEF ValueLine, Line, Lines
<1>5. iniparser_dump_ini(d) = [i \in 1..n |-> Plain(d[i])]
  BY <1>1 DEF iniparser_dump_ini
<1>6. iniparser_dump_ini(d) \in Seq(Lines)
  <2>1. PICK L : L = [i \in 1..n |-> Plain(d[i])]
    OBVIOUS
  <2>. HIDE DEF Plain
  <2>2. L \in [1..n -> Lines]
    BY <1>4, <2>1
  <2>3. L \in Seq(Lines)
    BY <2>2
  <2>. QED
    BY <1>5, <2>1, <2>3
<1>. QED
  BY <1>3, <1>6

LEMMA DumpTyped ==
    ASSUME NEW d, Good(d)
    PROVE  iniparser_dump_ini(d) \in Seq(Lines)
<1>1. CASE Sections(d) = <<>>
  BY <1>1, DumpPlain
<1>2. CASE Sections(d) # <<>>
  BY <1>2, DumpCopied DEF SavedLines, Copies
<1>. QED
  BY <1>1, <1>2

-----------------------------------------------------------------------------
(* What a load makes of a line.                                             *)

\* What comes before the mark of a comment has none; what follows starts with
\* it, if there is one.
LEMMA MarkPlace ==
    ASSUME NEW text \in Texts
    PROVE  \E k \in 0..Len(text) :
             /\ BeforeMark(text) = SubSeq(text, 1, k)
             /\ FromMark(text) = SubSeq(text, k + 1, Len(text))
             /\ BeforeMark(text) \in Texts /\ FromMark(text) \in Texts
             /\ Len(BeforeMark(text)) = k
             /\ \A i \in 1..k : BeforeMark(text)[i] = text[i] /\ text[i] \notin Marks
             /\ k # Len(text) => text[k + 1] \in Marks
<1>1. PICK n \in Nat : n = Len(text)
  BY LenProperties DEF Texts
<1>2. \A i \in 1..n : text[i] \in Pieces
  BY <1>1, ElementOfSeq DEF Texts
<1>. DEFINE I == {i \in 1..n : text[i] \in Marks}
<1>3. PICK at : at = SelectInSeq(text, IsMark)
  OBVIOUS
<1>4. at = IF I # {} THEN Min(I) ELSE 0
  BY <1>1, <1>3 DEF SelectInSeq, IsMark
<1>5. PICK k \in 0..n : /\ k = IF at = 0 THEN n ELSE at - 1
                        /\ at # 0 => k # n
                        /\ \A i \in 1..k : text[i] \notin Marks
                        /\ k # n => text[k + 1] \in Marks
  <2>1. CASE I = {}
    <3>1. at = 0 /\ \A i \in 1..n : text[i] \notin Marks
      BY <1>4, <2>1
    <3>2. n \in 0..n
      BY <1>1
    <3>. QED
      BY <3>1, <3>2
  <2>2. CASE I # {}
    <3>1. PICK m \in I : \A i \in I : m <= i
      <4>1. I \in SUBSET Nat
        OBVIOUS
      <4>. HIDE DEF I
      <4>. QED
        BY <2>2, <4>1, LeastNat
    <3>2. at = m
      <4>1. at = CHOOSE x \in I : \A y \in I : x =< y
        BY <1>4, <2>2 DEF Min
      <4>2. at \in I /\ \A i \in I : at <= i
        <5>. HIDE DEF I
        <5>. QED
          BY <3>1, <4>1
      <4>3. at \in Nat /\ m \in Nat /\ at <= m /\ m <= at
        BY <3>1, <4>2
      <4>. QED
        BY <4>3
    <3>3. m \in 1..n /\ text[m] \in Marks
      BY <3>1
    <3>4. m - 1 \in 0..n /\ m - 1 # n /\ (m - 1) + 1 = m /\ at # 0
      BY <1>1, <3>2, <3>3
    <3>5. \A i \in 1..(m - 1) : i \in 1..n /\ ~(m <= i)
      BY <3>3
    <3>6. \A i \in 1..(m - 1) : text[i] \notin Marks
      BY <3>1, <3>5
    <3>. QED
      BY <3>2, <3>3, <3>4, <3>6
  <2>. QED
    BY <2>1, <2>2
<1>. HIDE DEF I
<1>6. PICK before : before = SubSeq(text, 1, k)
  OBVIOUS
<1>7. before \in Texts /\ Len(before) = k /\ \A i \in 1..k : before[i] = text[i]
  <2>1. \A i \in 1..k : text[i] \in Pieces
    BY <1>1, <1>2
  <2>2. 1 \in Int /\ k \in Int
    BY <1>1
  <2>3. /\ before \in Seq(Pieces)
        /\ Len(before) = IF 1 <= k THEN k - 1 + 1 ELSE 0
        /\ \A i \in 1..(k - 1 + 1) : before[i] = text[1 + i - 1]
    BY <1>6, <2>1, <2>2, SubSeqProperties
  <2>4. k - 1 + 1 = k /\ \A i \in 1..k : 1 + i - 1 = i
    BY <1>1
  <2>5. Len(before) = k
    BY <2>2, <2>3, <2>4
  <2>. QED
    BY <2>3, <2>4, <2>5 DEF Texts
<1>8. BeforeMark(text) = before
  <2>1. CASE at = 0
    <3>1. k = n
      BY <1>5, <2>1
    <3>2. BeforeMark(text) = text
      BY <1>3, <2>1 DEF BeforeMark
    <3>3. before = text
      BY <1>1, <1>7, <3>1, SeqEqual DEF Texts
    <3>. QED
      BY <3>2, <3>3
  <2>2. CASE at # 0
    BY <1>3, <1>5, <1>6, <2>2 DEF BeforeMark
  <2>. QED
    BY <2>1, <2>2
<1>9. FromMark(text) = SubSeq(text, k + 1, n)
  BY <1>1, <1>7, <1>8 DEF FromMark
<1>10. FromMark(text) \in Texts
  <2>1. \A i \in (k + 1)..n : text[i] \in Pieces
    BY <1>1, <1>2
  <2>2. k + 1 \in Int /\ n \in Int
    BY <1>1
  <2>. QED
    BY <1>9, <2>1, <2>2, SubSeqProperties DEF Texts
<1>. QED
  BY <1>1, <1>5, <1>6, <1>7, <1>8, <1>9, <1>10

LEMMA LineParts ==
    ASSUME NEW line \in Lines
    PROVE  /\ line.kind \in {"section", "value", "comment", "blank", "error", "cut"}
           /\ line.text \in Keys /\ line.quoted \in Texts /\ line.rest \in Texts
           /\ ValueOf(line) \in Texts /\ CommentOf(line) \in Texts
           /\ line.kind = "section" => /\ line.text = <<line.text[1]>> /\ Named(line.text)
                                       /\ line.text[1] \in Names \cup {Root}
           /\ line.kind = "value" => Named(line.text)
<1>1. /\ line.kind \in {"section", "value", "comment", "blank", "error", "cut"}
      /\ line.text \in Keys /\ line.quoted \in Texts /\ line.rest \in Texts
      /\ line.kind = "section" => Len(line.text) = 1 /\ Named(line.text)
      /\ line.kind = "value" => Named(line.text)
  BY DEF Lines
<1>2. BeforeMark(line.rest) \in Texts /\ FromMark(line.rest) \in Texts /\ <<>> \in Texts
  BY <1>1, MarkPlace, EmptySeq DEF Texts
<1>3. ValueOf(line) \in Texts /\ CommentOf(line) \in Texts
  BY <1>1, <1>2 DEF ValueOf, CommentOf
<1>4. ASSUME line.kind = "section"
      PROVE  line.text = <<line.text[1]>> /\ line.text[1] \in Names \cup {Root}
  <2>1. PICK k \in Seq(Names \cup {Root}) : k = line.text /\ Len(k) = 1
    BY <1>1, <1>4 DEF Keys
  <2>2. k[1] \in Names \cup {Root}
    BY <2>1, ElementOfSeq
  <2>3. k = <<k[1]>>
    BY <2>1, <2>2, SeqEqual
  <2>. QED
    BY <2>1, <2>2, <2>3
<1>. QED
  BY <1>1, <1>3, <1>4

\* Setting the value of a key, and its comment, keeps a dictionary one.
LEMMA SetGood ==
    ASSUME NEW d, Good(d), NEW key \in EntryKeys, NEW v \in Texts \cup {NULL}
    PROVE  Good(iniparser_set(d, key, v)) /\ HasKey(iniparser_set(d, key, v), key)
<1>1. PICK n \in Nat : n = Len(d) /\ DOMAIN d = 1..n
  BY LenProperties DEF Good
<1>0. key \in Keys
  BY DEF EntryKeys
<1>2. \A i \in 1..n : d[i] \in Entry /\ d[i].key \in EntryKeys
  BY <1>1, ElementOfSeq DEF Good
<1>4. \A i, j \in 1..n : d[i].key = d[j].key => i = j
  BY <1>1 DEF Good
<1>5. CASE HasKey(d, key)
  <2>1. PICK e : e = [i \in 1..n |-> IF d[i].key = key THEN [d[i] EXCEPT !.val = v] ELSE d[i]]
    OBVIOUS
  <2>2. iniparser_set(d, key, v) = e
    BY <1>1, <1>5, <2>1 DEF iniparser_set
  <2>3. \A i \in 1..n : e[i] \in Entry /\ e[i].key = d[i].key
    BY <1>2, <2>1 DEF Entry
  <2>5. e \in Seq(Entry) /\ Len(e) = n /\ DOMAIN e = 1..n
    <3>1. e \in [1..n -> Entry]
      BY <2>1, <2>3
    <3>2. e \in Seq(Entry)
      BY <3>1
    <3>. QED
      BY <3>1, <3>2, LenProperties
  <2>6. Good(e)
    BY <1>2, <1>4, <2>3, <2>5 DEF Good
  <2>7. HasKey(e, key)
    BY <1>1, <1>5, <2>3, <2>5 DEF HasKey, Slots
  <2>. QED
    BY <2>2, <2>6, <2>7
<1>6. CASE ~HasKey(d, key)
  <2>1. PICK e : e = [key |-> key, val |-> v, cmt |-> <<>>]
    OBVIOUS
  <2>2. e \in Entry /\ e.key = key /\ e.val = v
    BY <1>0, <2>1, EmptySeq DEF Entry, Texts
  <2>3. PICK t : t = Append(d, e)
    OBVIOUS
  <2>4. iniparser_set(d, key, v) = t
    BY <1>6, <2>1, <2>3 DEF iniparser_set
  <2>5. /\ t \in Seq(Entry) /\ Len(t) = n + 1 /\ t[n + 1] = e
        /\ \A i \in 1..n : t[i] = d[i]
    BY <1>1, <2>2, <2>3, AppendProperties DEF Good
  <2>6. \A i \in 1..(n + 1) : i \in 1..n \/ i = n + 1
    OBVIOUS
  <2>7. \A i \in 1..n : d[i].key # key
    BY <1>1, <1>6 DEF HasKey, Slots
  <2>8. \A i \in 1..(n + 1) : t[i].key \in EntryKeys
    BY <1>2, <2>2, <2>5, <2>6
  <2>9. \A i, j \in 1..(n + 1) : t[i].key = t[j].key => i = j
    BY <1>4, <2>2, <2>5, <2>6, <2>7
  <2>10. Good(t)
    BY <2>5, <2>8, <2>9 DEF Good
  <2>11. HasKey(t, key)
    <3>1. n + 1 \in 1..(n + 1) /\ DOMAIN t = 1..(n + 1)
      BY <2>5, LenProperties
    <3>. QED
      BY <2>2, <2>5, <3>1 DEF HasKey, Slots
  <2>. QED
    BY <2>4, <2>10, <2>11
<1>. QED
  BY <1>5, <1>6

LEMMA SetCommentGood ==
    ASSUME NEW d, Good(d), NEW key \in EntryKeys, NEW v \in Texts \cup {NULL},
           NEW c \in Texts
    PROVE  Good(dictionary_set_comment(d, key, v, c))
<1>1. PICK t : t = iniparser_set(d, key, v)
  OBVIOUS
<1>2. Good(t)
  BY <1>1, SetGood
<1>3. PICK n \in Nat : n = Len(t) /\ DOMAIN t = 1..n
  BY <1>2, LenProperties DEF Good
<1>4. \A i \in 1..n : t[i] \in Entry
  BY <1>2, <1>3, ElementOfSeq DEF Good
<1>5. PICK e : e = [i \in 1..n |-> IF t[i].key = key THEN [t[i] EXCEPT !.cmt = c] ELSE t[i]]
  OBVIOUS
<1>6. dictionary_set_comment(d, key, v, c) = e
  BY <1>1, <1>3, <1>5 DEF dictionary_set_comment
<1>7. \A i \in 1..n : e[i] \in Entry /\ e[i].key = t[i].key /\ e[i].val = t[i].val
  BY <1>4, <1>5 DEF Entry
<1>8. e \in Seq(Entry) /\ Len(e) = n
  <2>1. e \in [1..n -> Entry]
    BY <1>5, <1>7
  <2>2. e \in Seq(Entry)
    BY <2>1
  <2>. QED
    BY <2>1, <2>2, LenProperties
<1>9. Good(e)
  BY <1>2, <1>3, <1>7, <1>8 DEF Good
<1>. QED
  BY <1>6, <1>9

\* A key that is new goes to the end.
LEMMA NewEntry ==
    ASSUME NEW d, Good(d), NEW key \in EntryKeys, NEW v \in Texts \cup {NULL},
           NEW c \in Texts, ~HasKey(d, key)
    PROVE  dictionary_set_comment(d, key, v, c) = Append(d, [key |-> key, val |-> v, cmt |-> c])
<1>1. PICK n \in Nat : n = Len(d) /\ DOMAIN d = 1..n
  BY LenProperties DEF Good
<1>2. \A i \in 1..n : d[i] \in Entry /\ d[i].key # key
  BY <1>1, ElementOfSeq DEF Good, HasKey, Slots
<1>3. PICK e : e = [key |-> key, val |-> v, cmt |-> <<>>]
  OBVIOUS
<1>4. PICK new : new = [key |-> key, val |-> v, cmt |-> c]
  OBVIOUS
<1>5. e \in Entry /\ new \in Entry /\ e.key = key /\ new = [e EXCEPT !.cmt = c]
  <2>1. key \in Keys
    BY DEF EntryKeys
  <2>. QED
    BY <1>3, <1>4, <2>1, EmptySeq DEF Entry, Texts
<1>6. PICK t : t = Append(d, e)
  OBVIOUS
<1>7. /\ t \in Seq(Entry) /\ Len(t) = n + 1 /\ t[n + 1] = e
      /\ \A i \in 1..n : t[i] = d[i]
  BY <1>1, <1>5, <1>6, AppendProperties DEF Good
<1>8. DOMAIN t = 1..(n + 1)
  BY <1>7, LenProperties
<1>9. PICK r : r = [i \in 1..(n + 1) |-> IF t[i].key = key THEN [t[i] EXCEPT !.cmt = c] ELSE t[i]]
  OBVIOUS
<1>10. iniparser_set(d, key, v) = t
  BY <1>3, <1>6 DEF iniparser_set
<1>11. dictionary_set_comment(d, key, v, c) = r
  BY <1>8, <1>9, <1>10 DEF dictionary_set_comment
<1>12. \A i \in 1..n : r[i] = d[i]
  <2>1. \A i \in 1..n : i \in 1..(n + 1)
    OBVIOUS
  <2>. QED
    BY <1>2, <1>7, <1>9, <2>1
<1>13. r[n + 1] = new
  <2>1. n + 1 \in 1..(n + 1)
    OBVIOUS
  <2>. QED
    BY <1>5, <1>7, <1>9, <2>1
<1>14. PICK w : w = Append(d, new)
  OBVIOUS
<1>15. /\ w \in Seq(Entry) /\ Len(w) = n + 1 /\ w[n + 1] = new
       /\ \A i \in 1..n : w[i] = d[i]
  BY <1>1, <1>5, <1>14, AppendProperties DEF Good
<1>16. \A i \in 1..(n + 1) : i \in 1..n \/ i = n + 1
  OBVIOUS
<1>17. \A i \in 1..(n + 1) : r[i] = w[i]
  BY <1>12, <1>13, <1>15, <1>16
<1>18. r \in Seq(Entry) /\ Len(r) = n + 1
  <2>1. \A i \in 1..(n + 1) : r[i] \in Entry
    BY <1>2, <1>5, <1>12, <1>13, <1>16
  <2>2. r \in [1..(n + 1) -> Entry]
    BY <1>9, <2>1
  <2>3. r \in Seq(Entry)
    BY <2>2
  <2>. QED
    BY <2>2, <2>3, LenProperties
<1>19. r = w
  BY <1>15, <1>17, <1>18, SeqEqual
<1>. QED
  BY <1>4, <1>11, <1>14, <1>19

-----------------------------------------------------------------------------
(* Loading, line by line.                                                   *)

\* Lines that wait for their continuation.
OpenLines == {l \in Lines : Continues(l)}

\* What the loader has while it reads.
LoadStates ==
    {st \in [section : Names \cup {Root}, dict : Seq(Entry), valcmt : Texts,
             front : {<<>>} \cup {<<l>> : l \in OpenLines}, errs : Nat,
             given_up : BOOLEAN] : Good(st.dict)}

\* A key that has the text of another line before it.
LEMMA OddKey ==
    ASSUME NEW text \in Keys, Named(text)
    PROVE  <<Odd>> \o Tail(text) \in Keys /\ Named(<<Odd>> \o Tail(text))
<1>1. PICK S : S = Names \cup {Root}
  OBVIOUS
<1>2. text \in Seq(S) /\ text # <<>> /\ Odd \in S /\ Odd # Root
  BY <1>1, NamesAssumption DEF Keys, Named
<1>3. PICK t \in Seq(S) : t = Tail(text)
  BY <1>2, HeadTailProperties
<1>4. PICK h \in Seq(S) : h = <<Odd>> /\ Len(h) = 1 /\ h[1] = Odd
  <2>1. <<Odd>> \in Seq(S) /\ Len(<<Odd>>) = 1 /\ <<Odd>>[1] = Odd
    BY <1>2
  <2>. QED
    BY <2>1
<1>5. PICK k : k = h \o t
  OBVIOUS
<1>6. PICK n \in Nat : n = Len(t)
  BY LenProperties
<1>7. k \in Seq(S) /\ Len(k) = 1 + n /\ k[1] = Odd
  <2>1. /\ k \in Seq(S) /\ Len(k) = Len(h) + Len(t)
        /\ \A i \in 1..(Len(h) + Len(t)) : k[i] = IF i <= Len(h) THEN h[i] ELSE t[i - Len(h)]
    BY <1>5, ConcatProperties
  <2>2. 1 \in 1..(1 + n) /\ 1 <= 1
    BY <1>6
  <2>. QED
    BY <1>4, <1>6, <2>1, <2>2
<1>8. Named(k)
  <2>1. Len(<<>>) = 0 /\ <<Root>>[1] = Root /\ 1 + n # 0
    BY <1>6
  <2>. QED
    BY <1>2, <1>7, <2>1 DEF Named
<1>. QED
  BY <1>1, <1>3, <1>4, <1>5, <1>7, <1>8 DEF Keys

LEMMA ContinuedTyped ==
    ASSUME NEW open \in OpenLines, NEW next \in Lines
    PROVE  Continued(open, next) \in Lines
<1>1. open \in Lines /\ open.rest # <<>> /\ Last(open.rest) \in Slashed
  BY DEF OpenLines, Continues
<1>2. /\ next.quoted \in Texts /\ next.rest \in Texts /\ next.text \in Keys
      /\ open.rest \in Texts /\ open.kind \notin {"blank", "cut"}
      /\ <<>> \in Texts /\ <<>> \in Keys
  BY <1>1, LineParts, EmptySeq DEF Lines, Texts, Keys
<1>3. PICK n \in Nat : n = Len(open.rest)
  BY <1>2, LenProperties DEF Texts
<1>4. Front(open.rest) \in Seq(Pieces)
  <2>1. \A i \in 1..n : open.rest[i] \in Pieces
    BY <1>2, <1>3, ElementOfSeq DEF Texts
  <2>2. \A i \in 1..(n - 1) : open.rest[i] \in Pieces
    BY <2>1
  <2>3. 1 \in Int /\ n - 1 \in Int
    BY <1>3
  <2>4. SubSeq(open.rest, 1, n - 1) \in Seq(Pieces)
    BY <2>2, <2>3, SubSeqProperties
  <2>. QED
    BY <1>3, <2>4 DEF Front
<1>5. Bare[Last(open.rest)] \in Seq(Pieces)
  <2>1. PICK p \in Slashed : p = Last(open.rest)
    BY <1>1
  <2>2. Bare[p] \in Seq(Pieces \ Slashed)
    BY PiecesAssumption
  <2>3. Pieces \ Slashed \subseteq Pieces
    OBVIOUS
  <2>4. Bare[p] \in Seq(Pieces)
    BY <2>2, <2>3
  <2>. QED
    BY <2>1, <2>4
<1>6. Joined(next) \in Seq(Pieces)
  <2>1. <<KeyText>> \in Seq(Pieces)
    BY PiecesAssumption
  <2>2. <<KeyText>> \o next.quoted \in Seq(Pieces)
    BY <1>2, <2>1, ConcatProperties DEF Texts
  <2>3. <<KeyText>> \o next.quoted \o next.rest \in Seq(Pieces)
    BY <1>2, <2>2, ConcatProperties DEF Texts
  <2>. QED
    BY <1>2, <2>3 DEF Joined, Texts
<1>7. PICK t \in Texts : t = Front(open.rest) \o Bare[Last(open.rest)] \o Joined(next)
  <2>1. Front(open.rest) \o Bare[Last(open.rest)] \in Seq(Pieces)
    BY <1>4, <1>5, ConcatProperties
  <2>2. Front(open.rest) \o Bare[Last(open.rest)] \o Joined(next) \in Seq(Pieces)
    BY <1>6, <2>1, ConcatProperties
  <2>. QED
    BY <2>2 DEF Texts
<1>8. CASE open.kind \in {"value", "comment"}
  <2>1. Continued(open, next) = [open EXCEPT !.rest = t]
    BY <1>7, <1>8 DEF Continued
  <2>. QED
    BY <1>1, <1>8, <2>1 DEF Lines
<1>9. CASE open.kind \notin {"value", "comment"} /\ next.kind = "value"
  <2>1. Continued(open, next) = [next EXCEPT !.text = <<Odd>> \o Tail(next.text)]
    BY <1>9 DEF Continued, Lines
  <2>2. PICK k : k = <<Odd>> \o Tail(next.text)
    OBVIOUS
  <2>3. k \in Keys /\ Named(k)
    BY <1>2, <1>9, <2>2, LineParts, OddKey
  <2>. QED
    BY <1>9, <2>1, <2>2, <2>3 DEF Lines
<1>10. CASE open.kind = "section" /\ next.kind \in {"section", "blank"}
  <2>1. Continued(open, next) = [open EXCEPT !.rest = next.rest]
    BY <1>10 DEF Continued
  <2>. QED
    BY <1>1, <1>2, <1>10, <2>1 DEF Lines
<1>11. CASE /\ open.kind \notin {"value", "comment"} /\ next.kind # "value"
            /\ ~(open.kind = "section" /\ next.kind \in {"section", "blank"})
  <2>1. Continued(open, next) = Line("error", <<>>, <<>>, next.rest)
    BY <1>11 DEF Continued
  <2>. QED
    BY <1>2, <2>1 DEF Line, Lines
<1>. QED
  BY <1>8, <1>9, <1>10, <1>11

\* The key of a value line has its section.
LEMMA KeyTyped ==
    ASSUME NEW s \in Names \cup {Root}, NEW text \in Keys, Named(text)
    PROVE  KeyInSection(s, text) \in EntryKeys /\ Len(KeyInSection(s, text)) # 1
<1>0. PICK S : S = Names \cup {Root}
  OBVIOUS
<1>1. <<s>> \in Seq(S) /\ text \in Seq(S) /\ text # <<>>
  BY <1>0 DEF Keys, Named
<1>2. PICK k : k = <<s>> \o text
  OBVIOUS
<1>3. PICK n \in Nat \ {0} : n = Len(text)
  BY <1>1, EmptySeq
<1>4. /\ k \in Seq(S) /\ Len(k) = n + 1
      /\ \A i \in 1..(n + 1) : k[i] = IF i <= 1 THEN <<s>>[i] ELSE text[i - 1]
  <2>1. /\ k \in Seq(S) /\ Len(k) = Len(<<s>>) + Len(text)
        /\ \A i \in 1..(Len(<<s>>) + Len(text)) :
             k[i] = IF i <= Len(<<s>>) THEN <<s>>[i] ELSE text[i - Len(<<s>>)]
    BY <1>1, <1>2, ConcatProperties
  <2>2. Len(<<s>>) = 1 /\ Len(<<s>>) + Len(text) = n + 1
    BY <1>3
  <2>. QED
    BY <2>1, <2>2
<1>5. PICK l \in Nat : l = Len(k) /\ l # 1 /\ l # 0
  BY <1>4
<1>6. Named(k)
  <2>1. Len(<<>>) = 0 /\ Len(<<Root>>) = 1
    OBVIOUS
  <2>. QED
    BY <1>5, <2>1 DEF Named
<1>7. Tail(k) = text
  <2>1. k # <<>>
    BY <1>6 DEF Named
  <2>2. PICK t \in Seq(S) : /\ t = Tail(k) /\ Len(t) = Len(k) - 1
                            /\ \A i \in 1..Len(t) : t[i] = k[i + 1]
    BY <1>4, <2>1, HeadTailProperties
  <2>3. Len(t) = n
    BY <1>4, <2>2
  <2>4. ASSUME NEW i \in 1..n PROVE t[i] = text[i]
    <3>1. i + 1 \in 1..(n + 1) /\ ~(i + 1 <= 1) /\ (i + 1) - 1 = i
      OBVIOUS
    <3>2. k[i + 1] = text[i]
      BY <1>4, <3>1
    <3>. QED
      BY <2>2, <2>3, <3>2
  <2>. QED
    BY <1>1, <1>3, <2>2, <2>3, <2>4, SeqEqual
<1>. QED
  BY <1>0, <1>2, <1>4, <1>5, <1>6, <1>7 DEF KeyInSection, Keys, EntryKeys

LEMMA LineRead ==
    ASSUME NEW st \in LoadStates, NEW line \in Lines
    PROVE  iniparser_line(st, line) \in LoadStates
<1>1. /\ line.kind \in {"section", "value", "comment", "blank", "error", "cut"}
      /\ line.text \in Keys /\ ValueOf(line) \in Texts /\ CommentOf(line) \in Texts
      /\ line.kind = "section" => /\ line.text = <<line.text[1]>> /\ Named(line.text)
                                  /\ line.text[1] \in Names \cup {Root}
      /\ line.kind = "value" => Named(line.text)
  BY LineParts
<1>2. /\ st.section \in Names \cup {Root} /\ Good(st.dict) /\ st.dict \in Seq(Entry)
      /\ st.valcmt \in Texts /\ st.errs \in Nat
  BY DEF LoadStates
<1>3. CASE line.kind = "section"
  <2>1. line.text \in EntryKeys /\ Len(line.text) = 1 /\ <<>> \in Texts
    <3>1. Len(line.text) = 1
      BY <1>1, <1>3
    <3>. QED
      BY <1>1, <1>3, <3>1, EmptySeq DEF Texts, EntryKeys
  <2>2. PICK e : e = dictionary_set_comment(st.dict, line.text, NULL, <<>>)
    OBVIOUS
  <2>3. Good(e)
    BY <1>2, <2>1, <2>2, SetCommentGood
  <2>4. iniparser_line(st, line) = [st EXCEPT !.section = line.text[1], !.dict = e, !.errs = 0]
    BY <1>3, <2>2 DEF iniparser_line, LoadStates
  <2>5. e \in Seq(Entry)
    BY <2>3 DEF Good
  <2>6. PICK s \in Names \cup {Root} : s = line.text[1]
    BY <1>1, <1>3
  <2>7. PICK r : r = [st EXCEPT !.section = s, !.dict = e, !.errs = 0]
    OBVIOUS
  <2>8. /\ r \in [section : Names \cup {Root}, dict : Seq(Entry), valcmt : Texts,
                  front : {<<>>} \cup {<<l>> : l \in OpenLines}, errs : Nat,
                  given_up : BOOLEAN]
        /\ r.dict = e
    BY <2>5, <2>6, <2>7 DEF LoadStates
  <2>. QED
    BY <2>3, <2>4, <2>6, <2>7, <2>8 DEF LoadStates
<1>4. CASE line.kind = "value"
  <2>1. PICK c \in Texts : c = IF CommentOf(line) = <<>> THEN st.valcmt ELSE CommentOf(line)
    BY <1>1, <1>2
  <2>2. PICK k : k = KeyInSection(st.section, line.text)
    OBVIOUS
  <2>3. k \in EntryKeys /\ Len(k) # 1
    <3>1. PICK s \in Names \cup {Root} : s = st.section
      BY <1>2
    <3>2. PICK text \in Keys : text = line.text /\ Named(text)
      BY <1>1, <1>4
    <3>3. k = KeyInSection(s, text)
      BY <2>2, <3>1, <3>2
    <3>. QED
      BY <3>2, <3>3, KeyTyped
  <2>4. PICK e : e = dictionary_set_comment(st.dict, k, ValueOf(line), c)
    OBVIOUS
  <2>5. Good(e)
    BY <1>1, <1>2, <2>3, <2>4, SetCommentGood
  <2>6. iniparser_line(st, line) = [st EXCEPT !.dict = e, !.valcmt = c, !.errs = 0]
    BY <1>4, <2>1, <2>2, <2>4 DEF iniparser_line, LoadStates
  <2>7. e \in Seq(Entry)
    BY <2>5 DEF Good
  <2>8. PICK r : r = [st EXCEPT !.dict = e, !.valcmt = c, !.errs = 0]
    OBVIOUS
  <2>9. /\ r \in [section : Names \cup {Root}, dict : Seq(Entry), valcmt : Texts,
                  front : {<<>>} \cup {<<l>> : l \in OpenLines}, errs : Nat,
                  given_up : BOOLEAN]
        /\ r.dict = e
    BY <2>7, <2>8 DEF LoadStates
  <2>. QED
    BY <2>5, <2>6, <2>8, <2>9 DEF LoadStates
<1>5. CASE line.kind = "error"
  <2>1. iniparser_line(st, line) = [st EXCEPT !.errs = st.errs + 1]
    BY <1>5 DEF iniparser_line, LoadStates
  <2>. QED
    BY <1>2, <2>1 DEF LoadStates
<1>6. CASE line.kind \in {"comment", "blank", "cut"}
  BY <1>6 DEF iniparser_line
<1>. QED
  BY <1>1, <1>3, <1>4, <1>5, <1>6

LEMMA ReadTyped ==
    ASSUME NEW st \in LoadStates, NEW next \in Lines
    PROVE  ReadLine(st, next) \in LoadStates
<1>1. PICK line : line = IF st.front = <<>> THEN next ELSE Continued(st.front[1], next)
  OBVIOUS
<1>2. line \in Lines
  <2>1. st.front = <<>> \/ \E l \in OpenLines : st.front = <<l>>
    BY DEF LoadStates
  <2>2. ASSUME NEW l \in OpenLines, st.front = <<l>> PROVE line = Continued(l, next)
    BY <1>1, <2>2
  <2>. QED
    BY <1>1, <2>1, <2>2, ContinuedTyped
<1>3. ReadLine(st, next) =
        IF st.given_up THEN st
        ELSE IF next.kind = "cut" \/ ~Fits(line) THEN [st EXCEPT !.given_up = TRUE]
        ELSE IF Continues(line) THEN [st EXCEPT !.front = <<line>>]
        ELSE iniparser_line([st EXCEPT !.front = <<>>], line)
  BY <1>1 DEF ReadLine
<1>4. [st EXCEPT !.given_up = TRUE] \in LoadStates
  BY DEF LoadStates
<1>5. Continues(line) => [st EXCEPT !.front = <<line>>] \in LoadStates
  <2>1. Continues(line) => line \in OpenLines
    BY <1>2 DEF OpenLines
  <2>. QED
    BY <2>1 DEF LoadStates
<1>6. [st EXCEPT !.front = <<>>] \in LoadStates
  BY DEF LoadStates
<1>7. iniparser_line([st EXCEPT !.front = <<>>], line) \in LoadStates
  BY <1>2, <1>6, LineRead
<1>. QED
  BY <1>3, <1>4, <1>5, <1>7

LEMMA StartTyped == Start \in LoadStates
<1>1. <<>> \in Seq(Entry) /\ Len(<<>>) = 0 /\ <<>> \in Texts
  BY EmptySeq DEF Texts
<1>2. \A i \in 1..0 : FALSE
  OBVIOUS
<1>3. Good(<<>>)
  BY <1>1, <1>2 DEF Good
<1>. QED
  BY <1>1, <1>3 DEF Start, LoadStates

\* st is the states of the loader over the lines.
LoadRun(lines, st) ==
    /\ st \in [0..Len(lines) -> LoadStates]
    /\ st[0] = Start
    /\ \A i \in 1..Len(lines) : st[i] = ReadLine(st[i - 1], lines[i])

LEMMA LoadSteps ==
    ASSUME NEW lines \in Seq(Lines)
    PROVE  LoadRun(lines, Loading(lines))
<1>. DEFINE n == Len(lines)
            B == [x \in LoadStates \X (1..n) |-> ReadLine(x[1], lines[x[2]])]
            Step(t) == [i \in 0..n |-> IF i = 0 THEN Start ELSE ReadLine(t[i - 1], lines[i])]
            u == CHOOSE t : t = Step(t)
<1>1. n \in Nat /\ \A i \in 1..n : lines[i] \in Lines
  BY LenProperties, ElementOfSeq
<1>2. \A s \in LoadStates : \A i \in 1..n : ReadLine(s, lines[i]) \in LoadStates
  BY <1>1, ReadTyped
<1>3. B \in [LoadStates \X (1..n) -> LoadStates]
  BY <1>2
<1>4. PICK t \in [0..n -> LoadStates] : t[0] = Start /\ \A i \in 1..n : t[i] = B[<<t[i - 1], i>>]
  <2>. HIDE DEF B, n
  <2>1. Runs(LoadStates, B, Start, n) # {}
    BY <1>1, <1>3, StartTyped, RunsExist
  <2>. QED
    BY <2>1 DEF Runs
<1>5. \A i \in 1..n : t[i] = ReadLine(t[i - 1], lines[i])
  <2>1. \A i \in 1..n : i - 1 \in 0..n
    BY <1>1
  <2>. QED
    BY <1>1, <1>4, <2>1
<1>6. t = Step(t)
  <2>1. \A i \in 0..n : i # 0 => i \in 1..n
    BY <1>1
  <2>. QED
    BY <1>4, <1>5, <2>1
<1>7. u = Step(u)
  <2>. HIDE DEF Step
  <2>. QED
    BY <1>6
<1>. HIDE DEF u
<1>8. Loading(lines) = u
  BY DEF Loading, u
<1>9. u[0] = Start /\ \A i \in 1..n : u[i] = ReadLine(u[i - 1], lines[i])
  <2>1. n \in Nat /\ 0 \in 0..n /\ \A i \in 1..n : i \in 0..n /\ i # 0
    BY <1>1
  <2>. HIDE DEF n
  <2>. QED
    BY <1>7, <2>1
<1>. HIDE DEF n
<1>10. \A i \in 0..n : u[i] \in LoadStates
  <2>. DEFINE typed == {i \in 0..n : u[i] \in LoadStates}
  <2>1. 0 \in typed
    BY <1>1, <1>9, StartTyped
  <2>2. ASSUME NEW i \in 1..n, i - 1 \in typed PROVE i \in typed
    <3>1. i \in 0..n /\ u[i - 1] \in LoadStates
      BY <1>1, <2>2
    <3>2. u[i] = ReadLine(u[i - 1], lines[i])
      BY <1>9
    <3>. QED
      BY <1>2, <3>1, <3>2
  <2>. HIDE DEF typed
  <2>3. \A i \in 0..n : i \in typed
    BY <1>1, <2>1, <2>2, UpTo
  <2>. QED
    BY <2>3 DEF typed
<1>11. u \in [0..n -> LoadStates]
  BY <1>7, <1>10
<1>. QED
  BY <1>8, <1>9, <1>11 DEF n, LoadRun

\* What is loaded is a dictionary, or NULL.
LEMMA LoadGood ==
    ASSUME NEW lines \in Seq(Lines)
    PROVE  iniparser_load(lines) = NULL \/ Good(iniparser_load(lines))
<1>1. Len(lines) \in Nat /\ Len(lines) \in 0..Len(lines)
  BY LenProperties
<1>2. Loading(lines)[Len(lines)] \in LoadStates
  BY <1>1, LoadSteps DEF LoadRun
<1>. QED
  BY <1>2 DEF iniparser_load, LoadStates

-----------------------------------------------------------------------------
(* The types, and the file a save leaves.                                   *)

\* ini is a dictionary or NULL, and the file has lines of the format.
Typed ==
    /\ pc \in [Threads -> {"idle", "lock", "in", "lookup", "open", "unlock"}]
    /\ req \in [Threads -> Requests]
    /\ readers \in SUBSET Threads
    /\ writer \in Threads \cup {NoThread}
    /\ ini = NULL \/ Good(ini)
    /\ store.lost \subseteq {"key", "hash", "val"}
    /\ mixed \in SUBSET Threads
    /\ got \in [Threads -> Texts \cup {NULL, NoValue}]
    /\ file \in Seq(Lines)

LEMMA NoFlushRequested == NoFlush \in Requests
  BY DEF Requests

\* A dictionary with another value or comment in one slot.
LEMMA OneOther ==
    ASSUME NEW d, Good(d), NEW i \in 1..Len(d), NEW v \in Texts \cup {NULL}, NEW c \in Texts
    PROVE  Good([d EXCEPT ![i].val = v]) /\ Good([d EXCEPT ![i].cmt = c])
<1>1. PICK n \in Nat : n = Len(d) /\ DOMAIN d = 1..n
  BY LenProperties DEF Good
<1>2. \A j \in 1..n : d[j] \in Entry /\ d[j].key \in EntryKeys
  BY <1>1, ElementOfSeq DEF Good
<1>3. ASSUME NEW e, e \in [1..n -> Entry], \A j \in 1..n : e[j].key = d[j].key
      PROVE  Good(e)
  <2>1. e \in Seq(Entry)
    BY <1>3
  <2>2. Len(e) = n
    BY <1>3, <2>1, LenProperties
  <2>. QED
    BY <1>1, <1>2, <1>3, <2>1, <2>2 DEF Good
<1>4. PICK x : x = [d[i] EXCEPT !.val = v]
  OBVIOUS
<1>5. PICK y : y = [d[i] EXCEPT !.cmt = c]
  OBVIOUS
<1>6. x \in Entry /\ x.key = d[i].key /\ y \in Entry /\ y.key = d[i].key
  BY <1>1, <1>2, <1>4, <1>5 DEF Entry
<1>7. d \in [1..n -> Entry] /\ i \in 1..n
  <2>1. d = [j \in 1..n |-> d[j]]
    BY <1>1 DEF Good
  <2>. QED
    BY <1>1, <1>2, <2>1
<1>8. [d EXCEPT ![i].val = v] = [d EXCEPT ![i] = x] /\ [d EXCEPT ![i].cmt = c] = [d EXCEPT ![i] = y]
  BY <1>4, <1>5
<1>9. PICK e : e = [d EXCEPT ![i] = x]
  OBVIOUS
<1>10. PICK f : f = [d EXCEPT ![i] = y]
  OBVIOUS
<1>11. e \in [1..n -> Entry] /\ \A j \in 1..n : e[j].key = d[j].key
  BY <1>6, <1>7, <1>9
<1>12. f \in [1..n -> Entry] /\ \A j \in 1..n : f[j].key = d[j].key
  BY <1>6, <1>7, <1>10
<1>13. Good(e) /\ Good(f)
  BY <1>3, <1>11, <1>12
<1>. QED
  BY <1>8, <1>9, <1>10, <1>13

\* A dictionary without one entry.
LEMMA OneLess ==
    ASSUME NEW d, Good(d), NEW i \in 1..Len(d)
    PROVE  Good(RemoveAt(d, i))
<1>1. PICK n \in Nat : n = Len(d)
  BY LenProperties DEF Good
<1>2. \A j \in 1..n : d[j] \in Entry /\ d[j].key \in EntryKeys
  BY <1>1, ElementOfSeq DEF Good
<1>3. PICK a : a = SubSeq(d, 1, i - 1)
  OBVIOUS
<1>4. PICK b : b = SubSeq(d, i + 1, n)
  OBVIOUS
<1>5. a \in Seq(Entry) /\ Len(a) = i - 1 /\ \A j \in 1..(i - 1) : a[j] = d[j]
  <2>1. 1 \in Int /\ i - 1 \in Int /\ (i - 1) - 1 + 1 = i - 1 /\ \A j \in 1..(i - 1) : j \in 1..n
    BY <1>1
  <2>2. /\ a \in Seq(Entry)
        /\ Len(a) = IF 1 <= i - 1 THEN (i - 1) - 1 + 1 ELSE 0
        /\ \A j \in 1..((i - 1) - 1 + 1) : a[j] = d[1 + j - 1]
    BY <1>2, <1>3, <2>1, SubSeqProperties
  <2>3. Len(a) = i - 1
    BY <1>1, <2>2
  <2>4. \A j \in 1..(i - 1) : 1 + j - 1 = j
    OBVIOUS
  <2>. QED
    BY <2>1, <2>2, <2>3, <2>4
<1>6. b \in Seq(Entry) /\ Len(b) = n - i /\ \A j \in 1..(n - i) : b[j] = d[i + j]
  <2>1. i + 1 \in Int /\ n \in Int /\ n - (i + 1) + 1 = n - i /\ \A j \in (i + 1)..n : j \in 1..n
    BY <1>1
  <2>2. /\ b \in Seq(Entry)
        /\ Len(b) = IF i + 1 <= n THEN n - (i + 1) + 1 ELSE 0
        /\ \A j \in 1..(n - (i + 1) + 1) : b[j] = d[i + 1 + j - 1]
    BY <1>2, <1>4, <2>1, SubSeqProperties
  <2>3. Len(b) = n - i
    BY <1>1, <2>2
  <2>4. \A j \in 1..(n - i) : i + 1 + j - 1 = i + j
    BY <1>1
  <2>. QED
    BY <2>1, <2>2, <2>3, <2>4
<1>7. PICK e : e = a \o b
  OBVIOUS
<1>8. /\ e \in Seq(Entry) /\ Len(e) = n - 1
      /\ \A j \in 1..(n - 1) : e[j] = IF j <= i - 1 THEN d[j] ELSE d[j + 1]
  <2>1. /\ e \in Seq(Entry) /\ Len(e) = Len(a) + Len(b)
        /\ \A j \in 1..(Len(a) + Len(b)) : e[j] = IF j <= Len(a) THEN a[j] ELSE b[j - Len(a)]
    BY <1>5, <1>6, <1>7, ConcatProperties
  <2>2. Len(a) + Len(b) = n - 1
    BY <1>1, <1>5, <1>6
  <2>3. ASSUME NEW j \in 1..(n - 1) PROVE e[j] = IF j <= i - 1 THEN d[j] ELSE d[j + 1]
    <3>1. CASE j <= i - 1
      <4>1. j \in 1..(i - 1)
        BY <3>1
      <4>. QED
        BY <1>5, <2>1, <2>2, <3>1, <4>1
    <3>2. CASE ~(j <= i - 1)
      <4>1. j - (i - 1) \in 1..(n - i) /\ i + (j - (i - 1)) = j + 1
        BY <1>1, <3>2
      <4>2. e[j] = b[j - (i - 1)]
        BY <1>5, <2>1, <2>2, <3>2
      <4>. QED
        BY <1>6, <3>2, <4>1, <4>2
    <3>. QED
      BY <3>1, <3>2
  <2>. QED
    BY <2>1, <2>2, <2>3
<1>9. \A j \in 1..(n - 1) : j \in 1..n /\ j + 1 \in 1..n
  BY <1>1
<1>10. \A j \in 1..(n - 1) : e[j].key \in EntryKeys
  BY <1>2, <1>8, <1>9
<1>11. \A j, k \in 1..n : d[j].key = d[k].key => j = k
  BY <1>1 DEF Good
<1>12. ASSUME NEW j \in 1..(n - 1), NEW k \in 1..(n - 1), e[j].key = e[k].key PROVE j = k
  <2>1. PICK x \in 1..n : e[j] = d[x] /\ x = IF j <= i - 1 THEN j ELSE j + 1
    BY <1>8, <1>9
  <2>2. PICK y \in 1..n : e[k] = d[y] /\ y = IF k <= i - 1 THEN k ELSE k + 1
    BY <1>8, <1>9
  <2>3. x = y
    BY <1>11, <1>12, <2>1, <2>2
  <2>. QED
    BY <1>1, <2>1, <2>2, <2>3
<1>13. Good(e)
  BY <1>8, <1>10, <1>12 DEF Good
<1>. QED
  BY <1>1, <1>3, <1>4, <1>7, <1>13 DEF RemoveAt

\* What a start may find.
LEMMA StartedGood ==
    ASSUME NEW lines \in Seq(Lines), NEW s \in Started(lines)
    PROVE  (s[1] = NULL \/ Good(s[1])) /\ s[2].lost \subseteq {"key", "hash", "val"}
<1>1. PICK d : d = iniparser_load(lines)
  OBVIOUS
<1>2. d = NULL \/ Good(d)
  BY <1>1, LoadGood
<1>3. \/ s = <<NULL, Store(0, {}), 0>>
      \/ d # NULL /\ s = <<d, Store(Len(d), {}), 0>>
      \/ d # NULL /\ \E e \in Damaged(d) : s = <<e, Store(Len(d), {}), 1>>
      \/ d = <<>> /\ \E gone \in SUBSET Arrays : s = <<d, Store(0, gone), 1>>
  BY <1>1 DEF Started
<1>4. \A n, gone : Store(n, gone).lost = gone
  BY DEF Store
<1>5. ASSUME d # NULL, NEW e \in Damaged(d) PROVE Good(e)
  <2>1. DOMAIN d = 1..Len(d) /\ Good(d) /\ <<>> \in Texts
    BY <1>2, <1>5, LenProperties, EmptySeq DEF Good, Texts
  <2>2. PICK i \in 1..Len(d) : \/ e = [d EXCEPT ![i].val = NULL]
                               \/ e = [d EXCEPT ![i].cmt = <<>>]
                               \/ e = RemoveAt(d, i)
    BY <2>1 DEF Damaged
  <2>3. /\ Good([d EXCEPT ![i].val = NULL]) /\ Good([d EXCEPT ![i].cmt = <<>>])
        /\ Good(RemoveAt(d, i))
    BY <2>1, OneOther, OneLess
  <2>. QED
    BY <2>2, <2>3
<1>. QED
  BY <1>2, <1>3, <1>4, <1>5 DEF Arrays

LEMMA InitiallyTyped == Init => Typed
<1>. SUFFICES ASSUME Init PROVE Typed
  OBVIOUS
<1>1. file \in Seq(Lines)
  BY FilesAssumption DEF Init
<1>2. PICK s \in Started(file) : ini = s[1] /\ store = s[2]
  BY DEF Init
<1>3. (ini = NULL \/ Good(ini)) /\ store.lost \subseteq {"key", "hash", "val"}
  BY <1>1, <1>2, StartedGood
<1>. QED
  BY <1>1, <1>3, NoFlushRequested DEF Init, Typed

\* A dump may see other comments, but no other entries.
LEMMA SeenGood ==
    ASSUME Good(ini), NEW d \in Seen
    PROVE  Good(d) /\ (store.past = {} => d = ini)
<1>1. PICK n \in Nat : n = Len(ini) /\ DOMAIN ini = 1..n
  BY LenProperties DEF Good
<1>2. \A i \in 1..n : ini[i] \in Entry /\ ini[i].key \in EntryKeys
  BY <1>1, ElementOfSeq DEF Good
<1>3. PICK f \in [store.past -> Debris] :
        d = [i \in 1..n |->
               IF ini[i].key \in store.past THEN [ini[i] EXCEPT !.cmt = f[ini[i].key]] ELSE ini[i]]
  BY <1>1 DEF Seen
<1>4. ASSUME NEW i \in 1..n PROVE d[i] \in Entry /\ d[i].key = ini[i].key
  <2>1. CASE ini[i].key \in store.past
    <3>1. f[ini[i].key] \in Texts
      BY <2>1, StoreAssumption
    <3>. QED
      BY <1>2, <1>3, <2>1, <3>1 DEF Entry
  <2>2. CASE ini[i].key \notin store.past
    BY <1>2, <1>3, <2>2
  <2>. QED
    BY <2>1, <2>2
<1>5. d \in Seq(Entry) /\ Len(d) = n
  <2>1. d \in [1..n -> Entry]
    BY <1>3, <1>4
  <2>2. d \in Seq(Entry)
    BY <2>1
  <2>. QED
    BY <2>1, <2>2, LenProperties
<1>6. Good(d)
  BY <1>1, <1>2, <1>4, <1>5 DEF Good
<1>7. ASSUME store.past = {} PROVE d = ini
  <2>1. \A i \in 1..n : d[i] = ini[i]
    BY <1>3, <1>7
  <2>. QED
    BY <1>1, <1>5, <2>1, SeqEqual DEF Good
<1>. QED
  BY <1>6, <1>7

LEMMA WrittenTyped == Typed => Written \subseteq Seq(Lines)
<1>. SUFFICES ASSUME Typed, NEW L \in Written PROVE L \in Seq(Lines)
  OBVIOUS
<1>1. CASE ini = NULL
  BY <1>1, EmptySeq DEF Written
<1>2. CASE ini # NULL
  <2>1. Good(ini)
    BY <1>2 DEF Typed
  <2>2. PICK d \in Seen : L = iniparser_dump_ini(d)
    BY <1>2 DEF Written
  <2>3. Good(d)
    BY <2>1, SeenGood
  <2>. QED
    BY <2>2, <2>3, DumpTyped
<1>. QED
  BY <1>1, <1>2

LEMMA RemainsTyped ==
    ASSUME NEW lines \in Seq(Lines)
    PROVE  Remains(lines) \subseteq Seq(Lines)
<1>1. Len(lines) \in Nat /\ \A i \in 1..Len(lines) : lines[i] \in Lines
  BY LenProperties, ElementOfSeq
<1>2. ASSUME NEW i \in 0..Len(lines) PROVE SubSeq(lines, 1, i) \in Seq(Lines)
  <2>1. \A j \in 1..i : lines[j] \in Lines
    BY <1>1
  <2>2. 1 \in Int /\ i \in Int
    BY <1>1
  <2>. QED
    BY <2>1, <2>2, SubSeqProperties
<1>3. CutLine \in Lines
  <2>1. <<>> \in Keys /\ <<>> \in Texts
    BY EmptySeq DEF Keys, Texts
  <2>. QED
    BY <2>1 DEF CutLine, Line, Lines
<1>4. ASSUME NEW i \in 0..(Len(lines) - 1)
      PROVE  Append(SubSeq(lines, 1, i), CutLine) \in Seq(Lines)
  <2>1. i \in 0..Len(lines)
    BY <1>1
  <2>. QED
    BY <1>2, <1>3, <2>1, AppendProperties
<1>. QED
  BY <1>2, <1>4 DEF Remains

LEMMA CutTyped == Typed => Cut \subseteq Seq(Lines)
  BY WrittenTyped, RemainsTyped DEF Cut

LEMMA RestartTyped == Typed /\ Restart => Typed'
<1>. SUFFICES ASSUME Typed, Restart PROVE Typed'
  OBVIOUS
<1>1. file' \in Cut \/ file' = file
  BY DEF Restart
<1>2. PICK lines \in Seq(Lines) : lines = file'
  BY <1>1, CutTyped DEF Typed
<1>3. PICK s \in Started(lines) : ini' = s[1] /\ store' = s[2]
  BY <1>2 DEF Restart
<1>4. (s[1] = NULL \/ Good(s[1])) /\ s[2].lost \subseteq {"key", "hash", "val"}
  BY StartedGood
<1>5. (ini' = NULL \/ Good(ini')) /\ store'.lost \subseteq {"key", "hash", "val"}
  BY <1>3, <1>4
<1>. QED
  BY <1>2, <1>5, NoFlushRequested DEF Restart, Typed

LEMMA CallTyped == ASSUME NEW t \in Threads, Typed, Call(t) PROVE Typed'
<1>1. PICK r \in Requests : req' = [req EXCEPT ![t] = r]
  BY DEF Call
<1>. QED
  BY <1>1 DEF Call, Typed

LEMMA LockTyped == ASSUME NEW t \in Threads, Typed, Lock(t) PROVE Typed'
<1>1. readers' \in SUBSET Threads /\ writer' \in Threads \cup {NoThread}
  BY DEF Lock, Typed
<1>. QED
  BY <1>1 DEF Lock, Typed

LEMMA UnlockTyped == ASSUME NEW t \in Threads, Typed, trd_rwlock_unlock(t) PROVE Typed'
  BY NoFlushRequested DEF trd_rwlock_unlock, Typed

LEMMA strlwcTyped == ASSUME NEW t \in Threads, Typed, strlwc(t) PROVE Typed'
<1>1. pc' = [pc EXCEPT ![t] = IF ini = NULL THEN "unlock" ELSE "lookup"]
  BY DEF strlwc, Work
<1>2. mixed' \subseteq Threads
  <2>1. {u \in Threads \ {t} : pc[u] = "lookup"} \subseteq Threads
    OBVIOUS
  <2>. QED
    BY <2>1 DEF strlwc, Typed
<1>3. UNCHANGED <<req, readers, writer, ini, store, got, file>>
  BY DEF strlwc, Work
<1>. QED
  BY <1>1, <1>2, <1>3 DEF Typed

LEMMA FoundTyped ==
    ASSUME NEW d, Good(d), NEW k
    PROVE  iniparser_getstring(d, k, NoValue) \in Texts \cup {NULL, NoValue}
<1>1. DOMAIN d = 1..Len(d)
  BY LenProperties DEF Good
<1>2. \A i \in 1..Len(d) : d[i].val \in Texts \cup {NULL}
  BY KeyParts DEF Entry
<1>3. \A i \in Slots(d, k) : i \in 1..Len(d)
  BY <1>1 DEF Slots
<1>. QED
  BY <1>2, <1>3 DEF iniparser_getstring, HasKey

LEMMA LookupTyped ==
    ASSUME NEW t \in Threads, Typed, Lookup(t), pc[t] = "lookup" => ini # NULL
    PROVE  Typed'
<1>1. Good(ini)
  BY DEF Lookup, Typed
<1>2. PICK v : /\ got' = [got EXCEPT ![t] = v]
               /\ v = NoValue \/ \E k : v = iniparser_getstring(ini, k, NoValue)
  BY DEF Lookup
<1>3. v \in Texts \cup {NULL, NoValue}
  BY <1>1, <1>2, FoundTyped
<1>4. got' \in [Threads -> Texts \cup {NULL, NoValue}]
  BY <1>2, <1>3 DEF Typed
<1>. QED
  BY <1>4 DEF Lookup, Typed

LEMMA SetTyped == ASSUME NEW t \in Threads, Typed, parser_setstr(t) PROVE Typed'
<1>1. /\ pc' = [pc EXCEPT ![t] = "unlock"]
      /\ UNCHANGED <<req, readers, writer, mixed, got, file>>
      /\ req[t].op = "set"
  BY DEF parser_setstr, Work
<1>2. req[t].key \in EntryKeys /\ req[t].val \in Texts
  <2>1. req[t] \in Requests
    BY DEF Typed
  <2>2. PICK c \in SetCalls : req[t] = Set(c[1], c[2])
    BY <1>1, <2>1 DEF Requests, Get, Flush, NoFlush, Exit
  <2>. QED
    BY <2>2, SetCallsAssumption DEF Set
<1>3. PICK k \in EntryKeys : k = req[t].key
  BY <1>2
<1>4. PICK v \in Texts : v = req[t].val
  BY <1>2
<1>5. CASE ini = NULL
  BY <1>1, <1>5 DEF parser_setstr, Typed
<1>6. CASE ini # NULL /\ (Update(k, v) \/ Add(k, v))
  <2>1. ini' = ini \/ \E val \in {v, NULL} : ini' = iniparser_set(ini, k, val)
    BY <1>6 DEF Update, Add
  <2>2. Good(ini) /\ \A val \in {v, NULL} : Good(iniparser_set(ini, k, val))
    BY <1>6, SetGood DEF Typed
  <2>3. Good(ini')
    BY <2>1, <2>2
  <2>4. store'.lost \subseteq {"key", "hash", "val"}
    <3>1. store' = store \/ \E key : store' = Counted(key)
      BY <1>6 DEF Update, Add
    <3>2. \A key : Counted(key).lost = store.lost
      BY DEF Counted
    <3>. QED
      BY <3>1, <3>2 DEF Typed
  <2>. QED
    BY <1>1, <2>3, <2>4 DEF Typed
<1>7. CASE ini # NULL /\ GrowFails(k)
  <2>1. ini' = ini /\ store'.lost \subseteq {"key", "hash", "val"}
    BY <1>7 DEF GrowFails, Arrays
  <2>. QED
    BY <1>1, <2>1 DEF Typed
<1>. QED
  BY <1>3, <1>4, <1>5, <1>6, <1>7 DEF parser_setstr

LEMMA ExitTyped == ASSUME NEW t \in Threads, Typed, parser_exit(t) PROVE Typed'
<1>1. store'.lost = {}
  BY DEF parser_exit, Store
<1>. QED
  BY <1>1 DEF parser_exit, Work, Typed

LEMMA OpenTyped == ASSUME NEW t \in Threads, Typed, OpenFile(t) PROVE Typed'
<1>1. file' \in Seq(Lines)
  BY EmptySeq DEF OpenFile, Typed
<1>2. pc' = [pc EXCEPT ![t] = "open"] \/ pc' = [pc EXCEPT ![t] = "unlock"]
  BY DEF OpenFile, Work, AfterFailedOpen
<1>3. UNCHANGED <<req, readers, writer, ini, store, mixed, got>>
  BY DEF OpenFile, Work
<1>. QED
  BY <1>1, <1>2, <1>3 DEF Typed

LEMMA WriteTyped == ASSUME NEW t \in Threads, Typed, WriteFile(t) PROVE Typed'
<1>1. file' \in Seq(Lines)
  BY WrittenTyped, CutTyped DEF WriteFile
<1>. QED
  BY <1>1 DEF WriteFile, Typed

LEMMA StepTyped == IInv /\ Typed /\ [Next]_vars => Typed'
<1>. SUFFICES ASSUME IInv, Typed, [Next]_vars PROVE Typed'
  OBVIOUS
<1>1. CASE Restart
  BY <1>1, RestartTyped
<1>2. ASSUME NEW t \in Threads, Call(t) \/ Lock(t) PROVE Typed'
  BY <1>2, CallTyped, LockTyped
<1>3. ASSUME NEW t \in Threads, Inside(t) PROVE Typed'
  <2>1. pc[t] = "lookup" => ini # NULL
    BY DEF IInv, Getting
  <2>. QED
    BY <1>3, <2>1, strlwcTyped, LookupTyped, SetTyped, ExitTyped, OpenTyped, WriteTyped,
       UnlockTyped DEF Inside
<1>4. CASE UNCHANGED vars
  BY <1>4 DEF vars, Typed
<1>. QED
  BY <1>1, <1>2, <1>3, <1>4 DEF Next

LEMMA AlwaysTyped == Spec => []Typed
  BY InitiallyTyped, StepTyped, Always, PTL DEF Spec

\* Whatever is set, saved, cut off and loaded again, ini is NULL or a
\* dictionary with typed entries and the file has lines the loader can read.
THEOREM TypeCorrect == Spec => []TypeOK
<1>1. Typed => TypeOK
  <2>. SUFFICES ASSUME Typed PROVE TypeOK
    OBVIOUS
  <2>1. \A i \in DOMAIN file : file[i] \in Lines
    BY LenProperties, ElementOfSeq DEF Typed
  <2>2. \A i \in DOMAIN file :
          /\ file[i].text \in Keys /\ file[i].quoted \in Texts /\ file[i].rest \in Texts
          /\ file[i].kind = "value" => file[i].text # <<>>
    BY <2>1, LineParts DEF Named
  <2>3. ini = NULL \/ ini \in Seq(Entry)
    BY DEF Typed, Good
  <2>. QED
    BY <2>2, <2>3 DEF Typed, TypeOK
<1>. QED
  BY <1>1, AlwaysTyped, PTL

\* With something to keep, the file is that of a dictionary whose kept entries
\* they are.
SaveStands ==
    saved # {} => \E d : Good(d) /\ file = iniparser_dump_ini(d) /\ saved = Kept(d)

\* A step that leaves the file alone.
LEMMA NotSaving == SaveStands /\ UNCHANGED <<file, saved>> => SaveStands'
  BY DEF SaveStands

\* From fopen to fclose there is nothing to keep.
NoneWhileWriting == Writing => saved = {}

\* A dump without a comment past its array is that of the dictionary.
LEMMA WriteStands ==
    ASSUME NEW t \in Threads, Typed, WriteFile(t), saved = {}
    PROVE  SaveStands'
<1>1. CASE saved' = {}
  BY <1>1 DEF SaveStands
<1>2. CASE saved' # {}
  <2>1. ini # NULL /\ store.past = {} /\ file' \in Written /\ saved' = Kept(ini)
    BY <1>2 DEF WriteFile
  <2>2. PICK d \in Seen : file' = iniparser_dump_ini(d)
    BY <2>1 DEF Written
  <2>3. Good(d) /\ d = ini
    BY <2>1, SeenGood DEF Typed
  <2>4. Good(d) /\ file' = iniparser_dump_ini(d) /\ saved' = Kept(d)
    BY <2>1, <2>2, <2>3
  <2>. QED
    BY <2>4 DEF SaveStands
<1>. QED
  BY <1>1, <1>2

LEMMA OpenStands == ASSUME NEW t \in Threads, SaveStands, OpenFile(t) PROVE SaveStands'
<1>1. saved' = {} \/ UNCHANGED <<file, saved>>
  BY DEF OpenFile
<1>. QED
  BY <1>1, NotSaving DEF SaveStands

LEMMA RestartStands ==
    ASSUME SaveStands, NoneWhileWriting, Restart
    PROVE  SaveStands' /\ NoneWhileWriting'
<1>1. saved = {} \/ file' = file
  BY DEF Restart, NoneWhileWriting
<1>2. saved' = saved /\ ~Writing'
  BY DEF Restart, Writing
<1>. QED
  BY <1>1, <1>2, NotSaving DEF SaveStands, NoneWhileWriting

\* A thread opens the file only by emptying it, and the one that completes a
\* save is no longer writing; nobody else is, the lock being held.
LEMMA StepWrites ==
    ASSUME IInv, Typed, NoneWhileWriting, NEW t \in Threads, Call(t) \/ Lock(t) \/ Inside(t)
    PROVE  NoneWhileWriting'
<1>. SUFFICES ASSUME NEW u \in Threads, pc'[u] = "open" PROVE saved' = {}
  BY DEF NoneWhileWriting, Writing
<1>1. PICK next : pc' = [pc EXCEPT ![t] = next]
  BY DEF Call, Lock, Inside, strlwc, Lookup, parser_setstr, parser_exit, OpenFile, WriteFile,
     trd_rwlock_unlock, Work
<1>2. CASE OpenFile(t)
  <2>1. CASE saved' = {}
    BY <2>1
  <2>2. CASE saved' = saved /\ pc' = [pc EXCEPT ![t] = "unlock"]
    <3>1. pc[u] = "open"
      BY <2>2 DEF Typed
    <3>. QED
      BY <2>2, <3>1 DEF NoneWhileWriting, Writing
  <2>. QED
    BY <1>2, <2>1, <2>2 DEF OpenFile, Work, AfterFailedOpen
<1>3. CASE WriteFile(t)
  <2>1. pc[t] = "open" /\ pc' = [pc EXCEPT ![t] = "unlock"]
    BY <1>3 DEF WriteFile
  <2>2. pc[u] = "open" /\ u # t
    BY <2>1 DEF Typed
  <2>3. writer = t /\ writer = u
    BY <2>1, <2>2 DEF IInv, Held, Getting
  <2>. QED
    BY <2>2, <2>3
<1>4. CASE \/ Call(t) \/ Lock(t) \/ strlwc(t) \/ Lookup(t) \/ parser_setstr(t)
           \/ parser_exit(t) \/ trd_rwlock_unlock(t)
  <2>1. saved' = saved
    BY <1>4 DEF Call, Lock, strlwc, Lookup, parser_setstr, parser_exit, trd_rwlock_unlock
  <2>2. pc'[t] # "open"
    BY <1>4 DEF Call, Lock, strlwc, Lookup, parser_setstr, parser_exit, trd_rwlock_unlock, Work,
       Typed
  <2>3. pc[u] = "open"
    BY <1>1, <2>2 DEF Typed
  <2>. QED
    BY <2>1, <2>3 DEF NoneWhileWriting, Writing
<1>. QED
  BY <1>2, <1>3, <1>4 DEF Inside

LEMMA StepStands ==
    IInv /\ Typed /\ SaveStands /\ NoneWhileWriting /\ [Next]_vars
      => SaveStands' /\ NoneWhileWriting'
<1>. SUFFICES ASSUME IInv, Typed, SaveStands, NoneWhileWriting, [Next]_vars
              PROVE  SaveStands' /\ NoneWhileWriting'
  OBVIOUS
<1>1. CASE Restart
  BY <1>1, RestartStands
<1>2. ASSUME NEW t \in Threads, Call(t) \/ Lock(t) \/ Inside(t)
      PROVE  SaveStands' /\ NoneWhileWriting'
  <2>1. NoneWhileWriting'
    BY <1>2, StepWrites
  <2>2. CASE OpenFile(t)
    BY <2>1, <2>2, OpenStands
  <2>3. CASE WriteFile(t)
    <3>1. saved = {}
      BY <2>3 DEF WriteFile, NoneWhileWriting, Writing
    <3>. QED
      BY <2>1, <2>3, <3>1, WriteStands
  <2>4. CASE \/ Call(t) \/ Lock(t) \/ strlwc(t) \/ Lookup(t) \/ parser_setstr(t)
             \/ parser_exit(t) \/ trd_rwlock_unlock(t)
    <3>1. UNCHANGED <<file, saved>>
      BY <2>4 DEF Call, Lock, strlwc, Lookup, parser_setstr, parser_exit, trd_rwlock_unlock, Work
    <3>. QED
      BY <2>1, <3>1, NotSaving
  <2>. QED
    BY <1>2, <2>2, <2>3, <2>4 DEF Inside
<1>3. CASE UNCHANGED vars
  BY <1>3, NotSaving DEF vars, NoneWhileWriting, Writing
<1>. QED
  BY <1>1, <1>2, <1>3 DEF Next

LEMMA AlwaysStands == Spec => []SaveStands
<1>1. Init => SaveStands /\ NoneWhileWriting
  BY DEF Init, SaveStands, NoneWhileWriting
<1>. QED
  BY <1>1, StepStands, Always, AlwaysTyped, PTL DEF Spec

-----------------------------------------------------------------------------
(* Reading back what was saved.                                             *)

\* Lines that end in a newline and wait for no other.
Whole(L) ==
    /\ L \in Seq(Lines)
    /\ \A p \in 1..Len(L) : L[p].kind # "cut" /\ ~Continues(L[p])

AllFit(L) == \A p \in 1..Len(L) : Fits(L[p])

LEMMA NothingOpen ==
    ASSUME NEW L, Whole(L), NEW st, LoadRun(L, st)
    PROVE  \A p \in 0..Len(L) : st[p].front = <<>>
<1>1. PICK n \in Nat : n = Len(L)
  BY LenProperties DEF Whole
<1>. DEFINE closed == {p \in 0..n : st[p].front = <<>>}
<1>2. 0 \in closed
  BY <1>1 DEF LoadRun, Start
<1>3. ASSUME NEW p \in 1..n, p - 1 \in closed PROVE p \in closed
  <2>1. p - 1 \in 0..n /\ p \in 0..n
    BY <1>1
  <2>2. PICK s \in LoadStates : s = st[p - 1]
    BY <1>1, <2>1 DEF LoadRun
  <2>3. s.front = <<>>
    BY <1>3, <2>2
  <2>4. st[p] = ReadLine(s, L[p])
    BY <1>1, <2>2 DEF LoadRun
  <2>5. L[p] \in Lines /\ L[p].kind # "cut" /\ ~Continues(L[p])
    BY <1>1, ElementOfSeq DEF Whole
  <2>6. PICK r \in LoadStates : r = [s EXCEPT !.front = <<>>]
    BY DEF LoadStates
  <2>7. iniparser_line(r, L[p]).front = <<>>
    BY <2>6 DEF iniparser_line, LoadStates
  <2>8. ReadLine(s, L[p]).front = <<>>
    BY <2>3, <2>5, <2>6, <2>7 DEF ReadLine, LoadStates
  <2>. QED
    BY <2>1, <2>4, <2>8
<1>. HIDE DEF closed
<1>4. \A p \in 0..n : p \in closed
  BY <1>1, <1>2, <1>3, UpTo
<1>. QED
  BY <1>1, <1>4 DEF closed

\* One line that does not fit, and the load gives up.
LEMMA TooLong ==
    ASSUME NEW L, Whole(L), ~AllFit(L)
    PROVE  iniparser_load(L) = NULL
<1>1. PICK n \in Nat : n = Len(L)
  BY LenProperties DEF Whole
<1>2. PICK q \in 1..n : ~Fits(L[q])
  BY <1>1 DEF AllFit
<1>3. PICK st : st = Loading(L)
  OBVIOUS
<1>4. LoadRun(L, st)
  BY <1>3, LoadSteps DEF Whole
<1>5. \A p \in 0..n : st[p].front = <<>> /\ st[p] \in LoadStates
  BY <1>1, <1>4, NothingOpen DEF LoadRun
<1>6. \A p \in 1..n : st[p] = ReadLine(st[p - 1], L[p])
  BY <1>1, <1>4 DEF LoadRun
<1>. DEFINE up == {i \in 0..(n - q) : st[q + i].given_up}
<1>7. 0 \in up
  <2>1. q - 1 \in 0..n
    BY <1>1
  <2>2. PICK s \in LoadStates : s = st[q - 1] /\ s.front = <<>>
    BY <1>5, <2>1
  <2>3. ReadLine(s, L[q]).given_up
    BY <1>2, <2>2 DEF ReadLine, LoadStates
  <2>4. st[q].given_up /\ q + 0 = q /\ 0 \in 0..(n - q)
    BY <1>6, <2>2, <2>3
  <2>. QED
    BY <2>4
<1>8. ASSUME NEW i \in 1..(n - q), i - 1 \in up PROVE i \in up
  <2>1. q + i \in 1..n /\ q + (i - 1) = (q + i) - 1 /\ (q + i) - 1 \in 0..n
    BY <1>1
  <2>2. PICK s \in LoadStates : s = st[(q + i) - 1]
    BY <1>5, <2>1
  <2>3. s.given_up
    BY <1>8, <2>1, <2>2
  <2>4. ReadLine(s, L[q + i]) = s
    BY <2>3 DEF ReadLine
  <2>5. st[q + i].given_up
    BY <1>6, <2>1, <2>2, <2>3, <2>4
  <2>. QED
    BY <2>5
<1>9. n - q \in up
  <2>1. n - q \in Nat /\ n - q \in 0..(n - q)
    BY <1>1
  <2>. HIDE DEF up
  <2>. QED
    BY <1>7, <1>8, <2>1, UpTo
<1>10. st[n].given_up
  <2>1. q + (n - q) = n
    BY <1>1
  <2>. QED
    BY <1>9, <2>1
<1>. QED
  BY <1>1, <1>3, <1>10 DEF iniparser_load

\* The line of an entry is whole, but for a backslash at its end.
LEMMA LineKind ==
    ASSUME NEW d, Good(d), NEW i \in 1..Len(d)
    PROVE  /\ LineOf(d[i]).quoted = <<>>
           /\ IsSection(d[i]) => /\ LineOf(d[i]).kind = "section" /\ LineOf(d[i]).rest = <<>>
                                 /\ LineOf(d[i]).text = d[i].key
           /\ ~IsSection(d[i]) => /\ LineOf(d[i]).kind = "value"
                                  /\ LineOf(d[i]).text = Tail(d[i].key)
                                  /\ LineOf(d[i]).rest = Shown(d[i].val, <<>>) \o d[i].cmt
<1>1. IsSection(d[i]) => d[i].key = <<d[i].key[1]>>
  BY KeyParts
<1>. QED
  BY <1>1 DEF LineOf, SectionLine, EntryLine, Name, ValueLine, Line

LEMMA KeyJoined ==
    ASSUME NEW k \in Keys, k # <<>>
    PROVE  KeyInSection(k[1], Tail(k)) = k
<1>1. PICK S : S = Names \cup {Root}
  OBVIOUS
<1>2. k \in Seq(S)
  BY <1>1 DEF Keys
<1>3. PICK n \in Nat \ {0} : n = Len(k)
  BY <1>2, EmptySeq
<1>4. k[1] \in S
  BY <1>2, <1>3, ElementOfSeq
<1>t. PICK t \in Seq(S) : /\ t = Tail(k) /\ Len(t) = Len(k) - 1
                          /\ \A i \in 1..Len(t) : t[i] = k[i + 1]
  BY <1>2, HeadTailProperties
<1>5. Len(t) = n - 1
  BY <1>3, <1>t
<1>6. PICK h \in Seq(S) : h = <<k[1]>> /\ Len(h) = 1 /\ h[1] = k[1]
  <2>1. PICK s \in S : s = k[1]
    BY <1>4
  <2>2. <<s>> \in Seq(S) /\ Len(<<s>>) = 1 /\ <<s>>[1] = s
    OBVIOUS
  <2>. QED
    BY <2>1, <2>2
<1>7. PICK j : j = h \o t
  OBVIOUS
<1>8. j \in Seq(S) /\ Len(j) = n /\ \A i \in 1..n : j[i] = IF i <= 1 THEN h[i] ELSE t[i - 1]
  <2>1. /\ j \in Seq(S) /\ Len(j) = Len(h) + Len(t)
        /\ \A i \in 1..(Len(h) + Len(t)) : j[i] = IF i <= Len(h) THEN h[i] ELSE t[i - Len(h)]
    BY <1>7, ConcatProperties
  <2>2. Len(h) + Len(t) = n
    BY <1>5, <1>6
  <2>. QED
    BY <1>6, <2>1, <2>2
<1>9. ASSUME NEW i \in 1..n PROVE j[i] = k[i]
  <2>1. CASE i = 1
    BY <1>6, <1>8, <2>1
  <2>2. CASE i # 1
    <3>1. ~(i <= 1) /\ i - 1 \in 1..(n - 1) /\ (i - 1) + 1 = i
      BY <2>2
    <3>2. i - 1 \in 1..Len(t)
      BY <1>5, <3>1
    <3>3. t[i - 1] = k[(i - 1) + 1]
      BY <1>t, <3>2
    <3>4. j[i] = t[i - 1]
      BY <1>8, <3>1
    <3>. QED
      BY <3>1, <3>3, <3>4
  <2>. QED
    BY <2>1, <2>2
<1>10. j = k
  BY <1>2, <1>3, <1>8, <1>9, SeqEqual
<1>. QED
  BY <1>t, <1>6, <1>7, <1>10 DEF KeyInSection

\* No entry is saved twice.
LEMMA OneLine ==
    ASSUME NEW d, Good(d), NEW n \in Nat, NEW own \in [1..n -> 1..Len(d)], Blocks(d, own, n)
    PROVE  \A p, r \in 1..n : own[p] = own[r] => p = r
<1>1. ASSUME NEW a \in 1..Len(d), Before(d, a, a) PROVE FALSE
  <2>1. Len(d) \in Nat /\ ~(a < a)
    BY LenProperties DEF Good
  <2>2. PICK h \in 1..Len(d) : \E k \in 1..Len(d) :
          /\ h < k /\ IsSection(d[h]) /\ IsSection(d[k])
          /\ d[h].key[1] = d[k].key[1]
    BY <1>1, <2>1 DEF Before
  <2>3. PICK k \in 1..Len(d) : /\ h < k /\ IsSection(d[h]) /\ IsSection(d[k])
                               /\ d[h].key[1] = d[k].key[1]
    BY <2>2
  <2>4. h = k
    BY <2>3, SectionOnce
  <2>. QED
    BY <2>1, <2>3, <2>4
<1>2. ASSUME NEW p \in 1..n, NEW r \in 1..n, own[p] = own[r], p < r PROVE FALSE
  <2>1. Before(d, own[p], own[p])
    BY <1>2 DEF Blocks
  <2>. QED
    BY <1>1, <2>1
<1>3. \A p, r \in 1..n : p # r => p < r \/ r < p
  OBVIOUS
<1>. QED
  BY <1>2, <1>3

\* What a line that is whole and fits does to the loader.
LEMMA LineDone ==
    ASSUME NEW s \in LoadStates, s.front = <<>>, ~s.given_up,
           NEW line \in Lines, line.kind # "cut", ~Continues(line), Fits(line),
           NEW r, r = ReadLine(s, line)
    PROVE  /\ ~r.given_up
           /\ line.kind = "section" =>
                /\ r.errs = 0 /\ r.section = line.text[1] /\ r.valcmt = s.valcmt
                /\ r.dict = dictionary_set_comment(s.dict, line.text, NULL, <<>>)
           /\ line.kind = "value" =>
                /\ r.errs = 0 /\ r.section = s.section
                /\ r.valcmt = (IF CommentOf(line) = <<>> THEN s.valcmt ELSE CommentOf(line))
                /\ r.dict = dictionary_set_comment(s.dict, KeyInSection(s.section, line.text),
                                                   ValueOf(line), r.valcmt)
<1>1. PICK u \in LoadStates : u = [s EXCEPT !.front = <<>>]
  BY DEF LoadStates
<1>2. /\ ~u.given_up /\ u.dict = s.dict /\ u.section = s.section /\ u.valcmt = s.valcmt
  BY <1>1 DEF LoadStates
<1>3. r = iniparser_line(u, line)
  BY <1>1 DEF ReadLine
<1>4. ~r.given_up
  BY <1>2, <1>3 DEF iniparser_line, LoadStates
<1>5. ASSUME line.kind = "section"
      PROVE  /\ r.errs = 0 /\ r.section = line.text[1] /\ r.valcmt = s.valcmt
             /\ r.dict = dictionary_set_comment(s.dict, line.text, NULL, <<>>)
  BY <1>2, <1>3, <1>5 DEF iniparser_line, LoadStates
<1>6. ASSUME line.kind = "value"
      PROVE  /\ r.errs = 0 /\ r.section = s.section
             /\ r.valcmt = (IF CommentOf(line) = <<>> THEN s.valcmt ELSE CommentOf(line))
             /\ r.dict = dictionary_set_comment(s.dict, KeyInSection(s.section, line.text),
                                                ValueOf(line), r.valcmt)
  <2>1. PICK c : c = IF CommentOf(line) = <<>> THEN u.valcmt ELSE CommentOf(line)
    OBVIOUS
  <2>2. PICK e : e = dictionary_set_comment(u.dict, KeyInSection(u.section, line.text),
                                            ValueOf(line), c)
    OBVIOUS
  <2>3. r = [u EXCEPT !.dict = e, !.valcmt = c, !.errs = 0]
    BY <1>3, <1>6, <2>1, <2>2 DEF iniparser_line, LoadStates
  <2>4. r.dict = e /\ r.valcmt = c /\ r.errs = 0 /\ r.section = u.section
    BY <2>3 DEF LoadStates
  <2>. QED
    BY <1>2, <2>1, <2>2, <2>4
<1>. QED
  BY <1>4, <1>5, <1>6

\* What a load makes of the saved line of an entry, with the comment c.
ReadEntry(e, line, c) ==
    [key |-> e.key,
     val |-> IF IsSection(e) THEN NULL ELSE BeforeMark(line.rest),
     cmt |-> IF IsSection(e) THEN <<>> ELSE c]

\* g is what is read from the lines L; c[p] is the comment buffer after p of
\* them.
ReadBack(d, L, own, g, c) ==
    /\ Good(g) /\ Len(g) = Len(L)
    /\ c \in [0..Len(L) -> Texts] /\ c[0] = <<>>
    /\ \A p \in 1..Len(L) :
         /\ g[p] = ReadEntry(d[own[p]], L[p], c[p])
         /\ c[p] = IF IsSection(d[own[p]]) \/ CommentOf(L[p]) = <<>> THEN c[p - 1]
                   ELSE CommentOf(L[p])

LEMMA LoadBack ==
    ASSUME NEW d, Good(d), NEW L, NEW own, Copies(d, L, own), Blocks(d, own, Len(L)),
           Whole(L), AllFit(L)
    PROVE  \E c : ReadBack(d, L, own, iniparser_load(L), c)
<1>1. PICK n \in Nat : n = Len(L)
  BY LenProperties DEF Whole
<1>2. own \in [1..n -> 1..Len(d)] /\ Blocks(d, own, n) /\ n \in 0..n
  BY <1>1 DEF Copies
<1>3. PICK st : st = Loading(L)
  OBVIOUS
<1>4. LoadRun(L, st)
  BY <1>3, LoadSteps DEF Whole
<1>5. /\ \A p \in 0..n : st[p] \in LoadStates /\ st[p].front = <<>>
      /\ \A p \in 1..n : st[p] = ReadLine(st[p - 1], L[p])
      /\ st[0] = Start
  BY <1>1, <1>4, NothingOpen DEF LoadRun
<1>6. \A p \in 1..n : /\ L[p] \in Lines /\ L[p] = LineOf(d[own[p]])
                      /\ L[p].kind # "cut" /\ ~Continues(L[p]) /\ Fits(L[p])
  BY <1>1, ElementOfSeq DEF Whole, AllFit, Copies
<1>7. \A p, r \in 1..n : own[p] = own[r] => p = r
  BY <1>2, OneLine
<1>. DEFINE E(i) == ReadEntry(d[own[i]], L[i], st[i].valcmt)
            At(p) == /\ ~st[p].given_up /\ st[p].errs = 0
                     /\ p = 0 \/ st[p].section = d[own[p]].key[1]
                     /\ Len(st[p].dict) = p
                     /\ \A i \in 1..p : st[p].dict[i] = E(i)
            Next1(p) == st[p].valcmt = IF IsSection(d[own[p]]) \/ CommentOf(L[p]) = <<>>
                                       THEN st[p - 1].valcmt ELSE CommentOf(L[p])
            read == {p \in 0..n : At(p) /\ (p # 0 => Next1(p))}
<1>8. 0 \in read
  <2>1. ~st[0].given_up /\ st[0].errs = 0 /\ st[0].dict = <<>>
    BY <1>5 DEF Start
  <2>2. Len(st[0].dict) = 0 /\ 1..0 = {}
    BY <2>1, EmptySeq
  <2>3. 0 \in 0..n
    BY <1>1
  <2>. HIDE DEF E
  <2>. QED
    BY <2>1, <2>2, <2>3
<1>9. ASSUME NEW p \in 1..n, p - 1 \in read PROVE p \in read
  <2>1. p - 1 \in 0..n /\ p \in 0..n /\ p # 0
    BY <1>1
  <2>2. PICK s \in LoadStates : s = st[p - 1] /\ s.front = <<>>
    BY <1>5, <2>1
  <2>3. PICK r \in LoadStates : r = st[p] /\ r = ReadLine(s, L[p])
    BY <1>5, <2>1, <2>2
  <2>4. At(p - 1)
    <3>. HIDE DEF At, Next1
    <3>. QED
      BY <1>9
  <2>5. /\ ~s.given_up /\ s.errs = 0
        /\ p - 1 = 0 \/ s.section = d[own[p - 1]].key[1]
        /\ Len(s.dict) = p - 1
        /\ \A i \in 1..(p - 1) : s.dict[i] = E(i)
    <3>. HIDE DEF E
    <3>. QED
      BY <2>2, <2>4
  <2>6. Good(s.dict) /\ s.dict \in Seq(Entry) /\ s.section \in Names \cup {Root}
        /\ s.valcmt \in Texts /\ r.valcmt \in Texts
    BY DEF LoadStates
  <2>7. PICK j \in 1..Len(d) : j = own[p]
    BY <1>2
  <2>8. /\ ~r.given_up
        /\ L[p].kind = "section" =>
             /\ r.errs = 0 /\ r.section = L[p].text[1] /\ r.valcmt = s.valcmt
             /\ r.dict = dictionary_set_comment(s.dict, L[p].text, NULL, <<>>)
        /\ L[p].kind = "value" =>
             /\ r.errs = 0 /\ r.section = s.section
             /\ r.valcmt = (IF CommentOf(L[p]) = <<>> THEN s.valcmt ELSE CommentOf(L[p]))
             /\ r.dict = dictionary_set_comment(s.dict, KeyInSection(s.section, L[p].text),
                                                ValueOf(L[p]), r.valcmt)
    BY <1>6, <2>2, <2>3, <2>5, LineDone
  <2>9. /\ L[p].quoted = <<>>
        /\ IsSection(d[j]) => L[p].kind = "section" /\ L[p].text = d[j].key
        /\ ~IsSection(d[j]) => L[p].kind = "value" /\ L[p].text = Tail(d[j].key)
    <3>1. L[p] = LineOf(d[j])
      BY <1>6, <2>7
    <3>2. /\ LineOf(d[j]).quoted = <<>>
          /\ IsSection(d[j]) => LineOf(d[j]).kind = "section" /\ LineOf(d[j]).text = d[j].key
          /\ ~IsSection(d[j]) => LineOf(d[j]).kind = "value" /\ LineOf(d[j]).text = Tail(d[j].key)
      BY LineKind
    <3>. QED
      BY <3>1, <3>2
  <2>10. d[j].key \in EntryKeys /\ d[j].key \in Keys /\ d[j].key # <<>>
    BY DEF Good, EntryKeys, Named
  <2>11. ~HasKey(s.dict, d[j].key)
    <3>1. DOMAIN s.dict = 1..(p - 1)
      BY <2>5, <2>6, LenProperties
    <3>2. ASSUME NEW i \in 1..(p - 1) PROVE s.dict[i].key # d[j].key
      <4>1. i \in 1..n /\ i # p
        BY <1>1
      <4>2. s.dict[i].key = d[own[i]].key
        <5>1. s.dict[i] = E(i)
          BY <2>5
        <5>2. E(i).key = d[own[i]].key
          BY DEF ReadEntry
        <5>. HIDE DEF E
        <5>. QED
          BY <5>1, <5>2
      <4>3. own[i] \in 1..Len(d) /\ own[i] # j
        BY <1>2, <1>7, <2>7, <4>1
      <4>4. d[own[i]].key # d[j].key
        BY <4>3 DEF Good
      <4>. QED
        BY <4>2, <4>4
    <3>. QED
      BY <3>1, <3>2 DEF HasKey, Slots
  <2>12. /\ r.errs = 0 /\ r.section = d[j].key[1] /\ Next1(p)
         /\ r.dict = Append(s.dict, E(p))
    <3>1. CASE IsSection(d[j])
      <4>1. /\ r.errs = 0 /\ r.section = d[j].key[1] /\ r.valcmt = s.valcmt
            /\ r.dict = dictionary_set_comment(s.dict, d[j].key, NULL, <<>>)
        BY <2>8, <2>9, <3>1
      <4>2. <<>> \in Texts
        BY EmptySeq DEF Texts
      <4>3. PICK e : e = [key |-> d[j].key, val |-> NULL, cmt |-> <<>>]
        OBVIOUS
      <4>4. r.dict = Append(s.dict, e)
        <5>1. NULL \in Texts \cup {NULL}
          OBVIOUS
        <5>2. dictionary_set_comment(s.dict, d[j].key, NULL, <<>>)
                = Append(s.dict, [key |-> d[j].key, val |-> NULL, cmt |-> <<>>])
          BY <2>6, <2>10, <2>11, <4>2, <5>1, NewEntry
        <5>. QED
          BY <4>1, <4>3, <5>2
      <4>5. E(p) = e
        BY <2>7, <3>1, <4>3 DEF ReadEntry
      <4>6. Next1(p)
        BY <2>2, <2>3, <2>7, <3>1, <4>1
      <4>. HIDE DEF E, Next1
      <4>. QED
        BY <4>1, <4>4, <4>5, <4>6
    <3>2. CASE ~IsSection(d[j])
      <4>1. p # 1
        BY <1>2, <2>7, <3>2 DEF Blocks
      <4>2. p \in 2..n /\ p - 1 # 0
        BY <4>1
      <4>3. s.section = d[j].key[1]
        <5>1. d[own[p]].key[1] = d[own[p - 1]].key[1]
          BY <1>2, <2>7, <3>2, <4>2 DEF Blocks
        <5>. QED
          BY <2>5, <2>7, <4>2, <5>1
      <4>4. KeyInSection(s.section, L[p].text) = d[j].key
        BY <2>9, <2>10, <3>2, <4>3, KeyJoined
      <4>5. /\ r.errs = 0 /\ r.section = s.section
            /\ r.valcmt = (IF CommentOf(L[p]) = <<>> THEN s.valcmt ELSE CommentOf(L[p]))
            /\ r.dict = dictionary_set_comment(s.dict, d[j].key, ValueOf(L[p]), r.valcmt)
        BY <2>8, <2>9, <3>2, <4>4
      <4>6. ValueOf(L[p]) \in Texts /\ ValueOf(L[p]) = BeforeMark(L[p].rest)
        BY <1>6, <2>9, LineParts DEF ValueOf
      <4>7. PICK e : e = [key |-> d[j].key, val |-> ValueOf(L[p]), cmt |-> r.valcmt]
        OBVIOUS
      <4>8. r.dict = Append(s.dict, e)
        <5>1. ValueOf(L[p]) \in Texts \cup {NULL}
          BY <4>6
        <5>2. dictionary_set_comment(s.dict, d[j].key, ValueOf(L[p]), r.valcmt)
                = Append(s.dict, [key |-> d[j].key, val |-> ValueOf(L[p]), cmt |-> r.valcmt])
          BY <2>6, <2>10, <2>11, <5>1, NewEntry
        <5>. QED
          BY <4>5, <4>7, <5>2
      <4>9. E(p) = e
        BY <2>3, <2>7, <3>2, <4>6, <4>7 DEF ReadEntry
      <4>10. Next1(p)
        BY <2>2, <2>3, <2>7, <3>2, <4>5
      <4>. HIDE DEF E, Next1
      <4>. QED
        BY <4>3, <4>5, <4>8, <4>9, <4>10
    <3>. QED
      BY <3>1, <3>2
  <2>13. E(p) \in Entry
    <3>1. BeforeMark(L[p].rest) \in Texts
      BY <1>6, LineParts, MarkPlace
    <3>2. <<>> \in Texts
      BY EmptySeq DEF Texts
    <3>. QED
      BY <2>3, <2>6, <2>7, <2>10, <3>1, <3>2 DEF ReadEntry, Entry
  <2>. HIDE DEF E, Next1
  <2>14. Len(r.dict) = p /\ \A i \in 1..p : r.dict[i] = E(i)
    <3>1. /\ Len(r.dict) = Len(s.dict) + 1
          /\ \A i \in 1..Len(s.dict) : r.dict[i] = s.dict[i]
          /\ r.dict[Len(s.dict) + 1] = E(p)
      BY <2>6, <2>12, <2>13, AppendProperties
    <3>2. Len(r.dict) = p /\ r.dict[p] = E(p)
      <4>1. (p - 1) + 1 = p
        OBVIOUS
      <4>. QED
        BY <2>5, <3>1, <4>1
    <3>3. \A i \in 1..(p - 1) : r.dict[i] = E(i)
      BY <2>5, <3>1
    <3>4. \A i \in 1..p : i \in 1..(p - 1) \/ i = p
      OBVIOUS
    <3>. QED
      BY <3>2, <3>3, <3>4
  <2>15. At(p)
    BY <2>3, <2>7, <2>8, <2>12, <2>14
  <2>. HIDE DEF At
  <2>. QED
    BY <2>1, <2>12, <2>15
<1>10. \A p \in 0..n : p \in read
  <2>. HIDE DEF read
  <2>. QED
    BY <1>1, <1>8, <1>9, UpTo
<1>11. At(n)
  <2>. HIDE DEF At, Next1
  <2>. QED
    BY <1>2, <1>10
<1>12. \A p \in 1..n : Next1(p)
  <2>. HIDE DEF At, Next1
  <2>1. \A p \in 1..n : p \in 0..n /\ p # 0
    OBVIOUS
  <2>. QED
    BY <1>10, <2>1
<1>13. PICK g : g = st[n].dict
  OBVIOUS
<1>14. iniparser_load(L) = g
  BY <1>1, <1>3, <1>11, <1>13 DEF iniparser_load
<1>15. Good(g)
  BY <1>2, <1>5, <1>13 DEF LoadStates
<1>. DEFINE c == [p \in 0..n |-> st[p].valcmt]
<1>16. c \in [0..n -> Texts] /\ c[0] = <<>>
  <2>1. \A p \in 0..n : st[p].valcmt \in Texts
    BY <1>5 DEF LoadStates
  <2>2. 0 \in 0..n /\ st[0].valcmt = <<>>
    BY <1>1, <1>5 DEF Start
  <2>. QED
    BY <2>1, <2>2
<1>17. \A p \in 1..n : /\ g[p] = ReadEntry(d[own[p]], L[p], c[p])
                       /\ c[p] = IF IsSection(d[own[p]]) \/ CommentOf(L[p]) = <<>> THEN c[p - 1]
                                 ELSE CommentOf(L[p])
  <2>1. \A p \in 1..n : p \in 0..n /\ p - 1 \in 0..n
    BY <1>1
  <2>2. \A p \in 1..n : c[p] = st[p].valcmt /\ c[p - 1] = st[p - 1].valcmt
    BY <2>1
  <2>. HIDE DEF c
  <2>. QED
    BY <1>11, <1>12, <1>13, <2>2
<1>18. Len(g) = n
  BY <1>11, <1>13
<1>. HIDE DEF c
<1>19. ReadBack(d, L, own, g, c)
  BY <1>1, <1>15, <1>16, <1>17, <1>18 DEF ReadBack
<1>. QED
  BY <1>14, <1>19

\* The value of the entry in slot i.
LEMMA FoundAt ==
    ASSUME NEW g, Good(g), NEW i \in 1..Len(g)
    PROVE  iniparser_getstring(g, g[i].key, NoValue) = g[i].val
<1>1. DOMAIN g = 1..Len(g)
  BY LenProperties DEF Good
<1>2. \A j \in Slots(g, g[i].key) : j = i
  BY <1>1 DEF Slots, Good
<1>3. i \in Slots(g, g[i].key)
  BY <1>1 DEF Slots
<1>. QED
  BY <1>2, <1>3 DEF iniparser_getstring, HasKey

\* The saved lines of a dictionary are whole when none ends in a backslash.
LEMMA CopiesWhole ==
    ASSUME NEW d, Good(d), NEW L, NEW own, Copies(d, L, own),
           \A p \in 1..Len(L) : ~Continues(L[p])
    PROVE  Whole(L)
<1>1. ASSUME NEW p \in 1..Len(L) PROVE L[p].kind # "cut"
  <2>1. own[p] \in 1..Len(d) /\ L[p] = LineOf(d[own[p]])
    BY DEF Copies
  <2>. QED
    BY <2>1, LineKind
<1>. QED
  BY <1>1 DEF Whole, Copies

LEMMA KeptEntry ==
    ASSUME NEW d, Good(d), NEW e \in Kept(d)
    PROVE  \E j \in 1..Len(d) : /\ e = d[j] /\ ~IsSection(d[j])
                                /\ HasKey(d, <<e.key[1]>>)
                                /\ e.val # NULL
                                /\ BeforeMark(e.val \o e.cmt) = e.val
<1>1. /\ e \in ToSet(d) /\ Len(e.key) > 1
      /\ HasKey(d, <<e.key[1]>>)
      /\ e.val # NULL
      /\ BeforeMark(e.val \o e.cmt) = e.val
  BY DEF Kept
<1>2. PICK j \in 1..Len(d) : e = d[j]
  BY <1>1, LenProperties DEF ToSet, Good
<1>3. ~IsSection(d[j])
  <2>1. PICK l \in Nat : l = Len(d[j].key)
    BY KeyParts
  <2>2. l > 1
    BY <1>1, <1>2, <2>1
  <2>3. l # 1
    BY <2>2
  <2>. QED
    BY <2>1, <2>3 DEF IsSection
<1>. QED
  BY <1>1, <1>2, <1>3

\* A section that is there has a slot.
LEMMA SectionSlot ==
    ASSUME NEW d, Good(d), NEW s, HasKey(d, <<s>>)
    PROVE  \E h \in SectionSlots(d) : d[h].key[1] = s
<1>1. DOMAIN d = 1..Len(d)
  BY LenProperties DEF Good
<1>2. PICK h \in 1..Len(d) : d[h].key = <<s>>
  BY <1>1 DEF HasKey, Slots
<1>3. IsSection(d[h]) /\ d[h].key[1] = s
  <2>1. Len(<<s>>) = 1 /\ <<s>>[1] = s
    OBVIOUS
  <2>. QED
    BY <1>2, <2>1 DEF IsSection
<1>. QED
  BY <1>3 DEF SectionSlots

\* With something to keep, the dictionary is saved section by section, and
\* its lines are whole.
LEMMA KeptSaved ==
    ASSUME NEW d, Good(d), Kept(d) # {}, NEW L, L = iniparser_dump_ini(d)
    PROVE  Whole(L) /\ SavedLines(d, L, SectionSlots(d))
<1>1. PICK e \in Kept(d) : TRUE
  OBVIOUS
<1>2. HasKey(d, <<e.key[1]>>)
  BY KeptEntry
<1>3. Sections(d) # <<>>
  <2>1. SectionSlots(d) # {}
    BY <1>2, SectionSlot
  <2>. QED
    BY <2>1, DumpPlain
<1>4. SavedLines(d, L, SectionSlots(d))
  BY <1>3, DumpCopied
<1>5. PICK own : Copies(d, L, own)
  BY <1>4 DEF SavedLines
<1>6. DOMAIN L = 1..Len(L)
  BY <1>5, LenProperties DEF Copies
<1>7. \A p \in 1..Len(L) : ~Continues(L[p])
  BY <1>6 DEF Kept
<1>. QED
  BY <1>4, <1>5, <1>7, CopiesWhole

\* A start reads back every entry that was kept, or gives up on a line that
\* does not fit.
LEMMA KeptIsRead ==
    ASSUME NEW d, Good(d), NEW e \in Kept(d), NEW L, L = iniparser_dump_ini(d)
    PROVE  IF AllFit(L)
           THEN /\ iniparser_load(L) # NULL
                /\ iniparser_getstring(iniparser_load(L), e.key, NoValue) = e.val
           ELSE iniparser_load(L) = NULL
<1>1. Whole(L) /\ SavedLines(d, L, SectionSlots(d))
  BY KeptSaved
<1>2. CASE ~AllFit(L)
  BY <1>1, <1>2, TooLong
<1>3. CASE AllFit(L)
  <2>1. PICK own : /\ Copies(d, L, own) /\ Blocks(d, own, Len(L))
                   /\ Covers(d, own, Len(L), SectionSlots(d))
    BY <1>1 DEF SavedLines
  <2>2. PICK g : g = iniparser_load(L)
    OBVIOUS
  <2>3. PICK c : ReadBack(d, L, own, g, c)
    BY <1>1, <1>3, <2>1, <2>2, LoadBack
  <2>4. PICK j \in 1..Len(d) : /\ e = d[j] /\ ~IsSection(d[j])
                               /\ HasKey(d, <<e.key[1]>>)
                               /\ e.val # NULL
                               /\ BeforeMark(e.val \o e.cmt) = e.val
    BY KeptEntry
  <2>5. PICK h \in SectionSlots(d) : d[h].key[1] = d[j].key[1]
    BY <2>4, SectionSlot
  <2>6. PICK p \in 1..Len(L) : own[p] = j
    BY <2>1, <2>5 DEF Covers
  <2>7. g[p] = ReadEntry(d[j], L[p], c[p]) /\ p \in 1..Len(g) /\ Good(g)
    BY <2>3, <2>6 DEF ReadBack
  <2>8. L[p].rest = e.val \o e.cmt
    <3>1. L[p] = LineOf(d[j])
      BY <2>1, <2>6 DEF Copies
    <3>2. Shown(d[j].val, <<>>) = e.val
      BY <2>4 DEF Shown
    <3>. QED
      BY <2>4, <3>1, <3>2, LineKind
  <2>9. g[p].key = e.key /\ g[p].val = e.val
    BY <2>4, <2>7, <2>8 DEF ReadEntry
  <2>10. iniparser_getstring(g, e.key, NoValue) = e.val
    BY <2>7, <2>9, FoundAt
  <2>11. g # NULL
    BY <2>7, NullAssumption DEF Good
  <2>. QED
    BY <1>3, <2>2, <2>10, <2>11
<1>. QED
  BY <1>2, <1>3

\* What a complete parser_fflush kept, a start finds with the value it had,
\* whatever threads, sets, crashes and restarts come after: for any keys,
\* texts and first files.
THEOREM SavesSurvive == Spec => []SavedSurvives
<1>1. Typed /\ SaveStands => SavedSurvives
  <2>. SUFFICES ASSUME Typed, SaveStands, NEW e \in saved
                PROVE  IF \A i \in DOMAIN file : Fits(file[i])
                       THEN /\ iniparser_load(file) # NULL
                            /\ iniparser_getstring(iniparser_load(file), e.key, NoValue) = e.val
                       ELSE iniparser_load(file) = NULL
    BY DEF SavedSurvives
  <2>1. PICK d : Good(d) /\ file = iniparser_dump_ini(d) /\ saved = Kept(d)
    BY DEF SaveStands
  <2>2. (\A i \in DOMAIN file : Fits(file[i])) <=> AllFit(file)
    BY LenProperties DEF Typed, AllFit
  <2>3. IF AllFit(file)
        THEN /\ iniparser_load(file) # NULL
             /\ iniparser_getstring(iniparser_load(file), e.key, NoValue) = e.val
        ELSE iniparser_load(file) = NULL
    BY <2>1, KeptIsRead
  <2>. QED
    BY <2>2, <2>3
<1>. QED
  BY <1>1, AlwaysTyped, AlwaysStands, PTL

-----------------------------------------------------------------------------
(* Saving what was read: the lines stay where they are.                     *)

\* Numbers that increase and are all those up to n are 1 to n.
Counts(f, m, n) ==
    /\ f \in [1..m -> 1..n]
    /\ \A p, r \in 1..m : p < r => f[p] < f[r]
    /\ \A j \in 1..n : \E p \in 1..m : f[p] = j

LEMMA IncreasingOnto ==
    ASSUME NEW m \in Nat, NEW n \in Nat, NEW f, Counts(f, m, n)
    PROVE  m = n /\ \A p \in 1..m : f[p] = p
<1>0. /\ f \in [1..m -> 1..n]
      /\ \A p, r \in 1..m : p < r => f[p] < f[r]
      /\ \A j \in 1..n : \E p \in 1..m : f[p] = j
  BY DEF Counts
<1>. DEFINE same == {i \in 0..m : \A k \in 1..i : f[k] = k}
<1>1. 0 \in same
  <2>1. 1..0 = {} /\ 0 \in 0..m
    OBVIOUS
  <2>. QED
    BY <2>1
<1>2. ASSUME NEW i \in 1..m, i - 1 \in same PROVE i \in same
  <2>1. \A k \in 1..(i - 1) : f[k] = k
    BY <1>2
  <2>2. f[i] \in 1..n /\ f[i] >= i
    <3>1. CASE i = 1
      BY <1>0, <3>1
    <3>2. CASE i # 1
      <4>1. i - 1 \in 1..m /\ i - 1 < i /\ i - 1 \in 1..(i - 1)
        BY <3>2
      <4>2. f[i - 1] = i - 1 /\ f[i - 1] < f[i]
        BY <1>0, <2>1, <4>1
      <4>3. f[i] \in 1..n
        BY <1>0
      <4>. QED
        BY <4>2, <4>3
    <3>. QED
      BY <3>1, <3>2
  <2>3. i \in 1..n
    BY <2>2
  <2>4. PICK r \in 1..m : f[r] = i
    BY <1>0, <2>3
  <2>5. ~(r < i)
    <3>. SUFFICES ASSUME r < i PROVE FALSE
      OBVIOUS
    <3>1. r \in 1..(i - 1)
      OBVIOUS
    <3>. QED
      BY <2>1, <2>4, <3>1
  <2>6. ~(i < r)
    BY <1>0, <2>2, <2>4
  <2>7. f[i] = i
    BY <2>4, <2>5, <2>6
  <2>8. \A k \in 1..i : k \in 1..(i - 1) \/ k = i
    OBVIOUS
  <2>9. i \in 0..m /\ \A k \in 1..i : f[k] = k
    BY <2>1, <2>7, <2>8
  <2>. QED
    BY <2>9
<1>3. m \in same
  <2>1. m \in 0..m
    OBVIOUS
  <2>. HIDE DEF same
  <2>. QED
    BY <1>1, <1>2, <2>1, UpTo
<1>4. \A p \in 1..m : f[p] = p
  BY <1>3
<1>5. m = n
  <2>1. ~(m < n)
    <3>. SUFFICES ASSUME m < n PROVE FALSE
      OBVIOUS
    <3>1. n \in 1..n
      OBVIOUS
    <3>2. PICK p \in 1..m : f[p] = n
      BY <1>0, <3>1
    <3>. QED
      BY <1>4, <3>2
  <2>2. ~(n < m)
    <3>. SUFFICES ASSUME n < m PROVE FALSE
      OBVIOUS
    <3>1. m \in 1..m
      OBVIOUS
    <3>2. f[m] = m /\ f[m] \in 1..n
      BY <1>0, <1>4, <3>1
    <3>. QED
      BY <3>2
  <2>. QED
    BY <2>1, <2>2
<1>. QED
  BY <1>4, <1>5

\* A dictionary as a load makes it: every entry is below its section.
Grouped(g) ==
    /\ Good(g) /\ Len(g) >= 1 /\ IsSection(g[1])
    /\ \A p \in 2..Len(g) : ~IsSection(g[p]) => g[p].key[1] = g[p - 1].key[1]

\* h is the section of j, and of what is between them.
Heads(g, h, j) ==
    /\ IsSection(g[h]) /\ h <= j
    /\ \A i \in h..j : g[i].key[1] = g[h].key[1]

LEMMA HeadExists ==
    ASSUME NEW g, Grouped(g), NEW j \in 1..Len(g)
    PROVE  \E h \in 1..Len(g) : Heads(g, h, j)
<1>1. PICK n \in Nat : n = Len(g) /\ n >= 1
  BY LenProperties DEF Grouped, Good
<1>. DEFINE below == {i \in 0..(n - 1) : \E h \in 1..n : Heads(g, h, i + 1)}
<1>2. 0 \in below
  <2>1. 1 \in 1..n /\ 0 + 1 = 1 /\ 0 \in 0..(n - 1)
    BY <1>1
  <2>2. Heads(g, 1, 1)
    <3>1. \A i \in 1..1 : i = 1
      OBVIOUS
    <3>. QED
      BY <3>1 DEF Heads, Grouped
  <2>. QED
    BY <2>1, <2>2
<1>3. ASSUME NEW i \in 1..(n - 1), i - 1 \in below PROVE i \in below
  <2>1. (i - 1) + 1 = i /\ i + 1 \in 2..n /\ i + 1 \in 1..n /\ (i + 1) - 1 = i /\ i \in 0..(n - 1)
    BY <1>1
  <2>2. PICK h \in 1..n : Heads(g, h, i)
    BY <1>3, <2>1
  <2>3. CASE IsSection(g[i + 1])
    <3>1. \A k \in (i + 1)..(i + 1) : k = i + 1
      OBVIOUS
    <3>2. Heads(g, i + 1, i + 1)
      BY <2>3, <3>1 DEF Heads
    <3>. QED
      BY <2>1, <3>2
  <2>4. CASE ~IsSection(g[i + 1])
    <3>1. g[i + 1].key[1] = g[i].key[1]
      BY <1>1, <2>1, <2>4 DEF Grouped
    <3>2. h <= i /\ i \in h..i /\ g[i].key[1] = g[h].key[1]
      BY <2>2 DEF Heads
    <3>3. \A k \in h..(i + 1) : k \in h..i \/ k = i + 1
      OBVIOUS
    <3>4. h <= i + 1 /\ \A k \in h..(i + 1) : g[k].key[1] = g[h].key[1]
      BY <2>2, <3>1, <3>2, <3>3 DEF Heads
    <3>5. Heads(g, h, i + 1)
      BY <2>2, <3>4 DEF Heads
    <3>. QED
      BY <2>1, <3>5
  <2>. QED
    BY <2>3, <2>4
<1>4. \A i \in 0..(n - 1) : i \in below
  <2>1. n - 1 \in Nat
    BY <1>1
  <2>. HIDE DEF below
  <2>. QED
    BY <1>2, <1>3, <2>1, UpTo
<1>5. j - 1 \in 0..(n - 1) /\ (j - 1) + 1 = j
  BY <1>1
<1>6. j - 1 \in below
  BY <1>4, <1>5
<1>. QED
  BY <1>1, <1>5, <1>6

\* In a dictionary that is grouped, what is saved before is in a slot before.
LEMMA SavedInOrder ==
    ASSUME NEW g, Grouped(g), NEW a \in 1..Len(g), NEW b \in 1..Len(g), Before(g, a, b)
    PROVE  a < b
<1>1. Good(g) /\ Len(g) \in Nat
  BY LenProperties DEF Grouped, Good
<1>2. PICK x \in 1..Len(g) : Heads(g, x, a)
  BY HeadExists
<1>3. PICK y \in 1..Len(g) : Heads(g, y, b)
  BY HeadExists
<1>4. /\ IsSection(g[x]) /\ x <= a /\ \A i \in x..a : g[i].key[1] = g[x].key[1]
      /\ IsSection(g[y]) /\ y <= b /\ \A i \in y..b : g[i].key[1] = g[y].key[1]
  BY <1>2, <1>3 DEF Heads
<1>5. g[a].key[1] = g[x].key[1] /\ g[b].key[1] = g[y].key[1]
  <2>1. a \in x..a /\ b \in y..b
    BY <1>1, <1>4
  <2>. QED
    BY <1>4, <2>1
<1>6. CASE /\ g[a].key[1] = g[b].key[1] /\ ~IsSection(g[b])
           /\ IsSection(g[a]) \/ a < b
  <2>1. CASE IsSection(g[a])
    <3>1. a = y
      BY <1>1, <1>4, <1>5, <1>6, <2>1, SectionOnce
    <3>2. a # b
      BY <1>6, <2>1
    <3>. QED
      BY <1>1, <1>4, <3>1, <3>2
  <2>. QED
    BY <1>6, <2>1
<1>7. CASE \E h, k \in 1..Len(g) :
             /\ h < k /\ IsSection(g[h]) /\ IsSection(g[k])
             /\ g[h].key[1] = g[a].key[1] /\ g[k].key[1] = g[b].key[1]
  <2>1. PICK h \in 1..Len(g), k \in 1..Len(g) :
             /\ h < k /\ IsSection(g[h]) /\ IsSection(g[k])
             /\ g[h].key[1] = g[a].key[1] /\ g[k].key[1] = g[b].key[1]
    BY <1>7
  <2>2. h = x
    BY <1>1, <1>4, <1>5, <2>1, SectionOnce
  <2>3. k = y
    BY <1>1, <1>4, <1>5, <2>1, SectionOnce
  <2>. SUFFICES ASSUME ~(a < b) PROVE FALSE
    OBVIOUS
  <2>4. k \in x..a
    BY <1>1, <1>4, <2>1, <2>2, <2>3
  <2>5. g[k].key[1] = g[h].key[1]
    BY <1>4, <2>2, <2>4
  <2>6. h = k
    BY <1>1, <2>1, <2>5, SectionOnce
  <2>. QED
    BY <1>1, <2>1, <2>6
<1>. QED
  BY <1>6, <1>7 DEF Before

\* Saving a dictionary that is grouped writes one line for each entry, in
\* their order.
LEMMA DumpInPlace ==
    ASSUME NEW g, Grouped(g), NEW L, L = iniparser_dump_ini(g)
    PROVE  \E own : /\ Copies(g, L, own) /\ Blocks(g, own, Len(L))
                    /\ Len(L) = Len(g) /\ \A p \in 1..Len(g) : own[p] = p
<1>1. PICK n \in Nat : n = Len(g) /\ n >= 1 /\ Good(g)
  BY LenProperties DEF Grouped, Good
<1>2. 1 \in SectionSlots(g)
  BY <1>1 DEF Grouped, SectionSlots
<1>3. Sections(g) # <<>>
  BY <1>1, <1>2, DumpPlain
<1>4. PICK own : /\ Copies(g, L, own) /\ Blocks(g, own, Len(L))
                 /\ Covers(g, own, Len(L), SectionSlots(g))
  BY <1>1, <1>3, DumpCopied DEF SavedLines
<1>5. PICK m \in Nat : m = Len(L)
  BY <1>4, LenProperties DEF Copies
<1>6. own \in [1..m -> 1..n]
  BY <1>1, <1>4, <1>5 DEF Copies
<1>7. ASSUME NEW p \in 1..m, NEW r \in 1..m, p < r PROVE own[p] < own[r]
  <2>1. Before(g, own[p], own[r])
    BY <1>4, <1>5, <1>7 DEF Blocks
  <2>. QED
    BY <1>1, <1>6, <2>1, SavedInOrder
<1>8. ASSUME NEW j \in 1..n PROVE \E p \in 1..m : own[p] = j
  <2>1. PICK h \in 1..n : Heads(g, h, j)
    BY <1>1, HeadExists
  <2>2. j \in h..j /\ h \in SectionSlots(g)
    BY <1>1, <2>1 DEF Heads, SectionSlots
  <2>3. g[j].key[1] = g[h].key[1]
    BY <2>1, <2>2 DEF Heads
  <2>. QED
    BY <1>1, <1>4, <1>5, <2>2, <2>3 DEF Covers
<1>9. m = n /\ \A p \in 1..m : own[p] = p
  <2>1. Counts(own, m, n)
    BY <1>6, <1>7, <1>8 DEF Counts
  <2>. QED
    BY <1>1, <1>5, <2>1, IncreasingOnto
<1>. QED
  BY <1>1, <1>4, <1>5, <1>9

\* What is read from saved lines is grouped.
LEMMA ReadGrouped ==
    ASSUME NEW d, Good(d), NEW L, NEW own, Copies(d, L, own), Blocks(d, own, Len(L)),
           NEW g, NEW c, ReadBack(d, L, own, g, c)
    PROVE  Grouped(g)
<1>1. PICK n \in Nat : n = Len(L) /\ n = Len(g) /\ n >= 1 /\ Good(g)
  BY LenProperties DEF Copies, Blocks, ReadBack
<1>2. \A p \in 1..n : g[p].key = d[own[p]].key
  <2>1. \A p \in 1..n : g[p] = ReadEntry(d[own[p]], L[p], c[p])
    BY <1>1 DEF ReadBack
  <2>2. \A e, l, k : ReadEntry(e, l, k).key = e.key
    BY DEF ReadEntry
  <2>. QED
    BY <2>1, <2>2
<1>3. \A p \in 1..n : IsSection(g[p]) <=> IsSection(d[own[p]])
  BY <1>2 DEF IsSection
<1>4. IsSection(g[1])
  BY <1>1, <1>3 DEF Blocks
<1>5. ASSUME NEW p \in 2..n, ~IsSection(g[p]) PROVE g[p].key[1] = g[p - 1].key[1]
  <2>1. p \in 1..n /\ p - 1 \in 1..n
    OBVIOUS
  <2>2. d[own[p]].key[1] = d[own[p - 1]].key[1]
    BY <1>1, <1>3, <1>5, <2>1 DEF Blocks
  <2>. QED
    BY <1>2, <2>1, <2>2
<1>. QED
  BY <1>1, <1>4, <1>5 DEF Grouped

\* A comment as the loader hands it down: its first piece has the mark, and
\* its last one no backslash.
Remark(c) ==
    /\ c \in Texts
    /\ c # <<>> => c[1] \in Marks /\ Last(c) \notin Slashed

\* No piece of v is the mark of a comment.
Unmarked(v) == v \in Texts /\ \A i \in 1..Len(v) : v[i] \notin Marks

LEMMA RemarkRead ==
    ASSUME NEW line \in Lines, line.kind = "value", line.quoted = <<>>, ~Continues(line)
    PROVE  Remark(CommentOf(line)) /\ Unmarked(BeforeMark(line.rest))
<1>1. PICK text \in Texts : text = line.rest
  BY LineParts
<1>2. PICK n \in Nat : n = Len(text)
  BY LenProperties DEF Texts
<1>3. PICK k \in 0..n :
        /\ FromMark(text) = SubSeq(text, k + 1, n)
        /\ BeforeMark(text) \in Texts /\ FromMark(text) \in Texts
        /\ Len(BeforeMark(text)) = k
        /\ \A i \in 1..k : BeforeMark(text)[i] = text[i] /\ text[i] \notin Marks
        /\ k # n => text[k + 1] \in Marks
  BY <1>2, MarkPlace
<1>4. Unmarked(BeforeMark(text))
  BY <1>3 DEF Unmarked
<1>5. Remark(FromMark(text))
  <2>. SUFFICES ASSUME FromMark(text) # <<>>
                PROVE  FromMark(text)[1] \in Marks /\ Last(FromMark(text)) \notin Slashed
    BY <1>3 DEF Remark
  <2>1. \A i \in (k + 1)..n : text[i] \in Pieces
    <3>1. \A i \in (k + 1)..n : i \in 1..n
      BY <1>2
    <3>. QED
      BY <1>2, <3>1, ElementOfSeq DEF Texts
  <2>2. k + 1 \in Int /\ n \in Int
    BY <1>2
  <2>3. PICK f : f = FromMark(text)
    OBVIOUS
  <2>4. /\ f \in Seq(Pieces)
        /\ Len(f) = IF k + 1 <= n THEN n - (k + 1) + 1 ELSE 0
        /\ \A i \in 1..(n - (k + 1) + 1) : f[i] = text[k + 1 + i - 1]
    BY <1>3, <2>1, <2>2, <2>3, SubSeqProperties
  <2>5. k # n /\ k + 1 <= n
    <3>1. Len(f) # 0
      BY <2>3, <2>4, EmptySeq
    <3>2. k + 1 <= n
      BY <2>4, <3>1
    <3>. QED
      BY <1>2, <3>2
  <2>6. Len(f) = n - k /\ n - (k + 1) + 1 = n - k
    BY <1>2, <2>4, <2>5
  <2>7. f[1] = text[k + 1]
    <3>1. 1 \in 1..(n - (k + 1) + 1) /\ k + 1 + 1 - 1 = k + 1
      BY <1>2, <2>5
    <3>. QED
      BY <2>4, <3>1
  <2>8. f[n - k] = text[n]
    <3>1. n - k \in 1..(n - (k + 1) + 1) /\ k + 1 + (n - k) - 1 = n
      BY <1>2, <2>5
    <3>. QED
      BY <2>4, <3>1
  <2>9. text[n] \notin Slashed
    <3>1. text # <<>>
      BY <1>2, <2>5, EmptySeq
    <3>. QED
      BY <1>1, <1>2, <3>1 DEF Continues, Last
  <2>. QED
    BY <1>3, <2>3, <2>5, <2>6, <2>7, <2>8, <2>9 DEF Last
<1>6. Remark(<<>>)
  BY EmptySeq DEF Remark, Texts
<1>. QED
  BY <1>1, <1>4, <1>5, <1>6 DEF CommentOf

\* A value and a comment written one after the other are read apart again.
LEMMA Rejoined ==
    ASSUME NEW v, Unmarked(v), NEW c, Remark(c)
    PROVE  BeforeMark(v \o c) = v /\ FromMark(v \o c) = c
<1>1. v \in Seq(Pieces) /\ c \in Seq(Pieces) /\ \A i \in 1..Len(v) : v[i] \notin Marks
  BY DEF Unmarked, Remark, Texts
<1>2. PICK l \in Nat : l = Len(v)
  BY <1>1, LenProperties
<1>3. PICK m \in Nat : m = Len(c)
  BY <1>1, LenProperties
<1>4. PICK t : t = v \o c
  OBVIOUS
<1>5. /\ t \in Texts /\ Len(t) = l + m
      /\ \A i \in 1..(l + m) : t[i] = IF i <= l THEN v[i] ELSE c[i - l]
  BY <1>1, <1>2, <1>3, <1>4, ConcatProperties DEF Texts
<1>6. PICK k \in 0..(l + m) :
        /\ FromMark(t) = SubSeq(t, k + 1, l + m)
        /\ BeforeMark(t) \in Texts
        /\ Len(BeforeMark(t)) = k
        /\ \A i \in 1..k : BeforeMark(t)[i] = t[i] /\ t[i] \notin Marks
        /\ k # l + m => t[k + 1] \in Marks
  BY <1>5, MarkPlace
<1>7. ~(k < l)
  <2>. SUFFICES ASSUME k < l PROVE FALSE
    OBVIOUS
  <2>1. k + 1 \in 1..l /\ k + 1 \in 1..(l + m) /\ k # l + m
    BY <1>2, <1>3
  <2>2. t[k + 1] = v[k + 1]
    BY <1>5, <2>1
  <2>. QED
    BY <1>1, <1>2, <1>6, <2>1, <2>2
<1>8. ~(l < k)
  <2>. SUFFICES ASSUME l < k PROVE FALSE
    OBVIOUS
  <2>1. l + 1 \in 1..k /\ l + 1 \in 1..(l + m) /\ ~(l + 1 <= l) /\ (l + 1) - l = 1 /\ m # 0
    BY <1>2, <1>3
  <2>2. t[l + 1] = c[1]
    BY <1>5, <2>1
  <2>3. c # <<>>
    BY <1>3, <2>1, EmptySeq
  <2>4. c[1] \in Marks
    BY <2>3 DEF Remark
  <2>. QED
    BY <1>6, <2>1, <2>2, <2>4
<1>9. k = l
  BY <1>2, <1>7, <1>8
<1>10. BeforeMark(t) = v
  <2>1. \A i \in 1..l : i \in 1..(l + m) /\ i <= l
    BY <1>3
  <2>2. \A i \in 1..l : BeforeMark(t)[i] = v[i]
    BY <1>5, <1>6, <1>9, <2>1
  <2>. QED
    BY <1>1, <1>2, <1>6, <1>9, <2>2, SeqEqual DEF Texts
<1>11. FromMark(t) = c
  <2>1. \A i \in (l + 1)..(l + m) : i \in 1..(l + m)
    BY <1>2
  <2>2. \A i \in (l + 1)..(l + m) : t[i] \in Pieces
    BY <1>5, <2>1, ElementOfSeq DEF Texts
  <2>3. l + 1 \in Int /\ l + m \in Int
    OBVIOUS
  <2>4. PICK f : f = SubSeq(t, l + 1, l + m)
    OBVIOUS
  <2>5. /\ f \in Seq(Pieces)
        /\ Len(f) = IF l + 1 <= l + m THEN (l + m) - (l + 1) + 1 ELSE 0
        /\ \A i \in 1..((l + m) - (l + 1) + 1) : f[i] = t[l + 1 + i - 1]
    BY <2>2, <2>3, <2>4, SubSeqProperties
  <2>6. Len(f) = m
    BY <1>2, <1>3, <2>5
  <2>7. ASSUME NEW i \in 1..m PROVE f[i] = c[i]
    <3>1. i \in 1..((l + m) - (l + 1) + 1) /\ l + 1 + i - 1 = l + i
      BY <1>2
    <3>2. l + i \in 1..(l + m) /\ ~(l + i <= l) /\ (l + i) - l = i
      BY <1>2
    <3>. QED
      BY <1>5, <2>5, <3>1, <3>2
  <2>8. f = c
    BY <1>1, <1>3, <2>5, <2>6, <2>7, SeqEqual
  <2>. QED
    BY <1>6, <1>9, <2>4, <2>8
<1>. QED
  BY <1>4, <1>10, <1>11

\* What is read from saved lines.
LEMMA ReadShape ==
    ASSUME NEW d, Good(d), NEW L, NEW own, Copies(d, L, own), Whole(L),
           NEW g, NEW c, ReadBack(d, L, own, g, c)
    PROVE  /\ \A p \in 0..Len(L) : Remark(c[p])
           /\ \A p \in 1..Len(L) :
                IF IsSection(g[p])
                THEN g[p].val = NULL /\ g[p].cmt = <<>> /\ c[p] = c[p - 1]
                ELSE /\ Unmarked(g[p].val) /\ g[p].cmt = c[p]
                     /\ g[p].val \o g[p].cmt # <<>> => Last(g[p].val \o g[p].cmt) \notin Slashed
                     /\ g[p].val = <<>> \/ c[p] = <<>> => c[p] = c[p - 1]
<1>1. PICK n \in Nat : n = Len(L)
  BY LenProperties DEF Whole
<1>2. \A p \in 1..n : own[p] \in 1..Len(d) /\ L[p] \in Lines /\ L[p] = LineOf(d[own[p]])
  BY <1>1, ElementOfSeq DEF Copies
<1>3. \A p \in 1..n : ~Continues(L[p])
  BY <1>1 DEF Whole
<1>4. ASSUME NEW p \in 1..n
      PROVE  /\ L[p].quoted = <<>>
             /\ ~IsSection(d[own[p]]) => L[p].kind = "value"
  <2>1. PICK i \in 1..Len(d) : i = own[p]
    BY <1>2
  <2>2. L[p] = LineOf(d[i])
    BY <1>2, <2>1
  <2>3. /\ LineOf(d[i]).quoted = <<>>
        /\ ~IsSection(d[i]) => LineOf(d[i]).kind = "value"
    BY LineKind
  <2>. QED
    BY <2>1, <2>2, <2>3
<1>5. /\ c \in [0..n -> Texts] /\ c[0] = <<>>
      /\ \A p \in 1..n :
           /\ g[p] = ReadEntry(d[own[p]], L[p], c[p])
           /\ c[p] = IF IsSection(d[own[p]]) \/ CommentOf(L[p]) = <<>> THEN c[p - 1]
                     ELSE CommentOf(L[p])
  BY <1>1 DEF ReadBack
<1>6. ASSUME NEW p \in 1..n
      PROVE  /\ IsSection(g[p]) <=> IsSection(d[own[p]])
             /\ IsSection(d[own[p]]) => g[p].val = NULL /\ g[p].cmt = <<>>
             /\ ~IsSection(d[own[p]]) => g[p].val = BeforeMark(L[p].rest) /\ g[p].cmt = c[p]
  <2>1. PICK e : e = d[own[p]]
    OBVIOUS
  <2>2. g[p] = ReadEntry(e, L[p], c[p])
    BY <1>5, <2>1
  <2>3. g[p].key = e.key
    BY <2>2 DEF ReadEntry
  <2>. QED
    BY <2>1, <2>2, <2>3 DEF ReadEntry, IsSection
<1>7. \A p \in 1..n : ~IsSection(d[own[p]]) =>
        Remark(CommentOf(L[p])) /\ Unmarked(BeforeMark(L[p].rest))
  BY <1>2, <1>3, <1>4, RemarkRead
<1>. DEFINE remarked == {p \in 0..n : Remark(c[p])}
<1>8. 0 \in remarked
  BY <1>5, EmptySeq DEF Remark, Texts
<1>9. ASSUME NEW p \in 1..n, p - 1 \in remarked PROVE p \in remarked
  <2>1. p \in 0..n /\ Remark(c[p - 1])
    BY <1>9
  <2>2. Remark(c[p])
    BY <1>5, <1>7, <2>1
  <2>. QED
    BY <2>1, <2>2
<1>10. \A p \in 0..n : Remark(c[p])
  <2>. HIDE DEF remarked
  <2>1. \A p \in 0..n : p \in remarked
    BY <1>1, <1>8, <1>9, UpTo
  <2>. QED
    BY <2>1 DEF remarked
<1>11. ASSUME NEW p \in 1..n, IsSection(g[p])
       PROVE  g[p].val = NULL /\ g[p].cmt = <<>> /\ c[p] = c[p - 1]
  BY <1>5, <1>6, <1>11
<1>12. ASSUME NEW p \in 1..n, ~IsSection(g[p])
       PROVE  /\ Unmarked(g[p].val) /\ g[p].cmt = c[p]
              /\ g[p].val \o g[p].cmt # <<>> => Last(g[p].val \o g[p].cmt) \notin Slashed
              /\ g[p].val = <<>> \/ c[p] = <<>> => c[p] = c[p - 1]
  <2>1. ~IsSection(d[own[p]]) /\ g[p].val = BeforeMark(L[p].rest) /\ g[p].cmt = c[p]
    BY <1>6, <1>12
  <2>2. Unmarked(g[p].val) /\ L[p].kind = "value" /\ L[p].quoted = <<>>
    BY <1>4, <1>7, <2>1
  <2>3. c[p] = IF CommentOf(L[p]) = <<>> THEN c[p - 1] ELSE CommentOf(L[p])
    BY <1>5, <2>1
  <2>4. CommentOf(L[p]) = IF g[p].val = <<>> THEN <<>> ELSE FromMark(L[p].rest)
    BY <2>1, <2>2 DEF CommentOf
  <2>5. g[p].val = <<>> \/ c[p] = <<>> => c[p] = c[p - 1]
    BY <2>3, <2>4
  <2>6. PICK v \in Seq(Pieces) : v = g[p].val
    BY <2>2 DEF Unmarked, Texts
  <2>7. PICK k \in Seq(Pieces) : k = c[p] /\ Remark(k)
    <3>1. p \in 0..n
      OBVIOUS
    <3>. QED
      BY <1>10, <3>1 DEF Remark, Texts
  <2>8. ASSUME v \o k # <<>> PROVE Last(v \o k) \notin Slashed
    <3>1. PICK l \in Nat : l = Len(v)
      BY LenProperties
    <3>2. PICK m \in Nat : m = Len(k)
      BY LenProperties
    <3>3. PICK t \in Seq(Pieces) :
            /\ t = v \o k /\ Len(t) = l + m
            /\ \A i \in 1..(l + m) : t[i] = IF i <= l THEN v[i] ELSE k[i - l]
      <4>1. PICK t : t = v \o k
        OBVIOUS
      <4>2. /\ t \in Seq(Pieces) /\ Len(t) = Len(v) + Len(k)
            /\ \A i \in 1..(Len(v) + Len(k)) : t[i] = IF i <= Len(v) THEN v[i] ELSE k[i - Len(v)]
        BY <4>1, ConcatProperties
      <4>. QED
        BY <3>1, <3>2, <4>1, <4>2
    <3>4. l + m # 0
      <4>1. t # <<>>
        BY <2>8, <3>3
      <4>2. Len(t) # 0
        BY <4>1, EmptySeq
      <4>. QED
        BY <3>3, <4>2
    <3>5. CASE k # <<>>
      <4>1. m # 0
        BY <3>2, <3>5, EmptySeq
      <4>2. t[l + m] = k[m]
        <5>1. l + m \in 1..(l + m) /\ ~(l + m <= l) /\ (l + m) - l = m
          BY <4>1
        <5>. QED
          BY <3>3, <5>1
      <4>3. k[m] \notin Slashed
        BY <2>7, <3>2, <3>5 DEF Remark, Last
      <4>. QED
        BY <3>3, <4>2, <4>3 DEF Last
    <3>6. CASE k = <<>>
      <4>1. m = 0
        BY <3>2, <3>6, EmptySeq
      <4>2. l # 0 /\ v # <<>>
        BY <3>1, <3>4, <4>1, EmptySeq
      <4>3. CommentOf(L[p]) = <<>>
        BY <2>3, <2>7, <3>6
      <4>4. FromMark(L[p].rest) = <<>>
        BY <2>4, <2>6, <4>2, <4>3
      <4>5. PICK text \in Texts : text = L[p].rest
        BY <1>2, LineParts
      <4>6. PICK j \in 0..Len(text) :
              /\ FromMark(text) = SubSeq(text, j + 1, Len(text))
              /\ Len(BeforeMark(text)) = j
              /\ \A i \in 1..j : BeforeMark(text)[i] = text[i]
        BY MarkPlace
      <4>7. j = l /\ v = BeforeMark(text)
        BY <2>1, <2>6, <3>1, <4>5, <4>6
      <4>8. Len(text) = l
        <5>1. PICK x \in Nat : x = Len(text)
          BY LenProperties DEF Texts
        <5>2. \A i \in (l + 1)..x : text[i] \in Pieces
          <6>1. \A i \in (l + 1)..x : i \in 1..x
            OBVIOUS
          <6>. QED
            BY <5>1, <6>1, ElementOfSeq DEF Texts
        <5>3. l + 1 \in Int /\ x \in Int
          OBVIOUS
        <5>4. SubSeq(text, l + 1, x) = <<>>
          BY <4>4, <4>5, <4>6, <4>7, <5>1
        <5>5. Len(SubSeq(text, l + 1, x)) = IF l + 1 <= x THEN x - (l + 1) + 1 ELSE 0
          BY <5>2, <5>3, SubSeqProperties
        <5>6. Len(SubSeq(text, l + 1, x)) = 0
          BY <5>4, EmptySeq
        <5>7. ~(l + 1 <= x)
          <6>. SUFFICES ASSUME l + 1 <= x PROVE FALSE
            OBVIOUS
          <6>1. x - (l + 1) + 1 = 0
            BY <5>5, <5>6
          <6>. QED
            BY <6>1
        <5>8. l <= x
          BY <4>6, <4>7, <5>1
        <5>. QED
          BY <5>1, <5>7, <5>8
      <4>9. v[l] = text[l]
        <5>1. l \in 1..l
          BY <4>2
        <5>. QED
          BY <4>6, <4>7, <5>1
      <4>10. text[l] \notin Slashed
        <5>1. text # <<>>
          BY <4>2, <4>8, EmptySeq
        <5>. QED
          BY <1>3, <2>2, <4>5, <4>8, <5>1 DEF Continues, Last
      <4>11. t[l + m] = v[l]
        <5>1. l + m \in 1..(l + m) /\ l + m <= l /\ l + m = l
          BY <4>1, <4>2
        <5>. QED
          BY <3>3, <5>1
      <4>. QED
        BY <3>3, <4>9, <4>10, <4>11 DEF Last
    <3>. QED
      BY <3>5, <3>6
  <2>. QED
    BY <2>1, <2>2, <2>5, <2>6, <2>7, <2>8
<1>. QED
  BY <1>1, <1>10, <1>11, <1>12

\* What was read is saved in place, and read again as it is.
LEMMA LoadTwice ==
    ASSUME NEW d, Good(d), Kept(d) # {}, NEW L, L = iniparser_dump_ini(d),
           NEW g, g = iniparser_load(L), g # NULL,
           NEW lines, lines = iniparser_dump_ini(g), AllFit(lines)
    PROVE  Good(g) /\ iniparser_load(lines) = g
<1>1. Whole(L) /\ SavedLines(d, L, SectionSlots(d))
  BY KeptSaved
<1>2. AllFit(L)
  BY <1>1, TooLong
<1>3. PICK own : Copies(d, L, own) /\ Blocks(d, own, Len(L))
  BY <1>1 DEF SavedLines
<1>4. PICK c : ReadBack(d, L, own, g, c)
  BY <1>1, <1>2, <1>3, LoadBack
<1>5. Grouped(g)
  BY <1>3, <1>4, ReadGrouped
<1>6. PICK n \in Nat : n = Len(g) /\ n = Len(L) /\ Good(g)
  BY <1>1, <1>4, LenProperties DEF ReadBack, Whole
<1>7. PICK at : /\ Copies(g, lines, at) /\ Blocks(g, at, Len(lines))
                /\ Len(lines) = Len(g) /\ \A p \in 1..Len(g) : at[p] = p
  BY <1>5, DumpInPlace
<1>8. \A p \in 1..n : /\ lines[p] = LineOf(g[p]) /\ lines[p] \in Lines
                      /\ p \in 1..Len(g) /\ p \in 1..Len(lines)
  <2>1. \A p \in 1..n : p \in 1..Len(g) /\ p \in 1..Len(lines) /\ at[p] = p
    BY <1>6, <1>7
  <2>2. \A p \in 1..n : lines[p] = LineOf(g[p])
    BY <1>7, <2>1 DEF Copies
  <2>. QED
    BY <1>6, <2>1, <2>2, LineTyped
<1>9. /\ \A p \in 0..n : Remark(c[p])
      /\ \A p \in 1..n :
           IF IsSection(g[p])
           THEN g[p].val = NULL /\ g[p].cmt = <<>> /\ c[p] = c[p - 1]
           ELSE /\ Unmarked(g[p].val) /\ g[p].cmt = c[p]
                /\ g[p].val \o g[p].cmt # <<>> => Last(g[p].val \o g[p].cmt) \notin Slashed
                /\ g[p].val = <<>> \/ c[p] = <<>> => c[p] = c[p - 1]
  BY <1>1, <1>3, <1>4, <1>6, ReadShape
<1>10. ASSUME NEW p \in 1..n
       PROVE  /\ lines[p].quoted = <<>>
              /\ IsSection(g[p]) => lines[p].rest = <<>>
              /\ ~IsSection(g[p]) => lines[p].rest = g[p].val \o g[p].cmt
  <2>1. lines[p] = LineOf(g[p]) /\ p \in 1..Len(g)
    BY <1>8
  <2>2. /\ LineOf(g[p]).quoted = <<>>
        /\ IsSection(g[p]) => LineOf(g[p]).rest = <<>>
        /\ ~IsSection(g[p]) => LineOf(g[p]).rest = Shown(g[p].val, <<>>) \o g[p].cmt
    BY <1>6, <2>1, LineKind
  <2>3. ~IsSection(g[p]) => Shown(g[p].val, <<>>) = g[p].val
    BY <1>9, NullAssumption DEF Unmarked, Shown
  <2>. QED
    BY <2>1, <2>2, <2>3
<1>11. \A p \in 1..n : ~Continues(lines[p])
  <2>. SUFFICES ASSUME NEW p \in 1..n PROVE ~Continues(lines[p])
    OBVIOUS
  <2>1. CASE IsSection(g[p])
    BY <1>10, <2>1 DEF Continues
  <2>2. CASE ~IsSection(g[p])
    BY <1>9, <1>10, <2>2 DEF Continues
  <2>. QED
    BY <2>1, <2>2
<1>12. Whole(lines)
  BY <1>6, <1>7, <1>11, CopiesWhole
<1>13. PICK h : h = iniparser_load(lines)
  OBVIOUS
<1>14. PICK b : ReadBack(g, lines, at, h, b)
  BY <1>6, <1>7, <1>12, <1>13, LoadBack
<1>15. /\ Good(h) /\ Len(h) = n /\ b[0] = <<>>
       /\ \A p \in 1..n :
            /\ h[p] = ReadEntry(g[p], lines[p], b[p])
            /\ b[p] = IF IsSection(g[p]) \/ CommentOf(lines[p]) = <<>> THEN b[p - 1]
                      ELSE CommentOf(lines[p])
  BY <1>6, <1>7, <1>14 DEF ReadBack
<1>16. ASSUME NEW p \in 1..n, ~IsSection(g[p])
       PROVE  /\ BeforeMark(lines[p].rest) = g[p].val
              /\ CommentOf(lines[p]) = IF g[p].val = <<>> THEN <<>> ELSE c[p]
  <2>1. p \in 0..n /\ Unmarked(g[p].val) /\ g[p].cmt = c[p] /\ Remark(c[p])
    BY <1>9, <1>16
  <2>2. lines[p].rest = g[p].val \o c[p] /\ lines[p].quoted = <<>>
    BY <1>10, <1>16, <2>1
  <2>3. BeforeMark(g[p].val \o c[p]) = g[p].val /\ FromMark(g[p].val \o c[p]) = c[p]
    BY <2>1, Rejoined
  <2>. QED
    BY <2>2, <2>3 DEF CommentOf
<1>. DEFINE agree == {p \in 0..n : b[p] = c[p]}
<1>17. 0 \in agree
  BY <1>4, <1>15 DEF ReadBack
<1>18. ASSUME NEW p \in 1..n, p - 1 \in agree PROVE p \in agree
  <2>1. p \in 0..n /\ b[p - 1] = c[p - 1]
    BY <1>18
  <2>2. CASE IsSection(g[p])
    BY <1>9, <1>15, <2>1, <2>2
  <2>3. CASE ~IsSection(g[p])
    <3>1. b[p] = IF g[p].val = <<>> \/ c[p] = <<>> THEN b[p - 1] ELSE c[p]
      BY <1>15, <1>16, <2>3
    <3>2. g[p].val = <<>> \/ c[p] = <<>> => c[p] = c[p - 1]
      BY <1>9, <2>3
    <3>3. b[p] = c[p]
      BY <2>1, <3>1, <3>2
    <3>. QED
      BY <2>1, <3>3
  <2>. QED
    BY <2>2, <2>3
<1>19. \A p \in 0..n : b[p] = c[p]
  <2>. HIDE DEF agree
  <2>1. \A p \in 0..n : p \in agree
    BY <1>6, <1>17, <1>18, UpTo
  <2>. QED
    BY <2>1 DEF agree
<1>20. ASSUME NEW p \in 1..n PROVE h[p] = g[p]
  <2>1. p \in 0..n /\ b[p] = c[p] /\ g[p] \in Entry
    <3>1. p \in 0..n /\ b[p] = c[p]
      BY <1>19
    <3>2. p \in 1..Len(g) /\ g \in Seq(Entry)
      BY <1>6, <1>8 DEF Good
    <3>. QED
      BY <3>1, <3>2, ElementOfSeq
  <2>2. h[p] = ReadEntry(g[p], lines[p], c[p])
    BY <1>15, <2>1
  <2>3. CASE IsSection(g[p])
    <3>1. g[p].val = NULL /\ g[p].cmt = <<>>
      BY <1>9, <2>3
    <3>2. h[p] = [key |-> g[p].key, val |-> NULL, cmt |-> <<>>]
      BY <2>2, <2>3 DEF ReadEntry
    <3>. QED
      BY <2>1, <3>1, <3>2 DEF Entry
  <2>4. CASE ~IsSection(g[p])
    <3>1. g[p].cmt = c[p] /\ BeforeMark(lines[p].rest) = g[p].val
      BY <1>9, <1>16, <2>4
    <3>2. h[p] = [key |-> g[p].key, val |-> g[p].val, cmt |-> g[p].cmt]
      BY <2>2, <2>4, <3>1 DEF ReadEntry
    <3>. QED
      BY <2>1, <3>2 DEF Entry
  <2>. QED
    BY <2>3, <2>4
<1>21. h = g
  <2>1. h \in Seq(Entry) /\ g \in Seq(Entry) /\ Len(h) = Len(g)
    BY <1>6, <1>15 DEF Good
  <2>2. \A p \in 1..Len(h) : h[p] = g[p]
    BY <1>15, <1>20
  <2>. QED
    BY <2>1, <2>2, SeqEqual
<1>. QED
  BY <1>6, <1>13, <1>21

\* Starting and saving over and over settles: what the first start after a
\* complete save read is what every later one reads, comments and all, and its
\* lines are the ones every later save writes.
THEOREM SavingSettles == Spec => []SaveSettles
<1>1. Typed /\ SaveStands => SaveSettles
  <2>. SUFFICES ASSUME Typed, SaveStands, saved # {},
                       iniparser_load(file) # NULL,
                       NEW first, first = iniparser_load(file),
                       NEW lines, lines = iniparser_dump_ini(first),
                       \A i \in DOMAIN lines : Fits(lines[i])
                PROVE  /\ iniparser_load(lines) # NULL
                       /\ \A i \in DOMAIN first :
                            iniparser_getstring(iniparser_load(lines), first[i].key, NoValue)
                              = first[i].val
                       /\ iniparser_dump_ini(iniparser_load(lines)) = lines
    BY DEF SaveSettles
  <2>1. PICK d : Good(d) /\ file = iniparser_dump_ini(d) /\ saved = Kept(d)
    BY DEF SaveStands
  <2>2. Good(first)
    BY LoadGood DEF Typed
  <2>3. AllFit(lines)
    <3>1. lines \in Seq(Lines)
      BY <2>2, DumpTyped
    <3>. QED
      BY <3>1, LenProperties DEF AllFit
  <2>4. iniparser_load(lines) = first
    BY <2>1, <2>3, LoadTwice
  <2>5. \A i \in DOMAIN first : iniparser_getstring(first, first[i].key, NoValue) = first[i].val
    <3>1. DOMAIN first = 1..Len(first)
      BY <2>2, LenProperties DEF Good
    <3>. QED
      BY <2>2, <3>1, FoundAt
  <2>. QED
    BY <2>4, <2>5
<1>. QED
  BY <1>1, AlwaysTyped, AlwaysStands, PTL

=============================================================================
