---------------------------- MODULE CommonProofs ----------------------------
(* The system information calls and the text codecs of common/common.c: the *)
(* balance of files and blocks for any CPUs, however the calls fail, and    *)
(* rows that are about one CPU; what is encoded is decoded again, for bytes *)
(* of every length.                                                         *)
EXTENDS SysInfo, Codec, FiniteSetTheorems, SequenceTheorems, WellFoundedInduction,
        TLAPS

\* The files that are open at each point of a call.
Opened ==
    CASE pc \in {"idle", "stat", "rss"} -> {}
      [] pc = "models" -> {"stat", "cpuinfo"}
      [] pc = "read" -> {"rss"}
      [] OTHER -> {"stat"}

\* The first k rows have a model, the others have none.
Filled(rows, k) == \A i \in DOMAIN rows : rows[i].model # NULL <=> i <= k

Early == {"idle", "rss", "read", "stat", "count", "calloc"}
Holding == {"cpuinfo", "models", "infer", "times", "freeing", "speeds", "assert"}

RowsRight ==
    /\ pc \in Holding => ci # NULL
    /\ pc \in Early => ci = NULL
    /\ pc \in Early \cup {"cpuinfo"} => model_idx = 0 /\ speed_idx = 0
    /\ pc = "calloc" => numcpus >= 1
    /\ ci # NULL => Filled(ci, model_idx) /\ numcpus >= 1
    /\ pc \in {"times", "speeds"} \/ (pc = "out" /\ ci # NULL) => model_idx = numcpus

BlocksRight ==
    /\ pc \in CpuInfoStates \cup {"assert", "abort"} => result = NULL
    /\ result # NULL => \A i \in DOMAIN result : result[i].model # NULL
    /\ blocks = (IF ci = NULL THEN 0 ELSE model_idx + 1)
              + (IF result = NULL THEN 0 ELSE Len(result) + 1)

Inv == TypeOK /\ open = Opened /\ RowsRight /\ BlocksRight

-----------------------------------------------------------------------------
(* Rows.                                                                    *)

\* There is at least one CPU and at most as many online as there are.
LEMMA OnlineCount ==
    ASSUME NEW o \in SUBSET CPUs, 0 \in o
    PROVE  Cardinality(o) \in 1..Cardinality(CPUs)
<1>1. IsFiniteSet(CPUs)
  BY SysAssumption
<1>2. IsFiniteSet(o) /\ Cardinality(o) <= Cardinality(CPUs)
  BY <1>1, FS_Subset
<1>3. Cardinality(o) \in Nat /\ Cardinality(CPUs) \in Nat
  BY <1>1, <1>2, FS_CardinalityType
<1>4. Cardinality(o) # 0
  BY <1>2, FS_EmptySet
<1> QED
  BY <1>2, <1>3, <1>4

\* cm_free_cpu_info frees the models there are, and the array.
LEMMA Freed ==
    ASSUME NEW n \in Nat, NEW rows \in [1..n -> Row], NEW k \in 0..n, Filled(rows, k)
    PROVE  FreedBy(rows) = k + 1
<1>1. Modelled(rows) = 1..k
  BY DEF Modelled, Filled
<1>2. Cardinality(1..k) = k
  BY FS_Interval
<1> QED
  BY <1>1, <1>2 DEF FreedBy

\* Likewise of the rows a caller has.
LEMMA FreedResult ==
    ASSUME NEW n \in Nat, NEW rows \in [1..n -> Row],
           \A i \in DOMAIN rows : rows[i].model # NULL
    PROVE  Len(rows) = n /\ FreedBy(rows) = Len(rows) + 1
<1>1. rows \in Seq(Row)
  BY SeqDef
<1>2. Len(rows) = n
  BY <1>1, LenProperties
<1>3. Filled(rows, n)
  BY DEF Filled
<1> QED
  BY <1>2, <1>3, Freed

-----------------------------------------------------------------------------
(* The steps that change rows, blocks or the result.                        *)

\* An array of rows is not NULL.
LEMMA NotNull ==
    ASSUME NEW n \in 1..Cardinality(CPUs), NEW rows \in [1..n -> Row]
    PROVE  rows # NULL
BY ArrayAssumption

LEMMA StepCount == ASSUME Inv, cm_cpu_num PROVE Inv'
<1>1. Cardinality(online) \in 1..Cardinality(CPUs)
  BY OnlineCount DEF Inv, TypeOK
<1>2. PICK num : num = Cardinality(online)
  OBVIOUS
<1>3. PICK most : most = Cardinality(CPUs)
  OBVIOUS
<1>4. num \in 1..most /\ ci = NULL /\ model_idx = 0 /\ speed_idx = 0 /\ most \in Nat
  BY <1>1, <1>2, <1>3, SysAssumption, FS_CardinalityType
     DEF Inv, RowsRight, Early, cm_cpu_num, SysAssumption
<1>5. TypeOK'
  BY <1>2, <1>3, <1>4 DEF Inv, TypeOK, cm_cpu_num, kernelVars, CpuInfoStates
<1>6. open' = Opened'
  BY DEF Inv, Opened, cm_cpu_num
<1>7. RowsRight' /\ BlocksRight'
  BY <1>2, <1>4 DEF Inv, TypeOK, RowsRight, BlocksRight, Early, Holding, CpuInfoStates, cm_cpu_num
<1> QED
  BY <1>5, <1>6, <1>7 DEF Inv

LEMMA StepAllocate == ASSUME Inv, AllocateRows PROVE Inv'
<1> DEFINE rows == [i \in 1..numcpus |-> Blank]
<1>1. numcpus \in 1..Cardinality(CPUs) /\ ci = NULL /\ model_idx = 0 /\ result = NULL
  BY DEF Inv, TypeOK, RowsRight, BlocksRight, Early, CpuInfoStates, AllocateRows
<1>2. Blank \in Row /\ Blank.model = NULL
  BY DEF Blank, Row
<1>3. rows \in [1..numcpus -> Row] /\ Filled(rows, 0)
  BY <1>2 DEF Filled
<1>4. rows # NULL
  BY <1>1, <1>3, NotNull
<1>5. ci' \in {NULL, rows} /\ (ci' = rows => blocks' = blocks + 1 /\ pc' = "cpuinfo")
        /\ (ci' = NULL => blocks' = blocks /\ pc' = "out")
  BY <1>1, <1>4 DEF AllocateRows
<1> HIDE DEF rows
<1>6. TypeOK'
  BY <1>1, <1>3, <1>5 DEF Inv, TypeOK, AllocateRows, kernelVars, CpuInfoStates
<1>7. open' = Opened'
  BY <1>5 DEF Inv, Opened, AllocateRows
<1>8. RowsRight' /\ BlocksRight'
  BY <1>1, <1>3, <1>4, <1>5
     DEF Inv, TypeOK, RowsRight, BlocksRight, Early, Holding, CpuInfoStates, AllocateRows
<1> QED
  BY <1>6, <1>7, <1>8 DEF Inv

\* A row gets its model.
LEMMA ModelIsSet ==
    ASSUME Inv, numcpus >= 1, model_idx < numcpus,
           NEW rows \in [1..numcpus -> Row], Filled(rows, model_idx),
           NEW name \in CPUs \cup {Unknown}, SetModel(rows, name)
    PROVE  /\ ci' \in [1..numcpus -> Row] /\ ci' # NULL
           /\ Filled(ci', model_idx + 1)
           /\ model_idx' = model_idx + 1 /\ blocks' = blocks + 1
<1>1. numcpus \in 1..Cardinality(CPUs) /\ model_idx \in 0..numcpus
  BY DEF Inv, TypeOK
<1>2. PICK row : row = [rows[model_idx + 1] EXCEPT !.model = name]
  OBVIOUS
<1>3. row \in Row /\ row.model = name /\ name # NULL
  <2>1. rows[model_idx + 1] \in Row
    BY <1>1
  <2> QED
    BY <1>2, <2>1, SysAssumption DEF Row, SysAssumption
<1>4. ci' = [rows EXCEPT ![model_idx + 1] = row]
  BY <1>2 DEF SetModel
<1>5. PICK new : new = ci'
  OBVIOUS
<1>6. new \in [1..numcpus -> Row] /\ Filled(new, model_idx + 1)
  BY <1>1, <1>3, <1>4, <1>5 DEF Filled
<1>7. new # NULL
  BY <1>1, <1>6, NotNull
<1> QED
  BY <1>5, <1>6, <1>7 DEF SetModel

LEMMA StepReadModel == ASSUME Inv, NEW c \in CPUs, ReadModel(c) PROVE Inv'
<1> DEFINE fast == format.speeds /\ HasRow(speed_idx)
           rows == IF fast THEN [ci EXCEPT ![speed_idx + 1].speed = c] ELSE ci
<1>1. /\ numcpus \in 1..Cardinality(CPUs) /\ ci \in [1..numcpus -> Row] /\ ci # NULL
      /\ model_idx \in 0..numcpus /\ speed_idx \in 0..numcpus
      /\ Filled(ci, model_idx) /\ result = NULL /\ blocks = model_idx + 1 /\ pc = "models"
  BY DEF Inv, TypeOK, RowsRight, BlocksRight, Holding, CpuInfoStates, ReadModel
<1>2. rows \in [1..numcpus -> Row] /\ Filled(rows, model_idx)
  <2>1. CASE fast
    <3>1. PICK row : row = [ci[speed_idx + 1] EXCEPT !.speed = c]
      OBVIOUS
    <3>2. ci[speed_idx + 1] \in Row
      BY <1>1, <2>1 DEF HasRow
    <3>3. row \in Row /\ row.model = ci[speed_idx + 1].model
      BY <3>1, <3>2 DEF Row
    <3>4. rows = [ci EXCEPT ![speed_idx + 1] = row]
      BY <2>1, <3>1
    <3> QED
      BY <1>1, <3>3, <3>4 DEF Filled
  <2> QED
    BY <1>1, <2>1
<1>3. speed_idx' \in 0..numcpus
  BY <1>1 DEF ReadModel, HasRow
<1>4. CASE format.models /\ HasRow(model_idx)
  <2>1. SetModel(rows, c)
    BY <1>4 DEF ReadModel
  <2> HIDE DEF rows
  <2>2. /\ ci' \in [1..numcpus -> Row] /\ ci' # NULL /\ Filled(ci', model_idx + 1)
        /\ model_idx' = model_idx + 1 /\ blocks' = blocks + 1
    BY <1>1, <1>2, <1>4, <2>1, ModelIsSet DEF HasRow
  <2>3. TypeOK'
    BY <1>1, <1>3, <1>4, <2>2 DEF Inv, TypeOK, ReadModel, kernelVars, HasRow
  <2> QED
    BY <1>1, <2>2, <2>3 DEF Inv, Opened, RowsRight, BlocksRight, Early, Holding, ReadModel
<1>5. CASE ~(format.models /\ HasRow(model_idx))
  <2>1. ci' = rows /\ model_idx' = model_idx /\ blocks' = blocks
    BY <1>5 DEF ReadModel
  <2> HIDE DEF rows
  <2>2. ci' # NULL
    BY <1>1, <1>2, <2>1, NotNull
  <2>3. TypeOK'
    BY <1>1, <1>2, <1>3, <2>1 DEF Inv, TypeOK, ReadModel, kernelVars
  <2> QED
    BY <1>1, <1>2, <2>1, <2>2, <2>3 DEF Inv, Opened, RowsRight, BlocksRight, Early, Holding, ReadModel
<1> QED
  BY <1>4, <1>5

LEMMA StepInfer == ASSUME Inv, InferModel PROVE Inv'
<1>1. /\ numcpus \in 1..Cardinality(CPUs) /\ ci \in [1..numcpus -> Row] /\ ci # NULL
      /\ model_idx \in 0..numcpus /\ model_idx < numcpus
      /\ Filled(ci, model_idx) /\ result = NULL /\ blocks = model_idx + 1 /\ pc = "infer"
  BY DEF Inv, TypeOK, RowsRight, BlocksRight, Holding, CpuInfoStates, InferModel, HasRow
<1>2. CASE pc' = "freeing" /\ UNCHANGED <<ci, model_idx, blocks>>
  BY <1>2 DEF Inv, TypeOK, Opened, RowsRight, BlocksRight, Early, Holding, CpuInfoStates,
              kernelVars, InferModel
<1>3. ASSUME NEW name, name = (IF model_idx > 0 THEN ci[model_idx].model ELSE Unknown),
             SetModel(ci, name), pc' = pc
      PROVE  Inv'
  <2>1. name \in CPUs \cup {Unknown}
    <3>1. CASE model_idx > 0
      <4>1. ci[model_idx] \in Row /\ ci[model_idx].model # NULL
        BY <1>1, <3>1 DEF Filled
      <4> QED
        BY <1>3, <3>1, <4>1 DEF Row
    <3> QED
      BY <1>1, <1>3, <3>1
  <2>2. /\ ci' \in [1..numcpus -> Row] /\ ci' # NULL /\ Filled(ci', model_idx + 1)
        /\ model_idx' = model_idx + 1 /\ blocks' = blocks + 1
    BY <1>1, <1>3, <2>1, ModelIsSet
  <2>3. TypeOK'
    BY <1>1, <1>3, <2>2 DEF Inv, TypeOK, InferModel, kernelVars
  <2> QED
    BY <1>1, <1>3, <2>2, <2>3
       DEF Inv, Opened, RowsRight, BlocksRight, Early, Holding, InferModel
<1> QED
  BY <1>2, <1>3 DEF InferModel

\* Only a field other than the model changes.
LEMMA StepFields ==
    ASSUME Inv, read_times \/ read_speeds
    PROVE  Inv'
<1>1. /\ numcpus \in 1..Cardinality(CPUs) /\ ci \in [1..numcpus -> Row]
      /\ Filled(ci, model_idx) /\ result = NULL /\ blocks = model_idx + 1
      /\ model_idx = numcpus /\ pc \in {"times", "speeds"} /\ online \subseteq CPUs
  BY DEF Inv, TypeOK, RowsRight, BlocksRight, Holding, CpuInfoStates, read_times, read_speeds
<1>2. PICK rows : rows = ci'
  OBVIOUS
<1>3. rows \in [1..numcpus -> Row] /\ \A i \in 1..numcpus : rows[i].model = ci[i].model
  <2>1. CASE read_times
    <3>1. \A i \in 1..numcpus : TimesOf(i) \in CPUs \cup {NULL}
      BY DEF TimesOf
    <3>2. \A i \in 1..numcpus :
            LET row == [ci[i] EXCEPT !.times = TimesOf(i)]
            IN  row \in Row /\ row.model = ci[i].model
      BY <1>1, <3>1 DEF Row
    <3>3. rows = [i \in 1..numcpus |-> [ci[i] EXCEPT !.times = TimesOf(i)]]
      BY <1>2, <2>1 DEF read_times
    <3> QED
      BY <3>2, <3>3
  <2>2. CASE read_speeds
    <3>1. PICK readable \in SUBSET online :
            rows = [i \in 1..numcpus |->
                      [ci[i] EXCEPT !.speed = IF i - 1 \in readable THEN i - 1 ELSE NULL]]
      BY <1>2, <2>2 DEF read_speeds
    <3>2. \A i \in 1..numcpus :
            LET row == [ci[i] EXCEPT !.speed = IF i - 1 \in readable THEN i - 1 ELSE NULL]
            IN  row \in Row /\ row.model = ci[i].model
      BY <1>1 DEF Row
    <3> QED
      BY <3>1, <3>2
  <2> QED
    BY <2>1, <2>2
<1>4. rows # NULL /\ Filled(rows, model_idx)
  BY <1>1, <1>3, NotNull DEF Filled
<1>5. /\ pc' \in {"assert", "speeds", "out"}
      /\ UNCHANGED <<online, format, open, blocks, numcpus, model_idx, speed_idx, at,
                     eintr, result, steady>>
  BY DEF read_times, read_speeds, kernelVars
<1>6. TypeOK'
  BY <1>2, <1>3, <1>5 DEF Inv, TypeOK, CpuInfoStates
<1> QED
  BY <1>1, <1>2, <1>4, <1>5, <1>6
     DEF Inv, Opened, RowsRight, BlocksRight, Early, Holding, CpuInfoStates

LEMMA StepFreeRows == ASSUME Inv, FreeRows PROVE Inv'
<1>1. /\ numcpus \in Nat /\ ci \in [1..numcpus -> Row] /\ ci # NULL /\ result = NULL
      /\ model_idx \in 0..numcpus /\ Filled(ci, model_idx) /\ blocks = model_idx + 1
  BY DEF Inv, TypeOK, RowsRight, BlocksRight, Holding, CpuInfoStates, FreeRows
<1>2. blocks' = 0
  BY <1>1, Freed DEF FreeRows
<1> QED
  BY <1>1, <1>2 DEF Inv, TypeOK, Opened, RowsRight, BlocksRight, Early, Holding, CpuInfoStates,
                    kernelVars, FreeRows

LEMMA StepReturn == ASSUME Inv, Return PROVE Inv'
<1>1. /\ result = NULL /\ numcpus \in 0..Cardinality(CPUs) /\ model_idx \in 0..numcpus
      /\ ci # NULL => /\ ci \in [1..numcpus -> Row] /\ Filled(ci, numcpus)
                      /\ numcpus >= 1 /\ blocks = numcpus + 1
      /\ ci = NULL => blocks = 0
  BY DEF Inv, TypeOK, RowsRight, BlocksRight, CpuInfoStates, Return
<1>2. ci # NULL => /\ numcpus \in 1..Cardinality(CPUs)
                   /\ \A i \in DOMAIN ci : ci[i].model # NULL
                   /\ Len(ci) = numcpus
  <2>1. ci # NULL => \A i \in DOMAIN ci : ci[i].model # NULL
    BY <1>1 DEF Filled
  <2> QED
    BY <1>1, <2>1, FreedResult
<1>3. 0 \in 0..Cardinality(CPUs)
  BY SysAssumption, FS_CardinalityType DEF SysAssumption
<1>4. result' = NULL \/ \E n \in 1..Cardinality(CPUs) : result' \in [1..n -> Row]
  BY <1>1, <1>2 DEF Return
<1>5. TypeOK'
  BY <1>1, <1>3, <1>4 DEF Inv, TypeOK, Return, kernelVars
<1> QED
  BY <1>1, <1>2, <1>5 DEF Inv, Opened, RowsRight, BlocksRight, Early, Holding, CpuInfoStates, Return

LEMMA StepFree == ASSUME Inv, cm_free_cpu_info PROVE Inv'
<1>1. ci = NULL /\ model_idx = 0 /\ result # NULL
  BY DEF Inv, RowsRight, Early, cm_free_cpu_info
<1>2. PICK n \in 1..Cardinality(CPUs) : result \in [1..n -> Row]
  BY <1>1 DEF Inv, TypeOK
<1>3. n \in Nat
  BY <1>2
<1>4. Len(result) = n /\ FreedBy(result) = n + 1
  BY <1>1, <1>2, <1>3, FreedResult DEF Inv, BlocksRight
<1>5. blocks' = 0
  BY <1>1, <1>3, <1>4 DEF Inv, BlocksRight, cm_free_cpu_info
<1> QED
  BY <1>1, <1>5 DEF Inv, TypeOK, Opened, RowsRight, BlocksRight, Early, Holding, CpuInfoStates,
                    rowVars, kernelVars, cm_free_cpu_info

-----------------------------------------------------------------------------
(* The invariant.                                                           *)

LEMMA InitInv == Init => Inv
<1>1. 0 \in 0..Cardinality(CPUs)
  BY SysAssumption, FS_CardinalityType DEF SysAssumption
<1> QED
  BY <1>1, SysAssumption DEF SysAssumption, Init, Inv, TypeOK, Opened, RowsRight, BlocksRight,
                             Early, Holding, CpuInfoStates

\* The steps named here leave the rows, the blocks and the result alone.
LEMMA NextInv == Inv /\ [Next]_vars => Inv'
<1> SUFFICES ASSUME Inv, [Next]_vars PROVE Inv'
  OBVIOUS
<1> USE SysAssumption
<1>1. CASE CallCpuInfo
  BY <1>1 DEF Inv, TypeOK, Opened, RowsRight, BlocksRight, Early, Holding, CpuInfoStates,
         rowVars, kernelVars, CallCpuInfo
<1>2. CASE OpenStat
  BY <1>2 DEF Inv, TypeOK, Opened, RowsRight, BlocksRight, Early, Holding, CpuInfoStates,
         rowVars, kernelVars, OpenStat, cm_open_file, FailedOpen
<1>3. CASE OpenCpuinfo
  BY <1>3 DEF Inv, TypeOK, Opened, RowsRight, BlocksRight, Early, Holding, CpuInfoStates,
         rowVars, kernelVars, OpenCpuinfo, cm_open_file, FailedOpen
<1>4. CASE EndModels
  BY <1>4 DEF Inv, TypeOK, Opened, RowsRight, BlocksRight, Early, Holding, CpuInfoStates,
         rowVars, kernelVars, EndModels
<1>5. CASE EndInfer
  BY <1>5 DEF Inv, TypeOK, Opened, RowsRight, BlocksRight, Early, Holding, CpuInfoStates,
         rowVars, kernelVars, EndInfer, HasRow
<1>6. CASE CallRss
  BY <1>6 DEF Inv, TypeOK, Opened, RowsRight, BlocksRight, Early, Holding, CpuInfoStates,
         rowVars, kernelVars, CallRss
<1>7. CASE Interrupted
  BY <1>7 DEF Inv, TypeOK, Opened, RowsRight, BlocksRight, Early, Holding, CpuInfoStates,
         rowVars, kernelVars, Interrupted
<1>8. CASE OpenSelf
  BY <1>8 DEF Inv, TypeOK, Opened, RowsRight, BlocksRight, Early, Holding, CpuInfoStates,
         rowVars, kernelVars, OpenSelf
<1>9. CASE ReadSelf
  BY <1>9 DEF Inv, TypeOK, Opened, RowsRight, BlocksRight, Early, Holding, CpuInfoStates,
         rowVars, kernelVars, ReadSelf
<1>10. ASSUME NEW c \in CPUs, ModelNoMemory(c) PROVE Inv'
  BY <1>10 DEF Inv, TypeOK, Opened, RowsRight, BlocksRight, Early, Holding, CpuInfoStates,
         rowVars, kernelVars, ModelNoMemory, SysAssumption
<1>11. ASSUME NEW c \in CPUs, Hotplug(c) PROVE Inv'
  BY <1>11 DEF Inv, TypeOK, Opened, RowsRight, BlocksRight, Early, Holding, CpuInfoStates,
         rowVars, kernelVars, Hotplug, SysAssumption
<1>13. CASE Abort
  BY <1>13 DEF Inv, TypeOK, Opened, RowsRight, BlocksRight, Early, Holding, CpuInfoStates,
         rowVars, kernelVars, Abort
<1>12. CASE UNCHANGED vars
  BY <1>12 DEF Inv, TypeOK, Opened, RowsRight, BlocksRight, Early, Holding, CpuInfoStates,
         rowVars, kernelVars, vars
<1> QED
  BY <1>1, <1>2, <1>3, <1>4, <1>5, <1>6, <1>7, <1>8, <1>9, <1>10, <1>11, <1>12, <1>13,
     StepCount, StepAllocate, StepReadModel, StepInfer, StepFields, StepFreeRows, StepReturn, StepFree
     DEF Next, CallStep

LEMMA InvAlways == Spec => []Inv
<1> QED
  BY InitInv, NextInv, PTL DEF Spec

\* Every variable of the calls stays in its range: no row past the array is
\* written, although more CPUs may be listed than were counted.
THEOREM TypeCorrect == Spec => []TypeOK
<1>1. Inv => TypeOK
  BY DEF Inv
<1> QED
  BY <1>1, InvAlways, PTL

\* Whichever steps of a call fail, no file stays open and no block stays live
\* but the ones of a result, for any number of CPUs.
THEOREM EverythingGivenBack == Spec => []GivesBack
<1>1. Inv => GivesBack
  BY SysAssumption DEF Inv, TypeOK, Opened, RowsRight, BlocksRight, Early, GivesBack
<1> QED
  BY <1>1, InvAlways, PTL

-----------------------------------------------------------------------------
(* One row is about one CPU.  The lines of a file are counted: line i is    *)
(* about the CPU that has i - 1 others before it, and as long as no CPU     *)
(* comes or goes row i got its parts from the lines i.                      *)

\* IsLine and Listed when o is online and a was the CPU read last.
LineOf(o, i, c) == c \in o /\ Cardinality({d \in o : d < c}) = i - 1
ListedIn(o, a, c) == c \in o /\ c > a /\ \A d \in o : d > a => c <= d

\* CPUs of o up to a.
CountTo(o, a) == Cardinality({d \in o : d <= a})

\* Rows that /proc/cpuinfo has told about.
Told == IF pc \in {"cpuinfo", "models"} THEN CountTo(online, at) ELSE numcpus

\* The rows with models, with speeds, with times are about the CPUs of the
\* lines of their numbers.
ModelsAgree(o, rows, k) == \A i \in 1..k : LineOf(o, i, rows[i].model)
SpeedsAgree(o, rows, k) == \A i \in 1..k : LineOf(o, i, rows[i].speed)
TimesAgree(o, rows, k) == \A i \in 1..k : LineOf(o, i, rows[i].times)

\* What /proc/cpuinfo leaves when it has no speeds.
NoSpeeds(rows, k) == \A i \in 1..k : rows[i].speed = NULL

RowsAgree ==
    /\ pc \in Early \cup {"cpuinfo"} => at = -1
    /\ steady => pc # "assert"
    /\ steady /\ pc = "calloc" => numcpus = Cardinality(online)
    /\ steady /\ ci # NULL /\ pc \notin {"freeing", "abort"} =>
         /\ numcpus = Cardinality(online)
         /\ format.models => model_idx = Told /\ ModelsAgree(online, ci, Told)
         /\ format.speeds => speed_idx = Told /\ SpeedsAgree(online, ci, Told)
         /\ ~format.speeds /\ pc # "out" => NoSpeeds(ci, numcpus)
         /\ pc = "speeds" => ~format.speeds
         /\ pc \in {"speeds", "out"} => TimesAgree(online, ci, numcpus)

\* A set of natural numbers that is not empty has a least element.
LEMMA LeastNat ==
    ASSUME NEW S \in SUBSET Nat, S # {}
    PROVE  \E m \in S : \A n \in S : m <= n
<1>1. PICK m \in S : \A n \in S : ~ (<<n, m>> \in OpToRel(<, Nat))
  BY NatLessThanWellFounded, WFMin
<1>2. \A n \in S : ~ (n < m)
  BY <1>1 DEF OpToRel
<1> QED
  BY <1>2

\* No two CPUs are on one line.
LEMMA LineOnce ==
    ASSUME NEW o \in SUBSET CPUs, NEW i \in Nat, NEW c, NEW d,
           LineOf(o, i, c), LineOf(o, i, d)
    PROVE  c = d
<1>1. IsFiniteSet(o) /\ c \in Nat /\ d \in Nat /\ \A e \in o : e \in Nat
  BY SysAssumption, FS_Subset DEF LineOf, SysAssumption
<1>2. ASSUME NEW x \in o, NEW y \in o, x < y
      PROVE  Cardinality({e \in o : e < x}) < Cardinality({e \in o : e < y})
  <2> DEFINE below == {e \in o : e < x}
             upper == {e \in o : e < y}
  <2>1. IsFiniteSet(below) /\ IsFiniteSet(upper)
    BY <1>1, FS_Subset
  <2>2. x \notin below /\ below \cup {x} \subseteq upper
    <3>1. x \in Nat /\ y \in Nat /\ ~(x < x) /\ \A e \in o : e < x => e < y
      BY <1>1, <1>2
    <3> QED
      BY <1>2, <3>1
  <2> HIDE DEF below, upper
  <2>3. Cardinality(below \cup {x}) = Cardinality(below) + 1
    BY <2>1, <2>2, FS_AddElement
  <2>4. Cardinality(below \cup {x}) <= Cardinality(upper)
    BY <2>1, <2>2, FS_Subset
  <2>5. Cardinality(below) < Cardinality(upper)
    BY <2>1, <2>3, <2>4, FS_CardinalityType
  <2> QED
    BY <2>5 DEF below, upper
<1>3. c \in o /\ d \in o /\ Cardinality({e \in o : e < c}) = Cardinality({e \in o : e < d})
  BY DEF LineOf
<1>4. IsFiniteSet({e \in o : e < c}) /\ IsFiniteSet({e \in o : e < d})
  BY <1>1, FS_Subset
<1>5. ~(c < d) /\ ~(d < c)
  <2>1. PICK n : n = Cardinality({e \in o : e < c})
    OBVIOUS
  <2>2. n = Cardinality({e \in o : e < d}) /\ ~(n < n)
    BY <1>3, <1>4, <2>1, FS_CardinalityType
  <2> QED
    BY <1>2, <1>3, <2>1, <2>2
<1> QED
  BY <1>1, <1>5

\* The CPU listed next is on the line after the ones read.
LEMMA NextLine ==
    ASSUME NEW o \in SUBSET CPUs, NEW a \in CPUs \cup {-1}, NEW c, ListedIn(o, a, c)
    PROVE  /\ CountTo(o, a) \in Nat /\ CountTo(o, a) < Cardinality(o)
           /\ LineOf(o, CountTo(o, a) + 1, c) /\ CountTo(o, c) = CountTo(o, a) + 1
<1> DEFINE read == {d \in o : d <= a}
<1>1. IsFiniteSet(o)
  BY SysAssumption, FS_Subset DEF SysAssumption
<1>0. /\ a \in Int /\ c \in o /\ c \in Nat /\ c > a /\ \A d \in o : d \in Nat
      /\ \A d \in o : d > a => c <= d
  BY SysAssumption DEF ListedIn, SysAssumption
<1>2. read = {d \in o : d < c} /\ read \cup {c} = {d \in o : d <= c}
  <2>1. \A d \in o : (d <= a <=> d < c) /\ (d <= a \/ d = c <=> d <= c)
    BY <1>0
  <2> QED
    BY <1>0, <2>1
<1>3. c \notin read /\ read \cup {c} \subseteq o
  <2>1. ~(c <= a)
    BY <1>0
  <2> QED
    BY <1>0, <2>1
<1>4. IsFiniteSet(read)
  BY <1>1, FS_Subset
<1>5. CountTo(o, a) = Cardinality(read) /\ CountTo(o, c) = Cardinality(read \cup {c})
  BY <1>2 DEF CountTo
<1> HIDE DEF read
<1>7. Cardinality(read \cup {c}) = Cardinality(read) + 1
  BY <1>3, <1>4, FS_AddElement
<1>8. Cardinality(read) \in Nat /\ Cardinality(o) \in Nat
  BY <1>1, <1>4, FS_CardinalityType
<1>9. Cardinality(read \cup {c}) <= Cardinality(o)
  BY <1>1, <1>3, FS_Subset
<1>10. LineOf(o, Cardinality(read) + 1, c)
  <2>1. PICK n \in Nat : n = Cardinality(read)
    BY <1>8
  <2>2. Cardinality({d \in o : d < c}) = n /\ n = n + 1 - 1
    BY <1>2, <2>1
  <2> QED
    BY <1>0, <2>1, <2>2 DEF LineOf
<1> QED
  BY <1>5, <1>7, <1>8, <1>9, <1>10

\* A CPU is listed unless all were read.
LEMMA SomeListed ==
    ASSUME NEW o \in SUBSET CPUs, NEW a \in CPUs \cup {-1}, \A c \in o : ~ListedIn(o, a, c)
    PROVE  CountTo(o, a) = Cardinality(o)
<1> DEFINE rest == {d \in o : d > a}
<1>1. a \in Int /\ \A d \in o : d \in Nat
  BY SysAssumption DEF SysAssumption
<1>2. rest = {}
  <2> SUFFICES ASSUME rest # {} PROVE FALSE
    OBVIOUS
  <2>1. rest \in SUBSET Nat
    BY <1>1
  <2>2. PICK m \in rest : \A n \in rest : m <= n
    BY <2>1, LeastNat
  <2> QED
    BY <2>2 DEF ListedIn
<1>3. {d \in o : d <= a} = o
  <2>1. \A d \in o : d <= a
    BY <1>1, <1>2
  <2> QED
    BY <2>1
<1> QED
  BY <1>3 DEF CountTo

\* There is a line for every CPU online.
LEMMA LineExists ==
    ASSUME NEW o \in SUBSET CPUs, NEW i \in 1..Cardinality(o)
    PROVE  \E c \in o : LineOf(o, i, c)
<1> DEFINE S == {k \in Nat : k < Cardinality(o) /\ ~\E c \in o : LineOf(o, k + 1, c)}
<1>1. IsFiniteSet(o) /\ Cardinality(o) \in Nat /\ \A d \in o : d \in Nat
  BY SysAssumption, FS_Subset, FS_CardinalityType DEF SysAssumption
<1>2. S = {}
  <2> SUFFICES ASSUME S # {} PROVE FALSE
    OBVIOUS
  <2>1. PICK k \in S : \A n \in S : k <= n
    BY LeastNat
  <2>2. PICK a \in CPUs \cup {-1} : CountTo(o, a) = k
    <3>1. CASE k = 0
      <4>0. \A d \in o : ~(d <= -1)
        BY <1>1
      <4>1. {d \in o : d <= -1} = {}
        BY <4>0
      <4>2. CountTo(o, -1) = 0
        BY <4>1, FS_EmptySet DEF CountTo
      <4> QED
        BY <3>1, <4>2
    <3>2. CASE k # 0
      <4>1. k - 1 \in Nat /\ k - 1 < Cardinality(o) /\ k - 1 \notin S
        BY <1>1, <2>1, <3>2
      <4>2. PICK c \in o : LineOf(o, k, c)
        BY <1>1, <4>1
      <4>3. {d \in o : d <= c} = {d \in o : d < c} \cup {c} /\ c \notin {d \in o : d < c}
        <5>1. ~(c < c) /\ \A d \in o : d <= c <=> d < c \/ d = c
          BY <1>1
        <5> QED
          BY <5>1
      <4>4. IsFiniteSet({d \in o : d < c})
        BY <1>1, FS_Subset
      <4>5. Cardinality({d \in o : d <= c}) = Cardinality({d \in o : d < c}) + 1
        BY <4>3, <4>4, FS_AddElement
      <4>6. CountTo(o, c) = k
        BY <2>1, <4>2, <4>5 DEF LineOf, CountTo
      <4> QED
        BY <4>6
    <3> QED
      BY <3>1, <3>2
  <2>3. CountTo(o, a) # Cardinality(o)
    BY <1>1, <2>1, <2>2
  <2>4. PICK c \in o : ListedIn(o, a, c)
    BY <2>3, SomeListed
  <2>5. LineOf(o, k + 1, c)
    BY <2>2, <2>4, NextLine
  <2> QED
    BY <2>1, <2>5
<1> HIDE DEF S
<1>3. i - 1 \in Nat /\ i - 1 < Cardinality(o) /\ (i - 1) + 1 = i
  BY <1>1
<1>4. i - 1 \notin S
  BY <1>2
<1> QED
  BY <1>3, <1>4 DEF S

-----------------------------------------------------------------------------
(* The steps of a call keep the rows and the lines together.                *)

\* What Inv says of the steps that work on the rows.
LEMMA RowsTyped ==
    ASSUME Inv, pc \in Holding \ {"freeing"}
    PROVE  /\ numcpus \in 1..Cardinality(CPUs) /\ ci \in [1..numcpus -> Row] /\ ci # NULL
           /\ model_idx \in 0..numcpus /\ speed_idx \in 0..numcpus
           /\ online \in SUBSET CPUs /\ at \in CPUs \cup {-1} /\ result = NULL
           /\ NULL \notin online
<1>1. /\ numcpus \in 0..Cardinality(CPUs) /\ ci # NULL /\ (ci = NULL \/ ci \in [1..numcpus -> Row])
      /\ model_idx \in 0..numcpus /\ speed_idx \in 0..numcpus /\ at \in CPUs \cup {-1}
      /\ numcpus >= 1
  BY DEF Inv, TypeOK, RowsRight, Holding
<1>2. online \in SUBSET CPUs /\ NULL \notin online
  BY SysAssumption DEF Inv, TypeOK, SysAssumption
<1>3. result = NULL
  BY DEF Inv, BlocksRight, Holding, CpuInfoStates
<1>4. Cardinality(CPUs) \in Nat
  BY SysAssumption, FS_CardinalityType DEF SysAssumption
<1>5. numcpus \in 1..Cardinality(CPUs)
  BY <1>1, <1>4
<1>6. ci \in [1..numcpus -> Row]
  BY <1>1
<1> QED
  BY <1>1, <1>2, <1>3, <1>5, <1>6

\* Rows with the model of one of them set, with the speed of one of them set.
WithModel(rows, k, name) == [rows EXCEPT ![k].model = name]
WithSpeed(rows, k, c) == [rows EXCEPT ![k].speed = c]

LEMMA ModelSet ==
    ASSUME NEW n \in Nat, NEW rows \in [1..n -> Row], NEW k \in 1..n, NEW name,
           NEW new, new = WithModel(rows, k, name)
    PROVE  /\ new[k].model = name
           /\ \A i \in 1..n : /\ i # k => new[i].model = rows[i].model
                              /\ new[i].speed = rows[i].speed /\ new[i].times = rows[i].times
<1>1. PICK row : row = [rows[k] EXCEPT !.model = name]
  OBVIOUS
<1>2. rows[k] \in Row
  OBVIOUS
<1>3. row.model = name /\ row.speed = rows[k].speed /\ row.times = rows[k].times
  BY <1>1, <1>2 DEF Row
<1>4. new = [rows EXCEPT ![k] = row]
  BY <1>1 DEF WithModel, WithSpeed
<1> QED
  BY <1>3, <1>4

LEMMA SpeedSet ==
    ASSUME NEW n \in Nat, NEW rows \in [1..n -> Row], NEW k \in 1..n, NEW c \in CPUs,
           NEW new, new = WithSpeed(rows, k, c)
    PROVE  /\ new \in [1..n -> Row] /\ new[k].speed = c
           /\ \A i \in 1..n : /\ i # k => new[i].speed = rows[i].speed
                              /\ new[i].model = rows[i].model /\ new[i].times = rows[i].times
<1>1. PICK row : row = [rows[k] EXCEPT !.speed = c]
  OBVIOUS
<1>2. rows[k] \in Row
  OBVIOUS
<1>3. row \in Row /\ row.speed = c /\ row.model = rows[k].model /\ row.times = rows[k].times
  BY <1>1, <1>2 DEF Row
<1>4. new = [rows EXCEPT ![k] = row]
  BY <1>1 DEF WithModel, WithSpeed
<1> QED
  BY <1>3, <1>4

LEMMA AgreeReadModel ==
    ASSUME Inv, RowsAgree, NEW c \in CPUs, ReadModel(c)
    PROVE  RowsAgree'
<1>1. /\ pc = "models" /\ pc' = "models" /\ online' = online /\ format' = format
      /\ numcpus' = numcpus /\ steady' = steady /\ at' = c /\ ListedIn(online, at, c)
  BY DEF ReadModel, kernelVars, Listed, ListedIn
<1>2. /\ numcpus \in 1..Cardinality(CPUs) /\ ci \in [1..numcpus -> Row] /\ ci # NULL
      /\ online \in SUBSET CPUs /\ at \in CPUs \cup {-1} /\ numcpus \in Nat
  BY <1>1, RowsTyped DEF Holding
<1>3. CASE ~steady
  BY <1>1, <1>3 DEF RowsAgree, Early
<1>4. CASE steady
  <2>1. PICK k \in Nat : k = CountTo(online, at)
    BY <1>1, <1>2, NextLine
  <2>2. k < numcpus /\ LineOf(online, k + 1, c) /\ CountTo(online, c) = k + 1
    BY <1>1, <1>2, <1>4, <2>1, NextLine DEF RowsAgree
  <2>3. /\ format.models => model_idx = k /\ ModelsAgree(online, ci, k)
        /\ format.speeds => speed_idx = k /\ SpeedsAgree(online, ci, k)
        /\ ~format.speeds => NoSpeeds(ci, numcpus)
        /\ numcpus = Cardinality(online)
    BY <1>1, <1>2, <1>4, <2>1 DEF RowsAgree, Told, NoSpeeds
  <2>4. k + 1 \in 1..numcpus
    BY <1>2, <2>2
  <2> DEFINE rows == IF format.speeds THEN WithSpeed(ci, k + 1, c) ELSE ci
  <2>5. /\ speed_idx' = (IF format.speeds THEN k + 1 ELSE speed_idx)
        /\ format.models => model_idx' = k + 1 /\ ci' = WithModel(rows, k + 1, c)
        /\ ~format.models => ci' = rows
    BY <2>2, <2>3 DEF ReadModel, HasRow, SetModel, WithModel, WithSpeed
  <2>6. /\ rows \in [1..numcpus -> Row]
        /\ format.speeds => rows[k + 1].speed = c
        /\ \A i \in 1..numcpus : /\ rows[i].model = ci[i].model
                                 /\ i # k + 1 \/ ~format.speeds => rows[i].speed = ci[i].speed
    BY <1>2, <2>4, SpeedSet
  <2> HIDE DEF rows
  <2>7. PICK new : new = ci'
    OBVIOUS
  <2>8. /\ format.models => new[k + 1].model = c
        /\ \A i \in 1..numcpus : /\ i # k + 1 => new[i].model = rows[i].model
                                 /\ new[i].speed = rows[i].speed
    BY <1>2, <2>4, <2>5, <2>6, <2>7, ModelSet
  <2>14. \A i \in 1..(k + 1) : i \in 1..numcpus /\ (i = k + 1 \/ (i # k + 1 /\ i \in 1..k))
    <3>1. numcpus \in Nat /\ k < numcpus
      BY <2>2, <1>2
    <3> QED
      BY <3>1
  <2>9. format.models => ModelsAgree(online, new, k + 1)
    <3>1. \A i \in 1..k : format.models => LineOf(online, i, ci[i].model)
      BY <2>3 DEF ModelsAgree
    <3>2. \A i \in 1..(k + 1) : format.models => LineOf(online, i, new[i].model)
      BY <2>2, <2>6, <2>8, <2>14, <3>1
    <3> QED
      BY <3>2 DEF ModelsAgree
  <2>10. format.speeds => SpeedsAgree(online, new, k + 1)
    <3>1. \A i \in 1..k : format.speeds => LineOf(online, i, ci[i].speed)
      BY <2>3 DEF SpeedsAgree
    <3>2. \A i \in 1..(k + 1) : format.speeds => LineOf(online, i, new[i].speed)
      BY <2>2, <2>6, <2>8, <2>14, <3>1
    <3> QED
      BY <3>2 DEF SpeedsAgree
  <2>11. ~format.speeds => \A i \in 1..numcpus : new[i].speed = NULL
    BY <1>1, <2>3, <2>6, <2>8 DEF NoSpeeds
  <2>12. Told' = k + 1
    BY <1>1, <2>2 DEF Told
  <2>13. ASSUME ~format.speeds PROVE NoSpeeds(new, numcpus)
    <3>1. \A i \in 1..numcpus : new[i].speed = NULL
      BY <2>11, <2>13
    <3> QED
      BY <3>1, Zenon DEF NoSpeeds
  <2> QED
    BY <1>1, <2>3, <2>5, <2>7, <2>9, <2>10, <2>12, <2>13 DEF RowsAgree, Early
<1> QED
  BY <1>3, <1>4

LEMMA AgreeAllocate ==
    ASSUME Inv, RowsAgree, AllocateRows
    PROVE  RowsAgree'
<1>1. /\ pc = "calloc" /\ online' = online /\ format' = format /\ steady' = steady /\ at' = at
      /\ numcpus' = numcpus /\ model_idx' = model_idx /\ speed_idx' = speed_idx
      /\ model_idx = 0 /\ speed_idx = 0 /\ ci = NULL /\ at = -1 /\ online \in SUBSET CPUs
      /\ steady => numcpus = Cardinality(online)
  BY DEF AllocateRows, kernelVars, Inv, TypeOK, RowsRight, RowsAgree, Early
<1>2. CASE pc' = "out" /\ ci' = ci
  BY <1>1, <1>2 DEF RowsAgree, Early
<1>3. CASE pc' = "cpuinfo" /\ ci' = [i \in 1..numcpus |-> Blank]
  <2>1. CountTo(online, -1) = 0
    <3>1. \A d \in online : d \in Nat
      BY <1>1, SysAssumption DEF SysAssumption
    <3>2. \A d \in online : ~(d <= -1)
      BY <3>1
    <3>3. {d \in online : d <= -1} = {}
      BY <3>2
    <3> QED
      BY <3>3, FS_EmptySet DEF CountTo
  <2>2. Told' = 0
    BY <1>1, <1>3, <2>1 DEF Told
  <2>3. PICK rows : rows = ci'
    OBVIOUS
  <2>4. \A i \in 1..numcpus : rows[i].speed = NULL
    BY <1>3, <2>3 DEF Blank
  <2>5. ModelsAgree(online, rows, 0) /\ SpeedsAgree(online, rows, 0)
    BY DEF ModelsAgree, SpeedsAgree
  <2>6. NoSpeeds(rows, numcpus)
    BY <2>4, Zenon DEF NoSpeeds
  <2> QED
    BY <1>1, <1>3, <2>2, <2>3, <2>5, <2>6 DEF RowsAgree, Early
<1> QED
  BY <1>2, <1>3 DEF AllocateRows

LEMMA AgreeEndModels ==
    ASSUME Inv, RowsAgree, EndModels
    PROVE  RowsAgree'
<1>1. /\ pc = "models" /\ pc' = "infer" /\ online' = online /\ format' = format
      /\ steady' = steady /\ at' = at /\ numcpus' = numcpus /\ ci' = ci
      /\ model_idx' = model_idx /\ speed_idx' = speed_idx
  BY DEF EndModels, kernelVars, rowVars
<1>2. \A c \in online : ~ListedIn(online, at, c)
  BY DEF EndModels, Listed, ListedIn
<1>3. CountTo(online, at) = Cardinality(online)
  BY <1>1, <1>2, RowsTyped, SomeListed DEF Holding
<1>4. Told = Cardinality(online) /\ Told' = numcpus
  BY <1>1, <1>3 DEF Told
<1> QED
  BY <1>1, <1>4 DEF RowsAgree, Early

\* Models are inferred when /proc/cpuinfo has none, or too few.
LEMMA AgreeInfer ==
    ASSUME Inv, RowsAgree, InferModel
    PROVE  RowsAgree'
<1>1. /\ pc = "infer" /\ online' = online /\ format' = format /\ steady' = steady
      /\ at' = at /\ numcpus' = numcpus /\ speed_idx' = speed_idx
  BY DEF InferModel, kernelVars
<1>5. pc' \in {"infer", "freeing"}
  BY DEF InferModel
<1>2. /\ numcpus \in Nat /\ ci \in [1..numcpus -> Row] /\ ci # NULL
      /\ model_idx \in 0..numcpus /\ model_idx < numcpus
  BY <1>1, RowsTyped DEF Holding, InferModel, HasRow
<1>3. CASE ~steady \/ pc' = "freeing"
  BY <1>1, <1>3, <1>5 DEF RowsAgree, Early
<1>4. CASE steady /\ pc' # "freeing"
  <2>1. /\ numcpus = Cardinality(online) /\ ~format.models
        /\ format.speeds => speed_idx = numcpus /\ SpeedsAgree(online, ci, numcpus)
        /\ ~format.speeds => NoSpeeds(ci, numcpus)
    <3>1. Told = numcpus
      BY <1>1 DEF Told
    <3>2. model_idx # numcpus
      BY <1>2
    <3> QED
      BY <1>1, <1>2, <1>4, <3>1, <3>2 DEF RowsAgree
  <2>2. PICK name : ci' = WithModel(ci, model_idx + 1, name) /\ pc' = pc
    BY <1>4 DEF InferModel, SetModel, WithModel
  <2>3. PICK new : new = ci'
    OBVIOUS
  <2>4. model_idx + 1 \in 1..numcpus
    BY <1>2
  <2>5. \A i \in 1..numcpus : new[i].speed = ci[i].speed
    <3>1. new = WithModel(ci, model_idx + 1, name)
      BY <2>2, <2>3
    <3>2. PICK k \in 1..numcpus : new = WithModel(ci, k, name)
      BY <2>4, <3>1
    <3>3. numcpus \in Nat /\ ci \in [1..numcpus -> Row]
      BY <1>2
    <3> QED
      BY <3>2, <3>3, ModelSet
  <2>6. format.speeds => SpeedsAgree(online, new, numcpus)
    BY <2>1, <2>5 DEF SpeedsAgree
  <2>7. ASSUME ~format.speeds PROVE NoSpeeds(new, numcpus)
    BY <2>1, <2>5, <2>7, Zenon DEF NoSpeeds
  <2> QED
    BY <1>1, <2>1, <2>2, <2>3, <2>6, <2>7 DEF RowsAgree, Early, Told
<1> QED
  BY <1>3, <1>4

\* The file is read again: line i is about the same CPU, and there is one.
LEMMA AgreeTimes ==
    ASSUME Inv, RowsAgree, read_times
    PROVE  RowsAgree'
<1>1. /\ pc = "times" /\ online' = online /\ format' = format /\ steady' = steady /\ at' = at
      /\ numcpus' = numcpus /\ model_idx' = model_idx /\ speed_idx' = speed_idx
  BY DEF read_times, kernelVars
<1>2. /\ numcpus \in 1..Cardinality(CPUs) /\ numcpus \in Nat /\ ci \in [1..numcpus -> Row]
      /\ ci # NULL /\ online \in SUBSET CPUs /\ NULL \notin online
  BY <1>1, RowsTyped DEF Holding
<1>3. pc' \in {"assert", "speeds", "out"}
  BY DEF read_times
<1>4. CASE ~steady
  BY <1>1, <1>3, <1>4 DEF RowsAgree, Early
<1>5. CASE steady
  <2>1. /\ numcpus = Cardinality(online)
        /\ format.models => model_idx = numcpus /\ ModelsAgree(online, ci, numcpus)
        /\ format.speeds => speed_idx = numcpus /\ SpeedsAgree(online, ci, numcpus)
        /\ ~format.speeds => NoSpeeds(ci, numcpus)
    BY <1>1, <1>2, <1>5 DEF RowsAgree, Told
  <2>2. PICK new : new = ci'
    OBVIOUS
  <2>3. new = [i \in 1..numcpus |-> [ci[i] EXCEPT !.times = TimesOf(i)]]
    BY <2>2 DEF read_times
  <2>4. \A i \in 1..numcpus : /\ new[i].model = ci[i].model /\ new[i].speed = ci[i].speed
                              /\ new[i].times = TimesOf(i)
    BY <1>2, <2>3 DEF Row
  <2>5. \A i \in 1..numcpus : LineOf(online, i, TimesOf(i))
    <3>1. \A i \in 1..numcpus : \E c \in CPUs : IsLine(i, c)
      BY <1>2, <2>1, LineExists DEF LineOf, IsLine
    <3>2. \A i \in 1..numcpus : IsLine(i, TimesOf(i))
      BY <3>1 DEF TimesOf
    <3> QED
      BY <3>2 DEF IsLine, LineOf
  <2>6. TimesAgree(online, new, numcpus)
    BY <2>4, <2>5 DEF TimesAgree
  <2>7. format.models => ModelsAgree(online, new, numcpus)
    BY <2>1, <2>4 DEF ModelsAgree
  <2>8. format.speeds => SpeedsAgree(online, new, numcpus)
    BY <2>1, <2>4 DEF SpeedsAgree
  <2>9. ASSUME ~format.speeds PROVE NoSpeeds(new, numcpus)
    BY <2>1, <2>4, <2>9, Zenon DEF NoSpeeds
  <2>10. ~(Cardinality(online) < numcpus)
    BY <1>2, <2>1
  <2>11. 1 \in 1..numcpus
    BY <1>2, SysAssumption, FS_CardinalityType DEF SysAssumption
  <2>12. IF format.speeds THEN pc' = "out" ELSE pc' = "speeds"
    <3>1. pc' = (IF ci[1].speed = NULL THEN "speeds" ELSE "out")
      BY <2>10 DEF read_times
    <3>2. format.speeds => ci[1].speed # NULL
      BY <1>2, <2>1, <2>11 DEF SpeedsAgree, LineOf
    <3>3. ASSUME ~format.speeds PROVE ci[1].speed = NULL
      BY <2>1, <2>11, <3>3, Zenon DEF NoSpeeds
    <3> QED
      BY <3>1, <3>2, <3>3
  <2> QED
    BY <1>1, <2>1, <2>2, <2>6, <2>7, <2>8, <2>9, <2>12 DEF RowsAgree, Early, Told
<1> QED
  BY <1>4, <1>5

LEMMA AgreeSpeeds ==
    ASSUME Inv, RowsAgree, read_speeds
    PROVE  RowsAgree'
<1>1. /\ pc = "speeds" /\ pc' = "out" /\ online' = online /\ format' = format
      /\ steady' = steady /\ at' = at
      /\ numcpus' = numcpus /\ model_idx' = model_idx /\ speed_idx' = speed_idx
  BY DEF read_speeds, kernelVars
<1>2. numcpus \in Nat /\ ci \in [1..numcpus -> Row] /\ ci # NULL
  BY <1>1, RowsTyped DEF Holding
<1>4. CASE ~steady
  BY <1>1, <1>4 DEF RowsAgree, Early
<1>5. CASE steady
  <2>1. /\ numcpus = Cardinality(online) /\ ~format.speeds
        /\ format.models => model_idx = numcpus /\ ModelsAgree(online, ci, numcpus)
        /\ TimesAgree(online, ci, numcpus)
    BY <1>1, <1>2, <1>5 DEF RowsAgree, Told
  <2>2. PICK new : new = ci'
    OBVIOUS
  <2>3. PICK readable \in SUBSET online :
          new = [i \in 1..numcpus |->
                   [ci[i] EXCEPT !.speed = IF i - 1 \in readable THEN i - 1 ELSE NULL]]
    BY <2>2 DEF read_speeds
  <2>4. \A i \in 1..numcpus : /\ new[i].model = ci[i].model /\ new[i].times = ci[i].times
    BY <1>2, <2>3 DEF Row
  <2>6. TimesAgree(online, new, numcpus)
    BY <2>1, <2>4 DEF TimesAgree
  <2>7. format.models => ModelsAgree(online, new, numcpus)
    BY <2>1, <2>4 DEF ModelsAgree
  <2> QED
    BY <1>1, <2>1, <2>2, <2>6, <2>7 DEF RowsAgree, Early, Told
<1> QED
  BY <1>4, <1>5

LEMMA InitAgree == Init => RowsAgree
BY DEF Init, RowsAgree, Early

\* The other steps change no row, or end the call.
LEMMA NextAgree ==
    ASSUME Inv, RowsAgree, [Next]_vars
    PROVE  RowsAgree'
<1>1. CASE CallCpuInfo
  BY <1>1 DEF CallCpuInfo, kernelVars, rowVars, RowsAgree, Early, Inv, RowsRight
<1>2. CASE OpenStat
  BY <1>2 DEF OpenStat, cm_open_file, kernelVars, rowVars, RowsAgree, Early, Inv, RowsRight
<1>3. CASE cm_cpu_num
  BY <1>3 DEF cm_cpu_num, kernelVars, RowsAgree, Early, Inv, RowsRight
<1>4. CASE OpenCpuinfo
  BY <1>4 DEF OpenCpuinfo, cm_open_file, kernelVars, rowVars, RowsAgree, Told, Early
<1>5. ASSUME NEW c \in CPUs, ModelNoMemory(c) PROVE RowsAgree'
  BY <1>5 DEF ModelNoMemory, kernelVars, rowVars, RowsAgree, Early
<1>6. CASE EndInfer
  BY <1>6 DEF EndInfer, kernelVars, rowVars, RowsAgree, Told, Early
<1>7. CASE FreeRows
  BY <1>7 DEF FreeRows, kernelVars, RowsAgree, Early
<1>8. CASE Return
  BY <1>8 DEF Return, kernelVars, RowsAgree, Early
<1>9. CASE cm_free_cpu_info
  BY <1>9 DEF cm_free_cpu_info, kernelVars, rowVars, RowsAgree, Early, Inv, RowsRight
<1>10. CASE CallRss \/ Interrupted \/ OpenSelf \/ ReadSelf
  BY <1>10 DEF CallRss, Interrupted, OpenSelf, ReadSelf, kernelVars, rowVars, RowsAgree, Early,
               Inv, RowsRight
<1>11. ASSUME NEW c \in CPUs, Hotplug(c) PROVE RowsAgree'
  <2>1. /\ pc' = pc /\ at' = at /\ ci' = ci /\ numcpus' = numcpus
        /\ steady' => steady /\ pc \notin CpuInfoStates
    BY <1>11 DEF Hotplug, rowVars
  <2>2. CASE steady'
    <3>1. (pc \in {"idle", "rss", "read"} /\ ci = NULL) \/ pc = "abort"
      BY <2>1, <2>2 DEF Inv, TypeOK, RowsRight, RowsAgree, Early
    <3> QED
      BY <2>1, <2>2, <3>1 DEF RowsAgree, Early
  <2>3. CASE ~steady'
    BY <2>1, <2>3 DEF RowsAgree, Early
  <2> QED
    BY <2>2, <2>3
<1>13. CASE Abort
  BY <1>13 DEF Abort, kernelVars, rowVars, RowsAgree, Early
<1>12. CASE UNCHANGED vars
  BY <1>12 DEF vars, kernelVars, rowVars, RowsAgree, Told
<1> QED
  BY <1>1, <1>2, <1>3, <1>4, <1>5, <1>6, <1>7, <1>8, <1>9, <1>10, <1>11, <1>12, <1>13,
     AgreeAllocate, AgreeReadModel, AgreeEndModels, AgreeInfer, AgreeTimes, AgreeSpeeds
     DEF Next, CallStep

\* What a call gives its caller.
LEMMA ReturnMatches ==
    ASSUME Inv, RowsAgree, Return, Inv'
    PROVE  RowsMatch'
<1>1. /\ pc = "out" /\ pc' = "idle" /\ result' = ci /\ format' = format /\ steady' = steady
  BY DEF Return, kernelVars
<1>2. result' # NULL => \A i \in DOMAIN result' : result'[i].model # NULL
  BY DEF Inv, BlocksRight
<1>3. ASSUME steady, ci # NULL
      PROVE  \A i \in DOMAIN ci :
               LET row == ci[i]
               IN  /\ row.times # NULL
                   /\ format.models => row.model = row.times
                   /\ format.speeds => row.speed = row.times
  <2>1. /\ numcpus \in Nat /\ ci \in [1..numcpus -> Row] /\ online \in SUBSET CPUs
        /\ NULL \notin online
    <3>1. numcpus \in 0..Cardinality(CPUs) /\ (ci = NULL \/ ci \in [1..numcpus -> Row])
      BY DEF Inv, TypeOK
    <3>2. online \in SUBSET CPUs /\ NULL \notin CPUs
      BY SysAssumption DEF Inv, TypeOK, SysAssumption
    <3> QED
      BY <1>3, <3>1, <3>2
  <2>2. model_idx = numcpus /\ Told = numcpus
    BY <1>1, <1>3 DEF Inv, RowsRight, Told
  <2>3. /\ TimesAgree(online, ci, numcpus)
        /\ format.models => ModelsAgree(online, ci, numcpus)
        /\ format.speeds => SpeedsAgree(online, ci, numcpus)
    BY <1>1, <1>3, <2>2 DEF RowsAgree
  <2>4. TAKE i \in DOMAIN ci
  <2>5. i \in 1..numcpus /\ i \in Nat
    BY <2>1
  <2>6. LineOf(online, i, ci[i].times) /\ ci[i].times # NULL
    BY <2>1, <2>3, <2>5 DEF TimesAgree, LineOf
  <2>7. format.models => ci[i].model = ci[i].times
    BY <2>1, <2>3, <2>5, <2>6, LineOnce DEF ModelsAgree
  <2>8. format.speeds => ci[i].speed = ci[i].times
    BY <2>1, <2>3, <2>5, <2>6, LineOnce DEF SpeedsAgree
  <2> QED
    BY <2>6, <2>7, <2>8
<1> QED
  BY <1>1, <1>2, <1>3 DEF RowsMatch

LEMMA NextMatches ==
    ASSUME Inv, RowsAgree, RowsMatch, [Next]_vars, Inv', RowsAgree'
    PROVE  RowsMatch'
<1>1. steady' => pc' # "assert"
  BY DEF RowsAgree
<1>2. CASE result' = result /\ format' = format /\ (steady' => steady)
  BY <1>1, <1>2 DEF RowsMatch
<1>3. CASE result' = NULL
  BY <1>1, <1>3 DEF RowsMatch
<1>4. CASE Return
  BY <1>4, ReturnMatches
<1>5. result' = NULL \/ Return \/ (result' = result /\ format' = format /\ (steady' => steady))
  BY DEF Next, CallStep, vars, kernelVars, CallCpuInfo, OpenStat, cm_cpu_num, AllocateRows,
         OpenCpuinfo, ReadModel, ModelNoMemory, EndModels, InferModel, EndInfer, read_times,
         read_speeds, FreeRows, Abort, Interrupted, OpenSelf, ReadSelf, CallRss, cm_free_cpu_info, Hotplug
<1> QED
  BY <1>2, <1>3, <1>4, <1>5

\* For any CPUs and any format of /proc/cpuinfo: every row of a result has a
\* model, and if no CPU came or went during the call, no assert of read_times
\* fails and a row's model and speed are those of the CPU its times are of, if
\* /proc/cpuinfo names them.
THEOREM RowsAlwaysMatch == Spec => []RowsMatch
<1>1. Init => RowsMatch
  BY DEF Init, RowsMatch
<1>2. Inv /\ RowsAgree /\ RowsMatch /\ [Next]_vars /\ Inv' => (RowsAgree /\ RowsMatch)'
  BY NextAgree, NextMatches
<1> QED
  BY <1>1, <1>2, InitAgree, InvAlways, PTL DEF Spec

-----------------------------------------------------------------------------
(* The codecs.                                                              *)

\* A byte is its two halves.
LEMMA Halves == \A m \in 0..255 : (m \div 16) * 16 + (m % 16) = m
OBVIOUS

LEMMA Low8 == \A m \in 0..255 : m % 256 = m
OBVIOUS

LEMMA HalfOfTwice == \A n \in Nat : (2 * n) \div 2 = n
OBVIOUS

\* The value of a byte's first digit, and of its second.
LEMMA HighDigitValue == \A m \in Bytes : DigitValue(HighDigit(m)) = m \div 16
<1> SUFFICES ASSUME NEW m \in Bytes PROVE DigitValue(HighDigit(m)) = m \div 16
  OBVIOUS
<1>1. PICK h : h = m \div 16
  OBVIOUS
<1>2. h \in 0..15 /\ (m > 159 <=> h > 9)
  BY <1>1 DEF Bytes
<1>3. HighDigit(m) = h + (IF h > 9 THEN 87 ELSE 48)
  BY <1>1, <1>2 DEF HighDigit
<1> HIDE <1>1
<1>4. h > 9 => (h + 87) % 8 = h - 9
  BY <1>2
<1>5. DigitValue(h + (IF h > 9 THEN 87 ELSE 48)) = h
  BY <1>2, <1>4 DEF DigitValue
<1> QED
  BY <1>1, <1>3, <1>5

LEMMA LowDigitValue == \A m \in Bytes : DigitValue(LowDigit(m)) = m % 16
<1> SUFFICES ASSUME NEW m \in Bytes PROVE DigitValue(LowDigit(m)) = m % 16
  OBVIOUS
<1>1. PICK l : l = m % 16
  OBVIOUS
<1>2. l \in 0..15
  BY <1>1 DEF Bytes
<1>3. LowDigit(m) = l + (IF l > 9 THEN 87 ELSE 48)
  BY <1>1 DEF LowDigit
<1>4. l > 9 => (l + 87) % 8 = l - 9
  BY <1>2
<1>5. DigitValue(l + (IF l > 9 THEN 87 ELSE 48)) = l
  BY <1>2, <1>4 DEF DigitValue
<1> QED
  BY <1>1, <1>3, <1>5

\* What cm_s2hex makes of bytes, cm_hex2s makes the same bytes again, zero
\* bytes included, whatever their number.
THEOREM HexLosesNothing ==
    \A s \in Seq(Bytes) : s # <<>> => cm_hex2s(cm_s2hex(s)) = s
<1> SUFFICES ASSUME NEW s \in Seq(Bytes), s # <<>> PROVE cm_hex2s(cm_s2hex(s)) = s
  OBVIOUS
<1> DEFINE hex == cm_s2hex(s)
<1>1. Len(s) \in Nat \ {0} /\ s \in [1..Len(s) -> Bytes]
  BY LenProperties, EmptySeq
<1>2. hex = [i \in 1..(2 * Len(s)) |-> IF i % 2 = 1 THEN HighDigit(s[(i + 1) \div 2])
                                                   ELSE LowDigit(s[i \div 2])]
  BY DEF cm_s2hex
<1>3. hex \in Seq(Int)
  <2>1. \A i \in 1..(2 * Len(s)) : hex[i] \in Int
    <3> SUFFICES ASSUME NEW i \in 1..(2 * Len(s)) PROVE hex[i] \in Int
      OBVIOUS
    <3>1. i % 2 = 1 => s[(i + 1) \div 2] \in Bytes
      BY <1>1
    <3>2. i % 2 # 1 => s[i \div 2] \in Bytes
      BY <1>1
    <3>3. \A m \in Bytes : HighDigit(m) \in Int /\ LowDigit(m) \in Int
      BY DEF HighDigit, LowDigit, Bytes
    <3> QED
      BY <1>2, <3>1, <3>2, <3>3
  <2> QED
    BY <1>1, <1>2, <2>1, SeqDef
<1>4. Len(hex) = 2 * Len(s) /\ hex # <<>>
  BY <1>1, <1>2, <1>3, LenProperties, EmptySeq
<1>5. \A i \in 1..Len(s) : /\ hex[2 * i - 1] = HighDigit(s[i])
                           /\ hex[2 * i] = LowDigit(s[i])
  BY <1>1, <1>2
<1>6. \A i \in 1..Len(s) :
        (DigitValue(hex[2 * i - 1]) * 16 + DigitValue(hex[2 * i])) % 256 = s[i]
  <2> SUFFICES ASSUME NEW i \in 1..Len(s)
               PROVE (DigitValue(hex[2 * i - 1]) * 16 + DigitValue(hex[2 * i])) % 256 = s[i]
    OBVIOUS
  <2>1. s[i] \in Bytes
    BY <1>1
  <2>2. DigitValue(hex[2 * i - 1]) = s[i] \div 16 /\ DigitValue(hex[2 * i]) = s[i] % 16
    BY <1>5, <2>1, HighDigitValue, LowDigitValue
  <2>3. ((s[i] \div 16) * 16 + (s[i] % 16)) % 256 = s[i]
    BY <2>1, Halves, Low8, Zenon DEF Bytes
  <2> QED
    BY <2>2, <2>3
<1> HIDE DEF hex
<1>7. Len(hex) \div 2 = Len(s)
  BY <1>1, <1>4, HalfOfTwice, Zenon
<1>8. cm_hex2s(hex) = [i \in 1..Len(s) |-> s[i]]
  BY <1>4, <1>6, <1>7 DEF cm_hex2s
<1> QED
  BY <1>1, <1>8 DEF hex

-----------------------------------------------------------------------------
(* Base64.                                                                  *)

\* The two tables are inverse, and no digit is a blank or the padding.
LEMMA TablesAreInverse ==
    \A v \in 0..63 : g_base64i(g_base64o(v)) = v /\ g_base64o(v) \notin {61} \cup 0..32
BY DEF g_base64i, g_base64o

\* Each of the four digits of a number is a digit.
LEMMA DigitsInRange ==
    ASSUME NEW m \in Nat
    PROVE  \A i \in 1..4 : Digits(m)[i] \in 0..63
<1>1. \A k \in Nat : k % 64 \in 0..63
  OBVIOUS
<1>2. m \div 262144 \in Nat /\ m \div 4096 \in Nat /\ m \div 64 \in Nat
  BY SMT
<1> QED
  BY <1>1, <1>2, SMT DEF Digits

\* The number the decoder has gathered after four characters.
Gathered(w, x, y, z) == (((w * 64 + x) * 64 + y) * 64) + z

\* What three bytes are below.
ThreeBytes == 16777216

\* Below it the four digits are the number, and the first two or three of
\* them its upper bits.
LEMMA DigitsOfNumber ==
    ASSUME NEW m \in Nat, m < ThreeBytes
    PROVE  LET d == Digits(m)
           IN  /\ Gathered(d[1], d[2], d[3], d[4]) = m
               /\ (d[1] * 64 + d[2]) * 64 + d[3] = m \div 64
               /\ d[1] * 64 + d[2] = m \div 4096
<1>1. PICK p \in Nat : p = m \div 64
  OBVIOUS
<1>2. PICK q \in Nat : q = p \div 64
  OBVIOUS
<1>3. PICK r \in Nat : r = q \div 64
  OBVIOUS
<1>4. m \div 4096 = q
  BY <1>1, <1>2, SMT
<1>5. m \div 262144 = r
  BY <1>1, <1>2, <1>3, SMT
<1>6. \A k \in Nat : (k \div 64) * 64 + (k % 64) = k
  OBVIOUS
<1>7. m = p * 64 + (m % 64) /\ p = q * 64 + (p % 64) /\ q = r * 64 + (q % 64)
  BY <1>1, <1>2, <1>3, <1>6, Zenon
<1>8. r % 64 = r
  BY <1>1, <1>2, <1>3, SMT DEF ThreeBytes
<1>9. Digits(m) = <<r, q % 64, p % 64, m % 64>>
  BY <1>1, <1>4, <1>5, <1>8, SMT DEF Digits
<1>10. Gathered(r, q % 64, p % 64, m % 64) = m
  <2>1. PICK x \in Nat, y \in Nat, z \in Nat : x = q % 64 /\ y = p % 64 /\ z = m % 64
    OBVIOUS
  <2>2. m = p * 64 + z /\ p = q * 64 + y /\ q = r * 64 + x
    BY <1>7, <2>1, Zenon
  <2>3. Gathered(r, x, y, z) = m
    BY <2>2, SMT DEF Gathered
  <2> QED
    BY <2>1, <2>3, Zenon
<1>11. (r * 64 + (q % 64)) * 64 + (p % 64) = p /\ r * 64 + (q % 64) = q
  BY <1>7, Zenon
<1> QED
  BY <1>1, <1>4, <1>9, <1>10, <1>11, SMT

\* Three bytes are encoded as four digits that the decoder makes the same
\* three bytes of.
THEOREM Base64GroupLosesNothing ==
    \A a, b, c \in Bytes :
      LET d == Digits(Joined(a, b, c))
          char(i) == g_base64o(d[i])
      IN  Whole(Gathered(g_base64i(char(1)), g_base64i(char(2)),
                         g_base64i(char(3)), g_base64i(char(4)))) = <<a, b, c>>
<1> SUFFICES ASSUME NEW a \in Bytes, NEW b \in Bytes, NEW c \in Bytes
             PROVE  LET d == Digits(Joined(a, b, c))
                        char(i) == g_base64o(d[i])
                    IN  Whole(Gathered(g_base64i(char(1)), g_base64i(char(2)),
                                       g_base64i(char(3)), g_base64i(char(4)))) = <<a, b, c>>
  OBVIOUS
<1>1. PICK m \in Nat : m = Joined(a, b, c) /\ m < ThreeBytes
  BY SMT DEF Joined, Bytes, ThreeBytes
<1>2. \A i \in 1..4 : Digits(m)[i] \in 0..63
  BY DigitsInRange
<1>3. \A i \in 1..4 : g_base64i(g_base64o(Digits(m)[i])) = Digits(m)[i]
  BY <1>2, TablesAreInverse, Zenon
<1>4. LET d == Digits(m) IN Gathered(d[1], d[2], d[3], d[4]) = m
  BY <1>1, DigitsOfNumber, SMT
<1>5. Whole(m) = <<a, b, c>>
  BY <1>1, SMT DEF Whole, Joined, Bytes
<1> QED
  BY <1>1, <1>3, <1>4, <1>5, SMT

\* The upper bits of three bytes are the first two of them, and the first.
LEMMA UpperBytes ==
    ASSUME NEW a \in Bytes, NEW b \in Bytes, NEW c \in Bytes, NEW m \in Nat, m = Joined(a, b, c)
    PROVE  Rest(m \div 64, 3) = <<a, b>> /\ Rest(m \div 4096, 2) = <<a>>
<1>1. m = a * 65536 + b * 256 + c /\ a \in 0..255 /\ b \in 0..255 /\ c \in 0..255
  BY DEF Joined, Bytes
<1>2. (256 * a + b) % 256 = b /\ a % 256 = a
  BY <1>1
<1>3. Rest(m \div 64, 3) = <<a, b>>
  <2>1. PICK h \in Nat : h = m \div 64
    OBVIOUS
  <2>2. 4 * (256 * a + b) <= h /\ h < 4 * (256 * a + b) + 4
    BY <1>1, <2>1
  <2>3. h \div 4 = 256 * a + b
    BY <1>1, <2>2
  <2>4. h \div 1024 = a
    BY <1>1, <2>2
  <2>. QED
    BY <1>2, <2>1, <2>3, <2>4 DEF Rest
<1>4. Rest(m \div 4096, 2) = <<a>>
  <2>1. PICK h \in Nat : h = m \div 4096
    OBVIOUS
  <2>2. 16 * a <= h /\ h < 16 * a + 16
    BY <1>1, <2>1
  <2>3. h \div 16 = a
    BY <1>1, <2>2
  <2>. QED
    BY <1>2, <2>1, <2>3 DEF Rest
<1>. QED
  BY <1>3, <1>4

\* One or two bytes at the end are encoded as two or three digits that the
\* decoder makes the same bytes of.
THEOREM Base64TailLosesNothing ==
    \A a, b \in Bytes :
      LET two == Digits(Joined(a, b, 0))
          one == Digits(Joined(a, 0, 0))
      IN  /\ Rest((two[1] * 64 + two[2]) * 64 + two[3], 3) = <<a, b>>
          /\ Rest(one[1] * 64 + one[2], 2) = <<a>>
<1> SUFFICES ASSUME NEW a \in Bytes, NEW b \in Bytes
             PROVE  LET two == Digits(Joined(a, b, 0))
                        one == Digits(Joined(a, 0, 0))
                    IN  /\ Rest((two[1] * 64 + two[2]) * 64 + two[3], 3) = <<a, b>>
                        /\ Rest(one[1] * 64 + one[2], 2) = <<a>>
  OBVIOUS
<1>1. PICK m \in Nat : m = Joined(a, b, 0) /\ m < ThreeBytes
  BY SMT DEF Joined, Bytes, ThreeBytes
<1>2. PICK k \in Nat : k = Joined(a, 0, 0) /\ k < ThreeBytes
  BY SMT DEF Joined, Bytes, ThreeBytes
<1>0. 0 \in Bytes
  BY DEF Bytes
<1>3. Rest(m \div 64, 3) = <<a, b>>
  BY <1>0, <1>1, UpperBytes
<1>4. Rest(k \div 4096, 2) = <<a>>
  BY <1>0, <1>2, UpperBytes
<1>5. LET two == Digits(m) IN (two[1] * 64 + two[2]) * 64 + two[3] = m \div 64
  BY <1>1, DigitsOfNumber, SMT
<1>6. LET one == Digits(k) IN one[1] * 64 + one[2] = k \div 4096
  BY <1>2, DigitsOfNumber, SMT
<1> QED
  BY <1>1, <1>2, <1>3, <1>4, <1>5, <1>6, SMT

-----------------------------------------------------------------------------
(* The bits of the digits.                                                  *)

\* Eight bits of a number are those of its last byte.
LEMMA LowByteBits ==
    ASSUME NEW h \in Nat, NEW v \in Bytes
    PROVE  \A w \in {1, 2, 4, 8, 16, 32, 64, 128} : Bit(h * 256 + v, w) = Bit(v, w)
<1>1. \A x, y \in Nat : (2 * x + y) % 2 = y % 2
  OBVIOUS
<1>2. v \in 0..255
  BY DEF Bytes
<1>3. /\ (h * 256 + v) \div 1 = 2 * (128 * h) + v \div 1
      /\ (h * 256 + v) \div 2 = 2 * (64 * h) + v \div 2
      /\ (h * 256 + v) \div 4 = 2 * (32 * h) + v \div 4
      /\ (h * 256 + v) \div 8 = 2 * (16 * h) + v \div 8
  BY <1>2, SMT
<1>4. /\ (h * 256 + v) \div 16 = 2 * (8 * h) + v \div 16
      /\ (h * 256 + v) \div 32 = 2 * (4 * h) + v \div 32
      /\ (h * 256 + v) \div 64 = 2 * (2 * h) + v \div 64
      /\ (h * 256 + v) \div 128 = 2 * h + v \div 128
  BY <1>2, SMT
<1>5. \A w \in {1, 2, 4, 8, 16, 32, 64, 128} : v \div w \in Nat
  BY <1>2, SMT
<1>6. Bit(h * 256 + v, 1) = Bit(v, 1) /\ Bit(h * 256 + v, 2) = Bit(v, 2)
  BY <1>1, <1>3, <1>5 DEF Bit
<1>7. Bit(h * 256 + v, 4) = Bit(v, 4) /\ Bit(h * 256 + v, 8) = Bit(v, 8)
  BY <1>1, <1>3, <1>5 DEF Bit
<1>8. Bit(h * 256 + v, 16) = Bit(v, 16) /\ Bit(h * 256 + v, 32) = Bit(v, 32)
  BY <1>1, <1>4, <1>5 DEF Bit
<1>9. Bit(h * 256 + v, 64) = Bit(v, 64) /\ Bit(h * 256 + v, 128) = Bit(v, 128)
  BY <1>1, <1>4, <1>5 DEF Bit
<1>. QED
  BY <1>6, <1>7, <1>8, <1>9

\* Six bits of a number are those of its last digit.
LEMMA LowDigitBits ==
    ASSUME NEW q \in Nat
    PROVE  \A w \in {1, 2, 4, 8, 16, 32} : Bit(q % 64, w) = Bit(q, w)
<1>1. \A x, y \in Nat : (2 * x + y) % 2 = y % 2
  OBVIOUS
<1>2. PICK h \in Nat, v \in 0..63 : q = h * 64 + v /\ v = q % 64
  <2>1. q = (q \div 64) * 64 + (q % 64) /\ q \div 64 \in Nat /\ q % 64 \in 0..63
    OBVIOUS
  <2>. QED
    BY <2>1
<1>3. /\ (h * 64 + v) \div 1 = 2 * (32 * h) + v \div 1
      /\ (h * 64 + v) \div 2 = 2 * (16 * h) + v \div 2
      /\ (h * 64 + v) \div 4 = 2 * (8 * h) + v \div 4
  BY SMT
<1>4. /\ (h * 64 + v) \div 8 = 2 * (4 * h) + v \div 8
      /\ (h * 64 + v) \div 16 = 2 * (2 * h) + v \div 16
      /\ (h * 64 + v) \div 32 = 2 * h + v \div 32
  BY SMT
<1>5. \A w \in {1, 2, 4, 8, 16, 32} : v \div w \in Nat
  BY SMT
<1>6. Bit(h * 64 + v, 1) = Bit(v, 1) /\ Bit(h * 64 + v, 2) = Bit(v, 2) /\ Bit(h * 64 + v, 4) = Bit(v, 4)
  BY <1>1, <1>3, <1>5 DEF Bit
<1>7. Bit(h * 64 + v, 8) = Bit(v, 8) /\ Bit(h * 64 + v, 16) = Bit(v, 16) /\ Bit(h * 64 + v, 32) = Bit(v, 32)
  BY <1>1, <1>4, <1>5 DEF Bit
<1>. QED
  BY <1>2, <1>6, <1>7

\* The bits of a quotient are bits of the number.
LEMMA Quotients ==
    ASSUME NEW x \in Nat
    PROVE  /\ \A w \in {1, 2} : Bit(x \div 64, w) = Bit(x, 64 * w)
           /\ \A w \in {1, 2, 4, 8} : Bit(x \div 64, 4 * w) = Bit(x \div 256, w)
           /\ \A w \in {1, 2, 4, 8} : Bit(x \div 16, w) = Bit(x, 16 * w)
           /\ \A w \in {1, 2} : Bit(x \div 16, 16 * w) = Bit(x \div 256, w)
           /\ \A w \in {1, 2, 4, 8, 16, 32} : Bit(x \div 4, w) = Bit(x, 4 * w)
<1>1. /\ (x \div 64) \div 1 = x \div 64
      /\ (x \div 64) \div 2 = x \div 128
  BY SMT
<1>2. /\ (x \div 64) \div 4 = (x \div 256) \div 1
      /\ (x \div 64) \div 8 = (x \div 256) \div 2
      /\ (x \div 64) \div 16 = (x \div 256) \div 4
      /\ (x \div 64) \div 32 = (x \div 256) \div 8
  BY SMT
<1>3. /\ (x \div 16) \div 1 = x \div 16
      /\ (x \div 16) \div 2 = x \div 32
      /\ (x \div 16) \div 4 = x \div 64
      /\ (x \div 16) \div 8 = x \div 128
  BY SMT
<1>4. /\ (x \div 16) \div 16 = (x \div 256) \div 1
      /\ (x \div 16) \div 32 = (x \div 256) \div 2
  BY SMT
<1>5. /\ (x \div 4) \div 1 = x \div 4
      /\ (x \div 4) \div 2 = x \div 8
      /\ (x \div 4) \div 4 = x \div 16
      /\ (x \div 4) \div 8 = x \div 32
      /\ (x \div 4) \div 16 = x \div 64
      /\ (x \div 4) \div 32 = x \div 128
  BY SMT
<1>6. \A w \in {1, 2} : Bit(x \div 64, w) = Bit(x, 64 * w)
  BY <1>1 DEF Bit
<1>7. \A w \in {1, 2, 4, 8} : Bit(x \div 64, 4 * w) = Bit(x \div 256, w)
  BY <1>2 DEF Bit
<1>8. \A w \in {1, 2, 4, 8} : Bit(x \div 16, w) = Bit(x, 16 * w)
  BY <1>3 DEF Bit
<1>9. \A w \in {1, 2} : Bit(x \div 16, 16 * w) = Bit(x \div 256, w)
  BY <1>4 DEF Bit
<1>10. \A w \in {1, 2, 4, 8, 16, 32} : Bit(x \div 4, w) = Bit(x, 4 * w)
  BY <1>5 DEF Bit
<1>. QED
  BY <1>6, <1>7, <1>8, <1>9, <1>10

\* The digit j of three bytes joined has the bits from 6 * (j - 1) + 1 on.
LEMMA DigitBits ==
    ASSUME NEW a \in Bytes, NEW b \in Bytes, NEW c \in Bytes
    PROVE  \A j \in 1..4 : \A t \in 1..6 :
             BitOfDigit(Digits(Joined(a, b, c))[j], t) =
               LET n == 6 * (j - 1) + t - 1
               IN  Bit(<<a, b, c>>[n \div 8 + 1], Weight[(n % 8) + 1])
<1>1. PICK y \in Nat : y = a * 256 + b
  BY DEF Bytes
<1>2. PICK m \in Nat : m = y * 256 + c /\ m = Joined(a, b, c)
  BY <1>1 DEF Bytes, Joined
<1>3. m \div 256 = y /\ m \div 4096 = y \div 16 /\ m \div 262144 = a \div 4 /\ y \div 256 = a
  BY <1>1, <1>2, SMT DEF Bytes
<1>4. m \div 64 \in Nat /\ y \div 16 \in Nat /\ a \div 4 \in Nat /\ a \in Nat
  BY SMT DEF Bytes
<1>5. Digits(m) = <<(a \div 4) % 64, (y \div 16) % 64, (m \div 64) % 64, m % 64>>
  BY <1>3 DEF Digits
<1>. DEFINE d == Digits(m)
<1>6. \A w \in {1, 2, 4, 8, 16, 32} :
        /\ Bit(d[1], w) = Bit(a \div 4, w) /\ Bit(d[2], w) = Bit(y \div 16, w)
        /\ Bit(d[3], w) = Bit(m \div 64, w) /\ Bit(d[4], w) = Bit(m, w)
  BY <1>4, <1>5, LowDigitBits
<1>7. \A w \in {1, 2, 4, 8, 16, 32, 64, 128} : Bit(m, w) = Bit(c, w) /\ Bit(y, w) = Bit(b, w)
  <2>1. \A w \in {1, 2, 4, 8, 16, 32, 64, 128} :
          Bit(y * 256 + c, w) = Bit(c, w) /\ Bit(a * 256 + b, w) = Bit(b, w)
    BY <1>4, LowByteBits
  <2>. QED
    BY <1>1, <1>2, <2>1
<1>. HIDE DEF d
<1>8. \A w \in {1, 2, 4, 8, 16, 32} : Bit(d[1], w) = Bit(a, 4 * w) /\ Bit(d[4], w) = Bit(c, w)
  BY <1>4, <1>6, <1>7, Quotients
<1>9. /\ \A w \in {1, 2, 4, 8} : Bit(d[2], w) = Bit(b, 16 * w)
      /\ \A w \in {1, 2} : Bit(d[2], 16 * w) = Bit(a, w)
  <2>1. \A w \in {1, 2, 4, 8} : Bit(d[2], w) = Bit(y, 16 * w)
    BY <1>6, Quotients
  <2>2. \A w \in {1, 2} : Bit(d[2], 16 * w) = Bit(a, w)
    BY <1>3, <1>6, Quotients
  <2>. QED
    BY <1>7, <2>1, <2>2
<1>10. /\ \A w \in {1, 2} : Bit(d[3], w) = Bit(c, 64 * w)
       /\ \A w \in {1, 2, 4, 8} : Bit(d[3], 4 * w) = Bit(b, w)
  <2>1. \A w \in {1, 2} : Bit(d[3], w) = Bit(m, 64 * w)
    BY <1>6, Quotients
  <2>2. \A w \in {1, 2, 4, 8} : Bit(d[3], 4 * w) = Bit(y, w)
    BY <1>3, <1>6, Quotients
  <2>. QED
    BY <1>7, <2>1, <2>2
<1>. DEFINE Agrees(j, t) ==
       BitOfDigit(d[j], t) = LET n == 6 * (j - 1) + t - 1
                             IN  Bit(<<a, b, c>>[n \div 8 + 1], Weight[(n % 8) + 1])
<1>11. /\ Bit(d[1], 32) = Bit(a, 128) /\ Bit(d[1], 16) = Bit(a, 64)
       /\ Bit(d[1], 8) = Bit(a, 32) /\ Bit(d[1], 4) = Bit(a, 16)
       /\ Bit(d[1], 2) = Bit(a, 8) /\ Bit(d[1], 1) = Bit(a, 4)
  BY <1>8, <1>9, <1>10
<1>12. /\ Bit(d[2], 32) = Bit(a, 2) /\ Bit(d[2], 16) = Bit(a, 1)
       /\ Bit(d[2], 8) = Bit(b, 128) /\ Bit(d[2], 4) = Bit(b, 64)
       /\ Bit(d[2], 2) = Bit(b, 32) /\ Bit(d[2], 1) = Bit(b, 16)
  BY <1>8, <1>9, <1>10
<1>13. /\ Bit(d[3], 32) = Bit(b, 8) /\ Bit(d[3], 16) = Bit(b, 4)
       /\ Bit(d[3], 8) = Bit(b, 2) /\ Bit(d[3], 4) = Bit(b, 1)
       /\ Bit(d[3], 2) = Bit(c, 128) /\ Bit(d[3], 1) = Bit(c, 64)
  BY <1>8, <1>9, <1>10
<1>14. /\ Bit(d[4], 32) = Bit(c, 32) /\ Bit(d[4], 16) = Bit(c, 16)
       /\ Bit(d[4], 8) = Bit(c, 8) /\ Bit(d[4], 4) = Bit(c, 4)
       /\ Bit(d[4], 2) = Bit(c, 2) /\ Bit(d[4], 1) = Bit(c, 1)
  BY <1>8, <1>9, <1>10
<1>15. \A t \in 1..6 : Agrees(1, t)
  BY <1>11, SMT DEF BitOfDigit, Weight
<1>16. \A t \in 1..6 : Agrees(2, t)
  BY <1>12, SMT DEF BitOfDigit, Weight
<1>17. \A t \in 1..6 : Agrees(3, t)
  BY <1>13, SMT DEF BitOfDigit, Weight
<1>18. \A t \in 1..6 : Agrees(4, t)
  BY <1>14, SMT DEF BitOfDigit, Weight
<1>. QED
  BY <1>2, <1>15, <1>16, <1>17, <1>18 DEF d

-----------------------------------------------------------------------------
(* The digits of a text.                                                    *)

\* What joins the three bytes of group k.
ByteOf(s, i) == IF i <= Len(s) THEN s[i] ELSE 0
NumberOf(s, k) == Joined(ByteOf(s, 3 * k - 2), ByteOf(s, 3 * k - 1), ByteOf(s, 3 * k))

Groups(s) == (Len(s) + 2) \div 3
DigitCount(s) == (8 * Len(s) + 5) \div 6

\* Of n bytes in g groups the last group has q.
LEMMA LastGroup ==
    ASSUME NEW n \in Nat \ {0}
    PROVE  \E g \in Nat \ {0}, q \in 1..3 :
             /\ (n + 2) \div 3 = g /\ n = 3 * (g - 1) + q
             /\ (8 * n + 5) \div 6 = 4 * (g - 1) + q + 1
<1>1. PICK g \in Nat : g = (n + 2) \div 3
  OBVIOUS
<1>2. PICK q \in Int : q = n - 3 * (g - 1)
  BY <1>1
<1>3. g # 0 /\ q \in 1..3
  BY <1>1, <1>2
<1>4. n = 3 * (g - 1) + q
  BY <1>2
<1>5. CASE q = 1
  BY <1>1, <1>3, <1>4, <1>5
<1>6. CASE q = 2
  BY <1>1, <1>3, <1>4, <1>6
<1>7. CASE q = 3
  BY <1>1, <1>3, <1>4, <1>7
<1>. QED
  BY <1>3, <1>5, <1>6, <1>7

\* A byte of a group is a byte.
LEMMA BytesThere ==
    ASSUME NEW s \in Seq(Bytes), NEW i \in Nat \ {0}
    PROVE  ByteOf(s, i) \in Bytes
BY LenProperties, ElementOfSeq DEF ByteOf, Bytes

\* The number of a group is one of three bytes.
LEMMA NumberTyped ==
    ASSUME NEW s \in Seq(Bytes), NEW k \in Nat \ {0}
    PROVE  NumberOf(s, k) \in Nat /\ NumberOf(s, k) < ThreeBytes
<1>1. PICK a \in Bytes : a = ByteOf(s, 3 * k - 2)
  BY BytesThere
<1>2. PICK b \in Bytes : b = ByteOf(s, 3 * k - 1)
  BY BytesThere
<1>3. PICK c \in Bytes : c = ByteOf(s, 3 * k)
  BY BytesThere
<1>4. NumberOf(s, k) = Joined(a, b, c)
  BY <1>1, <1>2, <1>3 DEF NumberOf
<1>5. Joined(a, b, c) \in Nat /\ Joined(a, b, c) < ThreeBytes
  BY SMT DEF Joined, Bytes, ThreeBytes
<1>. QED
  BY <1>4, <1>5

\* The digits of a group are those of its number.
LEMMA GroupDigits ==
    ASSUME NEW s \in Seq(Bytes), NEW k \in Nat \ {0}
    PROVE  Group(s, k) = Digits(NumberOf(s, k))
BY DEF Group, NumberOf, ByteOf

\* The characters of the text: the digits of the groups, then the padding.
LEMMA TextOf ==
    ASSUME NEW s \in Seq(Bytes), s # <<>>
    PROVE  /\ Groups(s) \in Nat \ {0} /\ DigitCount(s) \in Nat
           /\ 4 * Groups(s) - DigitCount(s) \in 0..2
           /\ cm_s2base64(s) \in Seq(Int) /\ Len(cm_s2base64(s)) = 4 * Groups(s)
           /\ \A i \in 1..(4 * Groups(s)) :
                cm_s2base64(s)[i] = IF i <= DigitCount(s)
                  THEN g_base64o(Digits(NumberOf(s, (i + 3) \div 4))[i - 4 * ((i + 3) \div 4 - 1)])
                  ELSE 61
<1>1. Len(s) \in Nat \ {0}
  BY LenProperties, EmptySeq
<1>2. PICK g \in Nat \ {0}, q \in 1..3 :
        Groups(s) = g /\ Len(s) = 3 * (g - 1) + q /\ DigitCount(s) = 4 * (g - 1) + q + 1
  BY <1>1, LastGroup DEF Groups, DigitCount
<1>. DEFINE text == cm_s2base64(s)
            Place(i) == IF i <= DigitCount(s)
                        THEN g_base64o(Digits(NumberOf(s, (i + 3) \div 4))[i - 4 * ((i + 3) \div 4 - 1)])
                        ELSE 61
<1>3. \A i \in 1..(4 * g) : text[i] = Place(i)
  <2>. SUFFICES ASSUME NEW i \in 1..(4 * g) PROVE text[i] = Place(i)
    OBVIOUS
  <2>1. PICK k \in 1..g, j \in 1..4 : k = (i + 3) \div 4 /\ j = i - 4 * (k - 1)
    <3>1. PICK k \in Nat : k = (i + 3) \div 4
      OBVIOUS
    <3>2. k \in 1..g /\ i - 4 * (k - 1) \in 1..4
      BY <3>1
    <3>. QED
      BY <3>1, <3>2
  <2>2. text[i] = IF j <= (IF 3 * k <= Len(s) THEN 4 ELSE Len(s) - 3 * (k - 1) + 1)
                  THEN g_base64o(Group(s, k)[j]) ELSE 61
    BY <1>2, <2>1 DEF cm_s2base64, Groups
  <2>3. j <= (IF 3 * k <= Len(s) THEN 4 ELSE Len(s) - 3 * (k - 1) + 1) <=> i <= DigitCount(s)
    BY <1>2, <2>1
  <2>4. Group(s, k) = Digits(NumberOf(s, k))
    BY GroupDigits
  <2>. QED
    BY <2>1, <2>2, <2>3, <2>4
<1>4. \A i \in 1..(4 * g) : Place(i) \in Int
  <2>. SUFFICES ASSUME NEW i \in 1..(4 * g) PROVE Place(i) \in Int
    OBVIOUS
  <2>1. PICK k \in Nat \ {0}, j \in 1..4 : k = (i + 3) \div 4 /\ j = i - 4 * (k - 1)
    <3>1. PICK k \in Nat : k = (i + 3) \div 4
      OBVIOUS
    <3>2. k # 0 /\ i - 4 * (k - 1) \in 1..4
      BY <3>1
    <3>. QED
      BY <3>1, <3>2
  <2>2. Digits(NumberOf(s, k))[j] \in 0..63
    BY NumberTyped, DigitsInRange
  <2>3. \A v \in 0..63 : g_base64o(v) \in Int
    BY DEF g_base64o
  <2>4. Place(i) = IF i <= DigitCount(s) THEN g_base64o(Digits(NumberOf(s, k))[j]) ELSE 61
    BY <2>1
  <2>5. g_base64o(Digits(NumberOf(s, k))[j]) \in Int
    BY <2>2, <2>3
  <2>. HIDE DEF Place
  <2>. QED
    BY <2>4, <2>5
<1>5. text = [i \in 1..(4 * g) |-> text[i]]
  BY <1>2 DEF cm_s2base64, Groups
<1>. HIDE DEF text, Place
<1>6. text \in Seq(Int)
  BY <1>3, <1>4, <1>5, SeqDef
<1>7. Len(text) = 4 * g
  BY <1>5, <1>6, LenProperties
<1>. QED
  BY <1>2, <1>3, <1>6, <1>7 DEF text, Place

-----------------------------------------------------------------------------
(* The decoder over the text of some bytes.                                 *)

\* A set that holds 0 and, with a number, the next one up to n, holds them all.
LEMMA UpTo ==
    ASSUME NEW n \in Nat, NEW S, 0 \in S, \A i \in 1..n : i - 1 \in S => i \in S
    PROVE  \A i \in 0..n : i \in S
<1>. DEFINE missing == {i \in 0..n : i \notin S}
<1>1. SUFFICES ASSUME missing # {} PROVE FALSE
  OBVIOUS
<1>2. missing \in SUBSET Nat
  OBVIOUS
<1>3. PICK m \in missing : \A i \in missing : m <= i
  BY <1>1, <1>2, LeastNat
<1>4. m # 0 /\ m \in 0..n /\ m \notin S
  BY <1>3
<1>5. m \in 1..n /\ m - 1 \in 0..n /\ m - 1 \notin missing
  BY <1>3, <1>4
<1>. QED
  BY <1>4, <1>5

\* w has the states that the characters of t lead to.
Follows(w, t) ==
    w[0] = DecodeStart /\ \A i \in 1..Len(t) : w[i] = Decode(w[i - 1], t[i])

\* The decoder passes through the states that the characters lead to.
LEMMA DecodedIs ==
    ASSUME NEW t, Len(t) \in Nat, NEW w, Follows(w, t)
    PROVE  Decoded(t) = w[Len(t)]
<1>. DEFINE n == Len(t)
            After(u) == [i \in 0..n |-> IF i = 0 THEN DecodeStart ELSE Decode(u[i - 1], t[i])]
            u == CHOOSE v : v = After(v)
            known == [i \in 0..n |-> w[i]]
<1>1. known = After(known)
  <2>1. \A i \in 0..n : i # 0 => i \in 1..n /\ i - 1 \in 0..n
    OBVIOUS
  <2>2. \A i \in 0..n : known[i] = IF i = 0 THEN DecodeStart ELSE Decode(known[i - 1], t[i])
    BY <2>1 DEF Follows
  <2>. QED
    BY <2>2
<1>2. u = After(u)
  <2>. HIDE DEF After, known
  <2>. QED
    BY <1>1
<1>. HIDE DEF u
<1>3. Decoded(t) = u[n]
  BY DEF Decoded, u
<1>. DEFINE same == {i \in 0..n : u[i] = w[i]}
<1>4. 0 \in same
  <2>1. 0 \in 0..n
    OBVIOUS
  <2>. QED
    BY <1>2, <2>1 DEF Follows
<1>5. ASSUME NEW i \in 1..n, i - 1 \in same PROVE i \in same
  <2>1. i \in 0..n /\ i # 0
    OBVIOUS
  <2>2. u[i] = Decode(u[i - 1], t[i])
    BY <1>2, <2>1
  <2>3. w[i] = Decode(w[i - 1], t[i])
    BY DEF Follows
  <2>. QED
    BY <1>5, <2>1, <2>2, <2>3
<1>. HIDE DEF same
<1>6. \A i \in 0..n : i \in same
  BY <1>4, <1>5, UpTo
<1>7. n \in 0..n
  OBVIOUS
<1>. QED
  BY <1>3, <1>6, <1>7 DEF same

\* What the first digits of a group are worth.
Worth(m, j) ==
    IF j = 0 THEN 0 ELSE IF j = 1 THEN m \div 262144
    ELSE IF j = 2 THEN m \div 4096 ELSE m \div 64

\* A decoder that has not failed.
Reading(m, j, out, end) == [m |-> m, j |-> j, out |-> out, ended |-> end, failed |-> FALSE]

\* The decoder after i digits of the text of s, and whether the text ended.
AfterDigits(s, i, end) ==
    Reading(Worth(NumberOf(s, i \div 4 + 1), i % 4), i % 4, SubSeq(s, 1, 3 * (i \div 4)), end)

AfterChars(s, i) ==
    IF i <= DigitCount(s) THEN AfterDigits(s, i, FALSE)
    ELSE AfterDigits(s, DigitCount(s), TRUE)

\* The digits of a number one after the other.
LEMMA WorthSteps ==
    ASSUME NEW m \in Nat, m < ThreeBytes
    PROVE  /\ \A j \in 1..3 : Worth(m, j) = Worth(m, j - 1) * 64 + Digits(m)[j]
           /\ m = Worth(m, 3) * 64 + Digits(m)[4]
<1>0. \A i \in 1..4 : Digits(m)[i] \in 0..63
  BY DigitsInRange
<1>1. /\ \E d1 \in 0..63 : d1 = Digits(m)[1]
      /\ \E d2 \in 0..63 : d2 = Digits(m)[2]
      /\ \E d3 \in 0..63 : d3 = Digits(m)[3]
      /\ \E d4 \in 0..63 : d4 = Digits(m)[4]
  BY <1>0
<1>2. PICK d1 \in 0..63, d2 \in 0..63, d3 \in 0..63, d4 \in 0..63 :
        Digits(m)[1] = d1 /\ Digits(m)[2] = d2 /\ Digits(m)[3] = d3 /\ Digits(m)[4] = d4
  BY <1>1
<1>3. /\ Gathered(d1, d2, d3, d4) = m
      /\ (d1 * 64 + d2) * 64 + d3 = m \div 64
      /\ d1 * 64 + d2 = m \div 4096
  <2>1. LET d == Digits(m)
        IN  /\ Gathered(d[1], d[2], d[3], d[4]) = m
            /\ (d[1] * 64 + d[2]) * 64 + d[3] = m \div 64
            /\ d[1] * 64 + d[2] = m \div 4096
    BY DigitsOfNumber
  <2>. QED
    BY <1>2, <2>1
<1>4. d1 = m \div 262144
  <2>1. m \div 262144 = (m \div 4096) \div 64
    BY SMT
  <2>. QED
    BY <1>3, <2>1, SMT
<1>5. Worth(m, 0) = 0 /\ Worth(m, 1) = d1 /\ Worth(m, 2) = d1 * 64 + d2
      /\ Worth(m, 3) = (d1 * 64 + d2) * 64 + d3
  BY <1>3, <1>4 DEF Worth
<1>6. m = Worth(m, 3) * 64 + d4
  BY <1>3, <1>5 DEF Gathered
<1>. QED
  BY <1>2, <1>5, <1>6

\* The bytes of a whole group and of the first digits of one.
LEMMA WorthBytes ==
    ASSUME NEW a \in Bytes, NEW b \in Bytes, NEW c \in Bytes
    PROVE  LET m == Joined(a, b, c)
           IN  /\ Whole(m) = <<a, b, c>>
               /\ Rest(Worth(m, 0), 0) = <<>> /\ Rest(Worth(m, 1), 1) = <<>>
               /\ Rest(Worth(m, 2), 2) = <<a>>
               /\ Rest(Worth(m, 3), 3) = <<a, b>>
<1>1. PICK m \in Nat : m = Joined(a, b, c) /\ m < ThreeBytes
  BY SMT DEF Joined, Bytes, ThreeBytes
<1>2. Whole(m) = <<a, b, c>>
  BY <1>1, SMT DEF Whole, Joined, Bytes
<1>3. Rest(m \div 4096, 2) = <<a>>
  BY <1>1, UpperBytes
<1>4. Rest(m \div 64, 3) = <<a, b>>
  BY <1>1, UpperBytes
<1>5. Rest(Worth(m, 0), 0) = <<>> /\ Rest(Worth(m, 1), 1) = <<>>
  BY DEF Rest
<1>6. Worth(m, 2) = m \div 4096 /\ Worth(m, 3) = m \div 64
  BY DEF Worth
<1>. QED
  BY <1>1, <1>2, <1>3, <1>4, <1>5, <1>6

\* The first n elements of a sequence and those that follow them.
LEMMA Extended ==
    ASSUME NEW s \in Seq(Bytes), NEW b \in Seq(Bytes), NEW n \in Nat, n + Len(b) <= Len(s),
           \A i \in 1..Len(b) : b[i] = s[n + i]
    PROVE  SubSeq(s, 1, n) \o b = SubSeq(s, 1, n + Len(b))
<1>1. Len(s) \in Nat /\ Len(b) \in Nat /\ \A i \in 1..Len(s) : s[i] \in Bytes
  BY LenProperties, ElementOfSeq
<1>. DEFINE a == SubSeq(s, 1, n)
            c == SubSeq(s, 1, n + Len(b))
<1>2. a \in Seq(Bytes) /\ Len(a) = n /\ \A i \in 1..n : a[i] = s[i]
  BY <1>1, SubSeqProperties
<1>3. c \in Seq(Bytes) /\ Len(c) = n + Len(b) /\ \A i \in 1..(n + Len(b)) : c[i] = s[i]
  BY <1>1, SubSeqProperties
<1>. HIDE DEF a, c
<1>4. /\ a \o b \in Seq(Bytes) /\ Len(a \o b) = Len(a) + Len(b)
      /\ \A i \in 1..(Len(a) + Len(b)) : (a \o b)[i] = IF i <= Len(a) THEN a[i] ELSE b[i - Len(a)]
  BY <1>2, ConcatProperties
<1>5. \A i \in 1..(n + Len(b)) : (a \o b)[i] = IF i <= n THEN a[i] ELSE b[i - n]
  BY <1>2, <1>4
<1>6. \A i \in 1..(n + Len(b)) : (a \o b)[i] = c[i]
  <2>. SUFFICES ASSUME NEW i \in 1..(n + Len(b)) PROVE (a \o b)[i] = c[i]
    OBVIOUS
  <2>1. CASE i <= n
    <3>1. i \in 1..n
      BY <1>1, <2>1
    <3>2. a[i] = s[i] /\ c[i] = s[i]
      BY <1>2, <1>3, <3>1
    <3>. QED
      BY <1>5, <2>1, <3>2
  <2>2. CASE ~(i <= n)
    <3>1. i - n \in 1..Len(b) /\ n + (i - n) = i
      BY <1>1, <2>2
    <3>2. b[i - n] = s[i]
      <4>1. PICK k \in 1..Len(b) : k = i - n
        BY <3>1
      <4>2. b[k] = s[n + k]
        OBVIOUS
      <4>. QED
        BY <3>1, <4>1, <4>2
    <3>3. (a \o b)[i] = b[i - n]
      BY <1>5, <2>2
    <3>. QED
      BY <1>3, <3>2, <3>3
  <2>. QED
    BY <2>1, <2>2
<1>7. Len(a \o b) = Len(c)
  BY <1>2, <1>3, <1>4
<1>8. a \o b = c
  BY <1>2, <1>3, <1>4, <1>6, <1>7, SeqEqual
<1>. QED
  BY <1>8 DEF a, c

\* One, two and three more bytes.
LEMMA FewMore ==
    ASSUME NEW s \in Seq(Bytes), NEW n \in Nat
    PROVE  /\ n + 1 <= Len(s) => SubSeq(s, 1, n) \o <<s[n + 1]>> = SubSeq(s, 1, n + 1)
           /\ n + 2 <= Len(s) => SubSeq(s, 1, n) \o <<s[n + 1], s[n + 2]>> = SubSeq(s, 1, n + 2)
           /\ n + 3 <= Len(s) =>
                SubSeq(s, 1, n) \o <<s[n + 1], s[n + 2], s[n + 3]>> = SubSeq(s, 1, n + 3)
<1>1. Len(s) \in Nat /\ \A i \in 1..Len(s) : s[i] \in Bytes
  BY LenProperties, ElementOfSeq
<1>2. ASSUME n + 1 <= Len(s) PROVE SubSeq(s, 1, n) \o <<s[n + 1]>> = SubSeq(s, 1, n + 1)
  <2>1. PICK b \in Seq(Bytes) : b = <<s[n + 1]>> /\ Len(b) = 1
    <3>1. s[n + 1] \in Bytes
      BY <1>1, <1>2
    <3>2. <<s[n + 1]>> \in Seq(Bytes) /\ Len(<<s[n + 1]>>) = 1
      BY <3>1
    <3>. QED
      BY <3>2
  <2>2. \A i \in 1..Len(b) : b[i] = s[n + i]
    BY <2>1
  <2>3. SubSeq(s, 1, n) \o b = SubSeq(s, 1, n + Len(b))
    BY <1>2, <2>1, <2>2, Extended
  <2>. QED
    BY <2>1, <2>3
<1>3. ASSUME n + 2 <= Len(s)
      PROVE  SubSeq(s, 1, n) \o <<s[n + 1], s[n + 2]>> = SubSeq(s, 1, n + 2)
  <2>1. PICK b \in Seq(Bytes) : b = <<s[n + 1], s[n + 2]>> /\ Len(b) = 2
    <3>1. s[n + 1] \in Bytes /\ s[n + 2] \in Bytes
      BY <1>1, <1>3
    <3>2. <<s[n + 1], s[n + 2]>> \in Seq(Bytes) /\ Len(<<s[n + 1], s[n + 2]>>) = 2
      BY <3>1
    <3>. QED
      BY <3>2
  <2>2. \A i \in 1..Len(b) : b[i] = s[n + i]
    BY <2>1
  <2>3. SubSeq(s, 1, n) \o b = SubSeq(s, 1, n + Len(b))
    BY <1>3, <2>1, <2>2, Extended
  <2>. QED
    BY <2>1, <2>3
<1>4. ASSUME n + 3 <= Len(s)
      PROVE  SubSeq(s, 1, n) \o <<s[n + 1], s[n + 2], s[n + 3]>> = SubSeq(s, 1, n + 3)
  <2>1. PICK b \in Seq(Bytes) : b = <<s[n + 1], s[n + 2], s[n + 3]>> /\ Len(b) = 3
    <3>1. s[n + 1] \in Bytes /\ s[n + 2] \in Bytes /\ s[n + 3] \in Bytes
      BY <1>1, <1>4
    <3>2. <<s[n + 1], s[n + 2], s[n + 3]>> \in Seq(Bytes) /\ Len(<<s[n + 1], s[n + 2], s[n + 3]>>) = 3
      BY <3>1
    <3>. QED
      BY <3>2
  <2>2. \A i \in 1..Len(b) : b[i] = s[n + i]
    BY <2>1
  <2>3. SubSeq(s, 1, n) \o b = SubSeq(s, 1, n + Len(b))
    BY <1>4, <2>1, <2>2, Extended
  <2>. QED
    BY <2>1, <2>3
<1>. QED
  BY <1>2, <1>3, <1>4

\* A digit of the text in the decoder.
LEMMA DigitRead ==
    ASSUME NEW m, NEW j, NEW out, NEW v \in 0..63
    PROVE  Decode(Reading(m, j, out, FALSE), g_base64o(v)) =
             IF j = 3 THEN Reading(0, 0, out \o Whole(m * 64 + v), FALSE)
             ELSE Reading(m * 64 + v, j + 1, out, FALSE)
<1>1. g_base64i(g_base64o(v)) = v /\ g_base64o(v) # 61
  BY TablesAreInverse
<1>2. ~(g_base64i(g_base64o(v)) >= 64)
  BY <1>1
<1>. DEFINE st == Reading(m, j, out, FALSE)
<1>3. PICK x : x = Decode(st, g_base64o(v))
  OBVIOUS
<1>4. x = IF st.j = 3 THEN [st EXCEPT !.out = @ \o Whole(st.m * 64 + v), !.m = 0, !.j = 0]
          ELSE [st EXCEPT !.m = st.m * 64 + v, !.j = @ + 1]
  BY <1>1, <1>2, <1>3 DEF Decode, Reading
<1>5. CASE j = 3
  <2>1. x = [st EXCEPT !.out = @ \o Whole(st.m * 64 + v), !.m = 0, !.j = 0]
    BY <1>4, <1>5 DEF Reading
  <2>2. x.m = 0 /\ x.j = 0 /\ x.out = out \o Whole(m * 64 + v) /\ x.ended = FALSE /\ x.failed = FALSE
    BY <2>1 DEF Reading
  <2>3. x \in [m : {0}, j : {0}, out : {out \o Whole(m * 64 + v)}, ended : BOOLEAN, failed : BOOLEAN]
    BY <2>1 DEF Reading
  <2>. QED
    BY <1>3, <1>5, <2>2, <2>3 DEF Reading
<1>6. CASE j # 3
  <2>1. x = [st EXCEPT !.m = st.m * 64 + v, !.j = @ + 1]
    BY <1>4, <1>6 DEF Reading
  <2>2. x.m = m * 64 + v /\ x.j = j + 1 /\ x.out = out /\ x.ended = FALSE /\ x.failed = FALSE
    BY <2>1 DEF Reading
  <2>3. x \in [m : {m * 64 + v}, j : {j + 1}, out : {out}, ended : BOOLEAN, failed : BOOLEAN]
    BY <2>1 DEF Reading
  <2>. QED
    BY <1>3, <1>6, <2>2, <2>3 DEF Reading
<1>. QED
  BY <1>5, <1>6

\* The padding ends the text, and after it, and at a line end, nothing changes.
LEMMA EndRead ==
    ASSUME NEW m, NEW j, NEW out
    PROVE  /\ Decode(Reading(m, j, out, FALSE), 61) = Reading(m, j, out, TRUE)
           /\ \A c : Decode(Reading(m, j, out, TRUE), c) = Reading(m, j, out, TRUE)
           /\ Decode(Reading(m, j, out, FALSE), 10) = Reading(m, j, out, FALSE)
<1>1. PICK x : x = Decode(Reading(m, j, out, FALSE), 61)
  OBVIOUS
<1>2. x = [Reading(m, j, out, FALSE) EXCEPT !.ended = TRUE]
  BY <1>1 DEF Decode, Reading
<1>3. x.m = m /\ x.j = j /\ x.out = out /\ x.ended = TRUE /\ x.failed = FALSE
  BY <1>2 DEF Reading
<1>4. x \in [m : {m}, j : {j}, out : {out}, ended : BOOLEAN, failed : BOOLEAN]
  BY <1>2 DEF Reading
<1>5. x = Reading(m, j, out, TRUE)
  BY <1>3, <1>4 DEF Reading
<1>6. \A c : Decode(Reading(m, j, out, TRUE), c) = Reading(m, j, out, TRUE)
  BY DEF Decode, Reading
<1>7. g_base64i(10) >= 64
  BY DEF g_base64i
<1>8. Decode(Reading(m, j, out, FALSE), 10) = Reading(m, j, out, FALSE)
  BY <1>7 DEF Decode, Reading
<1>. QED
  BY <1>1, <1>5, <1>6, <1>8

\* What a place of the text is to its group.
LEMMA PlaceInGroup ==
    ASSUME NEW i \in Nat \ {0}
    PROVE  \E k \in Nat \ {0}, j \in 1..4 :
             /\ k = (i + 3) \div 4 /\ j = i - 4 * (k - 1)
             /\ (i - 1) \div 4 = k - 1 /\ (i - 1) % 4 = j - 1
             /\ i \div 4 = (IF j = 4 THEN k ELSE k - 1) /\ i % 4 = (IF j = 4 THEN 0 ELSE j)
<1>1. PICK k \in Nat : k = (i + 3) \div 4
  OBVIOUS
<1>2. k # 0 /\ i - 4 * (k - 1) \in 1..4
  BY <1>1
<1>3. PICK j \in 1..4 : j = i - 4 * (k - 1)
  BY <1>2
<1>4. (i - 1) \div 4 = k - 1 /\ (i - 1) % 4 = j - 1
  BY <1>2, <1>3
<1>5. i \div 4 = (IF j = 4 THEN k ELSE k - 1) /\ i % 4 = (IF j = 4 THEN 0 ELSE j)
  BY <1>2, <1>3
<1>. QED
  BY <1>1, <1>2, <1>3, <1>4, <1>5

\* The digits of a group come from bytes that are there.
LEMMA DigitsHaveBytes ==
    ASSUME NEW s \in Seq(Bytes), s # <<>>, NEW k \in Nat \ {0}, NEW j \in 1..4,
           4 * (k - 1) + j <= DigitCount(s)
    PROVE  3 * (k - 1) + j - 1 <= Len(s) /\ k <= Groups(s)
<1>1. Len(s) \in Nat \ {0}
  BY LenProperties, EmptySeq
<1>2. PICK g \in Nat \ {0}, q \in 1..3 :
        Groups(s) = g /\ Len(s) = 3 * (g - 1) + q /\ DigitCount(s) = 4 * (g - 1) + q + 1
  BY <1>1, LastGroup DEF Groups, DigitCount
<1>3. k <= g
  BY <1>2
<1>. QED
  BY <1>2, <1>3

\* Each character takes the decoder to the state that stands for it.
LEMMA CharRead ==
    ASSUME NEW s \in Seq(Bytes), s # <<>>, NEW i \in 1..(4 * Groups(s))
    PROVE  AfterChars(s, i) = Decode(AfterChars(s, i - 1), cm_s2base64(s)[i])
<1>1. /\ Groups(s) \in Nat \ {0} /\ DigitCount(s) \in Nat
      /\ cm_s2base64(s)[i] = IF i <= DigitCount(s)
           THEN g_base64o(Digits(NumberOf(s, (i + 3) \div 4))[i - 4 * ((i + 3) \div 4 - 1)])
           ELSE 61
  BY TextOf
<1>2. CASE i <= DigitCount(s)
  <2>1. PICK k \in Nat \ {0}, j \in 1..4 :
          /\ k = (i + 3) \div 4 /\ j = i - 4 * (k - 1)
          /\ (i - 1) \div 4 = k - 1 /\ (i - 1) % 4 = j - 1
          /\ i \div 4 = (IF j = 4 THEN k ELSE k - 1) /\ i % 4 = (IF j = 4 THEN 0 ELSE j)
    BY <1>1, PlaceInGroup
  <2>2. PICK m \in Nat : m = NumberOf(s, k) /\ m < ThreeBytes
    BY NumberTyped
  <2>3. PICK v \in 0..63 : v = Digits(m)[j]
    BY DigitsInRange
  <2>4. cm_s2base64(s)[i] = g_base64o(v)
    BY <1>1, <1>2, <2>1, <2>2, <2>3
  <2>5. AfterChars(s, i - 1) = Reading(Worth(m, j - 1), j - 1, SubSeq(s, 1, 3 * (k - 1)), FALSE)
    <3>1. i - 1 <= DigitCount(s) /\ (i - 1) \div 4 + 1 = k
      BY <1>1, <1>2, <2>1
    <3>. QED
      BY <2>1, <2>2, <3>1 DEF AfterChars, AfterDigits
  <2>6. AfterChars(s, i) = AfterDigits(s, i, FALSE)
    BY <1>2 DEF AfterChars
  <2>7. Decode(AfterChars(s, i - 1), g_base64o(v)) =
          IF j - 1 = 3
          THEN Reading(0, 0, SubSeq(s, 1, 3 * (k - 1)) \o Whole(Worth(m, j - 1) * 64 + v), FALSE)
          ELSE Reading(Worth(m, j - 1) * 64 + v, (j - 1) + 1, SubSeq(s, 1, 3 * (k - 1)), FALSE)
    <3>1. PICK w, l, out : w = Worth(m, j - 1) /\ l = j - 1 /\ out = SubSeq(s, 1, 3 * (k - 1))
      OBVIOUS
    <3>2. Decode(Reading(w, l, out, FALSE), g_base64o(v)) =
            IF l = 3 THEN Reading(0, 0, out \o Whole(w * 64 + v), FALSE)
            ELSE Reading(w * 64 + v, l + 1, out, FALSE)
      BY DigitRead
    <3>. QED
      BY <2>5, <3>1, <3>2
  <2>8. CASE j # 4
    <3>1. Worth(m, j) = Worth(m, j - 1) * 64 + v
      BY <2>2, <2>3, <2>8, WorthSteps
    <3>2. j - 1 # 3 /\ (j - 1) + 1 = j
      BY <2>8
    <3>3. i \div 4 = k - 1 /\ i % 4 = j /\ (k - 1) + 1 = k
      BY <2>1, <2>8
    <3>4. AfterDigits(s, i, FALSE) = Reading(Worth(m, j), j, SubSeq(s, 1, 3 * (k - 1)), FALSE)
      BY <2>2, <3>3 DEF AfterDigits
    <3>. QED
      BY <2>4, <2>6, <2>7, <3>1, <3>2, <3>4
  <2>9. CASE j = 4
    <3>1. m = Worth(m, 3) * 64 + v
      BY <2>2, <2>3, <2>9, WorthSteps
    <3>2. 3 * (k - 1) + 3 <= Len(s) /\ 3 * k = 3 * (k - 1) + 3
      <4>1. 4 * (k - 1) + j <= DigitCount(s)
        BY <1>1, <1>2, <2>1
      <4>2. 3 * (k - 1) + j - 1 <= Len(s)
        BY <4>1, DigitsHaveBytes
      <4>3. 3 * (k - 1) + j - 1 = 3 * (k - 1) + 3 /\ 3 * k = 3 * (k - 1) + 3
        BY <2>9
      <4>. QED
        BY <4>2, <4>3
    <3>3. Whole(m) = <<s[3 * (k - 1) + 1], s[3 * (k - 1) + 2], s[3 * (k - 1) + 3]>>
      <4>1. PICK a \in Bytes, b \in Bytes, c \in Bytes :
              /\ a = s[3 * (k - 1) + 1] /\ b = s[3 * (k - 1) + 2] /\ c = s[3 * (k - 1) + 3]
        <5>1. Len(s) \in Nat /\ \A n \in 1..Len(s) : s[n] \in Bytes
          BY LenProperties, ElementOfSeq
        <5>2. {3 * (k - 1) + 1, 3 * (k - 1) + 2, 3 * (k - 1) + 3} \subseteq 1..Len(s)
          BY <3>2, <5>1
        <5>. QED
          BY <5>1, <5>2
      <4>2. m = Joined(a, b, c)
        <5>1. /\ 3 * k - 2 = 3 * (k - 1) + 1 /\ 3 * k - 1 = 3 * (k - 1) + 2
              /\ 3 * k - 2 <= Len(s) /\ 3 * k - 1 <= Len(s) /\ 3 * k <= Len(s)
          BY <3>2, LenProperties
        <5>. QED
          BY <2>2, <3>2, <4>1, <5>1 DEF NumberOf, ByteOf
      <4>3. Whole(Joined(a, b, c)) = <<a, b, c>>
        BY WorthBytes
      <4>. QED
        BY <4>1, <4>2, <4>3
    <3>4. SubSeq(s, 1, 3 * (k - 1)) \o Whole(m) = SubSeq(s, 1, 3 * k)
      <4>1. PICK n \in Nat : n = 3 * (k - 1)
        OBVIOUS
      <4>2. SubSeq(s, 1, n) \o <<s[n + 1], s[n + 2], s[n + 3]>> = SubSeq(s, 1, n + 3)
        BY <3>2, <4>1, FewMore
      <4>. QED
        BY <3>2, <3>3, <4>1, <4>2
    <3>5. j - 1 = 3 /\ i \div 4 = k /\ i % 4 = 0
      BY <2>1, <2>9
    <3>6. Worth(NumberOf(s, k + 1), 0) = 0
      BY DEF Worth
    <3>7. AfterDigits(s, i, FALSE) = Reading(0, 0, SubSeq(s, 1, 3 * k), FALSE)
      BY <3>5, <3>6 DEF AfterDigits
    <3>. QED
      BY <2>4, <2>6, <2>7, <3>1, <3>4, <3>5, <3>7
  <2>. QED
    BY <2>8, <2>9
<1>3. CASE i > DigitCount(s)
  <2>1. ~(i <= DigitCount(s))
    BY <1>1, <1>3
  <2>2. cm_s2base64(s)[i] = 61 /\ AfterChars(s, i) = AfterDigits(s, DigitCount(s), TRUE)
    BY <1>1, <2>1 DEF AfterChars
  <2>3. CASE i - 1 <= DigitCount(s)
    <3>1. i - 1 = DigitCount(s)
      BY <1>1, <1>3, <2>3
    <3>2. AfterChars(s, i - 1) = AfterDigits(s, DigitCount(s), FALSE)
      BY <2>3, <3>1 DEF AfterChars
    <3>. QED
      BY <2>2, <3>2, EndRead DEF AfterDigits
  <2>4. CASE ~(i - 1 <= DigitCount(s))
    <3>1. AfterChars(s, i - 1) = AfterDigits(s, DigitCount(s), TRUE)
      BY <2>4 DEF AfterChars
    <3>. QED
      BY <2>2, <3>1, EndRead DEF AfterDigits
  <2>. QED
    BY <2>3, <2>4
<1>. QED
  BY <1>1, <1>2, <1>3

\* How many bytes are decoded after i digits and the end of the text.
ByteCount(i) == 3 * (i \div 4) + (IF i % 4 <= 1 THEN 0 ELSE (i % 4) - 1)

\* After i digits the decoder gives that many bytes of s.
LEMMA BytesRead ==
    ASSUME NEW s \in Seq(Bytes), s # <<>>, NEW i \in 0..DigitCount(s)
    PROVE  /\ ByteCount(i) \in 0..Len(s)
           /\ i = DigitCount(s) => ByteCount(i) = Len(s)
           /\ SubSeq(s, 1, 3 * (i \div 4)) \o Rest(Worth(NumberOf(s, i \div 4 + 1), i % 4), i % 4)
                = SubSeq(s, 1, ByteCount(i))
<1>1. Len(s) \in Nat \ {0} /\ \A n \in 1..Len(s) : s[n] \in Bytes
  BY LenProperties, EmptySeq, ElementOfSeq
<1>2. PICK g \in Nat \ {0}, q \in 1..3 :
        Groups(s) = g /\ Len(s) = 3 * (g - 1) + q /\ DigitCount(s) = 4 * (g - 1) + q + 1
  BY <1>1, LastGroup DEF Groups, DigitCount
<1>3. PICK k \in Nat, j \in 0..3 : k = i \div 4 /\ j = i % 4 /\ i = 4 * k + j
  <2>1. i \div 4 \in Nat /\ i % 4 \in 0..3 /\ i = 4 * (i \div 4) + (i % 4)
    BY <1>2
  <2>. QED
    BY <2>1
<1>4. ByteCount(i) = 3 * k + (IF j <= 1 THEN 0 ELSE j - 1)
  BY <1>3 DEF ByteCount
<1>5. 3 * k + (IF j <= 1 THEN 0 ELSE j - 1) \in 0..Len(s)
  BY <1>2, <1>3
<1>6. i = DigitCount(s) => 3 * k + (IF j <= 1 THEN 0 ELSE j - 1) = Len(s)
  <2>. SUFFICES ASSUME i = DigitCount(s) PROVE 3 * k + (IF j <= 1 THEN 0 ELSE j - 1) = Len(s)
    OBVIOUS
  <2>1. 4 * k + j = 4 * (g - 1) + q + 1
    BY <1>2, <1>3
  <2>2. CASE q = 3
    <3>1. k = g /\ j = 0
      BY <2>1, <2>2
    <3>. QED
      BY <1>2, <2>2, <3>1
  <2>3. CASE q # 3
    <3>1. k = g - 1 /\ j = q + 1
      BY <2>1, <2>3
    <3>. QED
      BY <1>2, <2>3, <3>1
  <2>. QED
    BY <2>2, <2>3
<1>7. PICK a \in Bytes, b \in Bytes, c \in Bytes :
        /\ a = ByteOf(s, 3 * k + 1) /\ b = ByteOf(s, 3 * k + 2) /\ c = ByteOf(s, 3 * k + 3)
  <2>1. /\ \E a \in Bytes : a = ByteOf(s, 3 * k + 1)
        /\ \E b \in Bytes : b = ByteOf(s, 3 * k + 2)
        /\ \E c \in Bytes : c = ByteOf(s, 3 * k + 3)
    BY BytesThere
  <2>. QED
    BY <2>1
<1>8. NumberOf(s, k + 1) = Joined(a, b, c)
  <2>1. 3 * (k + 1) - 2 = 3 * k + 1 /\ 3 * (k + 1) - 1 = 3 * k + 2 /\ 3 * (k + 1) = 3 * k + 3
    OBVIOUS
  <2>. QED
    BY <1>7, <2>1 DEF NumberOf
<1>9. LET m == Joined(a, b, c)
      IN  /\ Whole(m) = <<a, b, c>>
          /\ Rest(Worth(m, 0), 0) = <<>> /\ Rest(Worth(m, 1), 1) = <<>>
          /\ Rest(Worth(m, 2), 2) = <<a>>
          /\ Rest(Worth(m, 3), 3) = <<a, b>>
  BY WorthBytes
<1>. DEFINE more == Rest(Worth(Joined(a, b, c), j), j)
<1>10. SubSeq(s, 1, 3 * k) \o more = SubSeq(s, 1, 3 * k + (IF j <= 1 THEN 0 ELSE j - 1))
  <2>1. PICK n \in Nat : n = 3 * k
    OBVIOUS
  <2>2. CASE j <= 1
    <3>1. more = <<>>
      BY <1>9, <2>2
    <3>2. SubSeq(s, 1, n) \in Seq(Bytes)
      <4>1. n <= Len(s)
        BY <1>5, <2>1, <2>2
      <4>. QED
        BY <1>1, <2>1, <4>1, SubSeqProperties
    <3>3. SubSeq(s, 1, n) \o <<>> = SubSeq(s, 1, n)
      BY <3>2, ConcatEmptySeq
    <3>. HIDE DEF more
    <3>. QED
      BY <2>1, <2>2, <3>1, <3>3
  <2>3. CASE j = 2
    <3>1. n + 1 <= Len(s)
      BY <1>5, <2>1, <2>3
    <3>2. more = <<s[n + 1]>>
      BY <1>7, <1>9, <2>1, <2>3, <3>1 DEF ByteOf
    <3>3. SubSeq(s, 1, n) \o <<s[n + 1]>> = SubSeq(s, 1, n + 1)
      BY <3>1, FewMore
    <3>. HIDE DEF more
    <3>. QED
      BY <2>1, <2>3, <3>2, <3>3
  <2>4. CASE j = 3
    <3>1. n + 2 <= Len(s) /\ n + 1 <= Len(s)
      BY <1>1, <1>5, <2>1, <2>4
    <3>2. more = <<s[n + 1], s[n + 2]>>
      BY <1>7, <1>9, <2>1, <2>4, <3>1 DEF ByteOf
    <3>3. SubSeq(s, 1, n) \o <<s[n + 1], s[n + 2]>> = SubSeq(s, 1, n + 2)
      BY <3>1, FewMore
    <3>. HIDE DEF more
    <3>. QED
      BY <2>1, <2>4, <3>2, <3>3
  <2>. QED
    BY <2>2, <2>3, <2>4
<1>. QED
  BY <1>3, <1>4, <1>5, <1>6, <1>8, <1>10

\* How far the decoder is after i characters of the text of s.
Reached(s, i) == ByteCount(IF i <= DigitCount(s) THEN i ELSE DigitCount(s))

\* A text that leads the decoder where i characters of the text of s do.
LEMMA ReadUpTo ==
    ASSUME NEW s \in Seq(Bytes), s # <<>>, NEW t, t # <<>>, NEW i \in Nat,
           Decoded(t) = AfterChars(s, i)
    PROVE  /\ cm_base642s(t) = SubSeq(s, 1, Reached(s, i))
           /\ Reached(s, i) \in 0..Len(s)
           /\ i >= DigitCount(s) => Reached(s, i) = Len(s)
<1>1. DigitCount(s) \in Nat
  BY TextOf
<1>2. PICK n \in 0..DigitCount(s), end \in BOOLEAN :
        /\ Decoded(t) = AfterDigits(s, n, end) /\ Reached(s, i) = ByteCount(n)
        /\ i >= DigitCount(s) => n = DigitCount(s)
  <2>1. CASE i <= DigitCount(s)
    <3>1. i \in 0..DigitCount(s) /\ (i >= DigitCount(s) => i = DigitCount(s))
      BY <1>1, <2>1
    <3>2. Decoded(t) = AfterDigits(s, i, FALSE) /\ Reached(s, i) = ByteCount(i)
      BY <2>1 DEF AfterChars, Reached
    <3>. QED
      BY <3>1, <3>2
  <2>2. CASE ~(i <= DigitCount(s))
    <3>1. DigitCount(s) \in 0..DigitCount(s)
      BY <1>1
    <3>2. Decoded(t) = AfterDigits(s, DigitCount(s), TRUE) /\ Reached(s, i) = ByteCount(DigitCount(s))
      BY <2>2 DEF AfterChars, Reached
    <3>. QED
      BY <3>1, <3>2
  <2>. QED
    BY <2>1, <2>2
<1>3. /\ ByteCount(n) \in 0..Len(s)
      /\ n = DigitCount(s) => ByteCount(n) = Len(s)
      /\ SubSeq(s, 1, 3 * (n \div 4)) \o Rest(Worth(NumberOf(s, n \div 4 + 1), n % 4), n % 4)
           = SubSeq(s, 1, ByteCount(n))
  BY BytesRead
<1>4. /\ Decoded(t).failed = FALSE /\ Decoded(t).out = SubSeq(s, 1, 3 * (n \div 4))
      /\ Decoded(t).m = Worth(NumberOf(s, n \div 4 + 1), n % 4) /\ Decoded(t).j = n % 4
  BY <1>2 DEF AfterDigits, Reading
<1>5. cm_base642s(t) = SubSeq(s, 1, ByteCount(n))
  BY <1>3, <1>4 DEF cm_base642s
<1>. QED
  BY <1>2, <1>3, <1>5

\* The decoder before the first character.
LEMMA NothingRead ==
    ASSUME NEW s \in Seq(Bytes), s # <<>>
    PROVE  AfterChars(s, 0) = DecodeStart
<1>1. 0 <= DigitCount(s)
  BY TextOf
<1>2. PICK q, r : q = 0 \div 4 /\ r = 0 % 4
  OBVIOUS
<1>3. q = 0 /\ r = 0
  BY <1>2
<1>4. AfterChars(s, 0) = Reading(Worth(NumberOf(s, q + 1), r), r, SubSeq(s, 1, 3 * q), FALSE)
  BY <1>1, <1>2 DEF AfterChars, AfterDigits
<1>5. Worth(NumberOf(s, q + 1), r) = 0
  BY <1>3 DEF Worth
<1>6. SubSeq(s, 1, 3 * q) = <<>>
  BY <1>3, SubSeqEmpty
<1>7. AfterChars(s, 0) = Reading(0, 0, <<>>, FALSE)
  BY <1>3, <1>4, <1>5, <1>6
<1>. QED
  BY <1>7 DEF Reading, DecodeStart

\* The first n characters of the text of s, in the decoder.
LEMMA StartRead ==
    ASSUME NEW s \in Seq(Bytes), s # <<>>, NEW t, NEW n \in 1..(4 * Groups(s)), Len(t) = n,
           \A i \in 1..n : t[i] = cm_s2base64(s)[i]
    PROVE  Decoded(t) = AfterChars(s, n)
<1>1. Groups(s) \in Nat \ {0} /\ DigitCount(s) \in Nat
  BY TextOf
<1>0. PICK w : w = [i \in 0..n |-> AfterChars(s, i)]
  OBVIOUS
<1>2. AfterChars(s, 0) = DecodeStart
  BY NothingRead
<1>3. \A i \in 0..n : w[i] = AfterChars(s, i)
  BY <1>0
<1>4. ASSUME NEW i \in 1..n PROVE w[i] = Decode(w[i - 1], t[i])
  <2>1. i \in 1..(4 * Groups(s)) /\ i \in 0..n /\ i - 1 \in 0..n
    BY <1>1
  <2>2. AfterChars(s, i) = Decode(AfterChars(s, i - 1), cm_s2base64(s)[i])
    BY <2>1, CharRead
  <2>. QED
    BY <1>3, <2>1, <2>2
<1>5. n \in Nat /\ 0 \in 0..n /\ n \in 0..n
  BY <1>1
<1>6. Follows(w, t)
  BY <1>2, <1>3, <1>4, <1>5 DEF Follows
<1>7. Decoded(t) = w[n]
  BY <1>5, <1>6, DecodedIs
<1>. QED
  BY <1>3, <1>5, <1>7

\* A line end in the text changes nothing.
LEMMA BlankRead ==
    ASSUME NEW s \in Seq(Bytes), s # <<>>, NEW t, NEW p \in 1..(4 * Groups(s)),
           Len(t) = 4 * Groups(s) + 1,
           \A i \in 1..(4 * Groups(s) + 1) :
             t[i] = IF i < p THEN cm_s2base64(s)[i] ELSE IF i = p THEN 10 ELSE cm_s2base64(s)[i - 1]
    PROVE  Decoded(t) = AfterChars(s, 4 * Groups(s))
<1>1. Groups(s) \in Nat \ {0} /\ DigitCount(s) \in Nat
  BY TextOf
<1>. DEFINE n == 4 * Groups(s)
            Before(i) == IF i < p THEN i ELSE i - 1
<1>0. PICK w : w = [i \in 0..(n + 1) |-> AfterChars(s, Before(i))]
  OBVIOUS
<1>2. AfterChars(s, 0) = DecodeStart
  BY NothingRead
<1>3. \A i \in 1..(n + 1) : AfterChars(s, Before(i)) = Decode(AfterChars(s, Before(i - 1)), t[i])
  <2>. SUFFICES ASSUME NEW i \in 1..(n + 1)
                PROVE  AfterChars(s, Before(i)) = Decode(AfterChars(s, Before(i - 1)), t[i])
    OBVIOUS
  <2>1. CASE i < p
    <3>1. i \in 1..n /\ Before(i) = i /\ Before(i - 1) = i - 1
      BY <1>1, <2>1
    <3>. QED
      BY <2>1, <3>1, CharRead
  <2>2. CASE i = p
    <3>1. Before(i) = p - 1 /\ Before(i - 1) = p - 1 /\ t[i] = 10
      BY <1>1, <2>2
    <3>2. \E k, end : AfterChars(s, p - 1) = AfterDigits(s, k, end) /\ end \in BOOLEAN
      BY DEF AfterChars
    <3>3. Decode(AfterChars(s, p - 1), 10) = AfterChars(s, p - 1)
      BY <3>2, EndRead DEF AfterDigits
    <3>. QED
      BY <3>1, <3>3
  <2>3. CASE i > p
    <3>1. i - 1 \in 1..n /\ Before(i) = i - 1 /\ Before(i - 1) = (i - 1) - 1
      BY <1>1, <2>3
    <3>2. t[i] = cm_s2base64(s)[i - 1]
      BY <1>1, <2>3
    <3>3. PICK k \in 1..n : k = i - 1
      BY <3>1
    <3>4. AfterChars(s, k) = Decode(AfterChars(s, k - 1), cm_s2base64(s)[k])
      BY CharRead
    <3>. QED
      BY <3>1, <3>2, <3>3, <3>4
  <2>. QED
    BY <1>1, <2>1, <2>2, <2>3
<1>4. Before(0) = 0 /\ Before(n + 1) = n
  BY <1>1
<1>5. \A i \in 0..(n + 1) : w[i] = AfterChars(s, Before(i))
  BY <1>0
<1>. HIDE DEF Before
<1>6. ASSUME NEW i \in 1..(n + 1) PROVE w[i] = Decode(w[i - 1], t[i])
  <2>1. i \in 0..(n + 1) /\ i - 1 \in 0..(n + 1)
    BY <1>1
  <2>. QED
    BY <1>3, <1>5, <2>1
<1>7. n + 1 \in Nat /\ 0 \in 0..(n + 1) /\ n + 1 \in 0..(n + 1)
  BY <1>1
<1>8. Follows(w, t)
  BY <1>2, <1>4, <1>5, <1>6, <1>7 DEF Follows
<1>9. Decoded(t) = w[n + 1]
  BY <1>7, <1>8, DecodedIs
<1>. QED
  BY <1>4, <1>5, <1>7, <1>9

\* A text with one more character is one longer.
LEMMA InsertedLength ==
    ASSUME NEW n \in Nat, NEW t \in Seq(Int), n = Len(t), NEW p \in 1..n, NEW e \in Int,
           NEW u, u = InsertAt(t, p, e)
    PROVE  u \in Seq(Int) /\ Len(u) = n + 1
<1>1. \A i \in 1..n : t[i] \in Int
  BY ElementOfSeq
<1>2. PICK a : a = SubSeq(t, 1, p - 1)
  OBVIOUS
<1>3. PICK b : b = SubSeq(t, p, n)
  OBVIOUS
<1>4. PICK c : c = <<e>>
  OBVIOUS
<1>5. a \in Seq(Int) /\ Len(a) = p - 1
  <2>1. \A i \in 1..(p - 1) : t[i] \in Int
    BY <1>1
  <2>2. SubSeq(t, 1, p - 1) \in Seq(Int)
        /\ Len(SubSeq(t, 1, p - 1)) = (IF 1 <= p - 1 THEN (p - 1) - 1 + 1 ELSE 0)
    BY <1>1, <2>1, SubSeqProperties
  <2>. QED
    BY <1>2, <2>2
<1>6. b \in Seq(Int) /\ Len(b) = n - p + 1
  <2>1. \A i \in p..n : t[i] \in Int
    BY <1>1
  <2>2. SubSeq(t, p, n) \in Seq(Int) /\ Len(SubSeq(t, p, n)) = (IF p <= n THEN n - p + 1 ELSE 0)
    BY <1>1, <2>1, SubSeqProperties
  <2>. QED
    BY <1>3, <2>2
<1>7. c \in Seq(Int) /\ Len(c) = 1
  BY <1>4
<1>8. a \o c \in Seq(Int) /\ Len(a \o c) = Len(a) + Len(c)
  BY <1>5, <1>7, ConcatProperties
<1>9. (a \o c) \o b \in Seq(Int) /\ Len((a \o c) \o b) = Len(a \o c) + Len(b)
  BY <1>6, <1>8, ConcatProperties
<1>10. u = (a \o c) \o b
  BY <1>2, <1>3, <1>4 DEF InsertAt
<1>. QED
  BY <1>5, <1>6, <1>7, <1>8, <1>9, <1>10

\* A text with one more character, at place p, has the others around it.
LEMMA InsertedChars ==
    ASSUME NEW n \in Nat, NEW t \in Seq(Int), n = Len(t), NEW p \in 1..n, NEW e \in Int,
           NEW u, u = InsertAt(t, p, e)
    PROVE  /\ u[p] = e
           /\ \A i \in 1..n : (i < p => u[i] = t[i]) /\ (i >= p => u[i + 1] = t[i])
<1>1. n = Len(t) /\ \A i \in 1..n : t[i] \in Int
  BY LenProperties, ElementOfSeq
<1>. DEFINE a == SubSeq(t, 1, p - 1)
            b == SubSeq(t, p, Len(t))
            c == <<e>>
<1>2. a \in Seq(Int) /\ Len(a) = p - 1 /\ \A i \in 1..(p - 1) : a[i] = t[i]
  <2>1. \A i \in 1..(p - 1) : t[i] \in Int
    BY <1>1
  <2>2. /\ a \in Seq(Int) /\ Len(a) = (IF 1 <= p - 1 THEN (p - 1) - 1 + 1 ELSE 0)
        /\ \A i \in 1..((p - 1) - 1 + 1) : a[i] = t[1 + i - 1]
    BY <1>1, <2>1, SubSeqProperties
  <2>. HIDE DEF a
  <2>. QED
    BY <1>1, <2>2
<1>3. b \in Seq(Int) /\ Len(b) = n - p + 1 /\ \A i \in 1..(n - p + 1) : b[i] = t[p + i - 1]
  <2>1. \A i \in p..n : t[i] \in Int
    BY <1>1
  <2>2. /\ SubSeq(t, p, n) \in Seq(Int) /\ Len(SubSeq(t, p, n)) = (IF p <= n THEN n - p + 1 ELSE 0)
        /\ \A i \in 1..(n - p + 1) : SubSeq(t, p, n)[i] = t[p + i - 1]
    BY <1>1, <2>1, SubSeqProperties
  <2>3. b = SubSeq(t, p, n)
    BY <1>1
  <2>. HIDE DEF b
  <2>. QED
    BY <1>1, <2>2, <2>3
<1>4. c \in Seq(Int) /\ Len(c) = 1 /\ c[1] = e
  OBVIOUS
<1>5. InsertAt(t, p, e) = (a \o c) \o b
  BY DEF InsertAt
<1>. HIDE DEF a, b, c
<1>6. /\ a \o c \in Seq(Int) /\ Len(a \o c) = Len(a) + Len(c)
      /\ \A i \in 1..(Len(a) + Len(c)) : (a \o c)[i] = IF i <= Len(a) THEN a[i] ELSE c[i - Len(a)]
  BY <1>2, <1>4, ConcatProperties
<1>7. PICK d : d = a \o c
  OBVIOUS
<1>8. d \in Seq(Int) /\ Len(d) = p /\ \A i \in 1..p : d[i] = IF i < p THEN t[i] ELSE e
  <2>1. d \in Seq(Int) /\ Len(d) = p
    BY <1>1, <1>2, <1>4, <1>6, <1>7
  <2>2. ASSUME NEW i \in 1..p PROVE d[i] = IF i < p THEN t[i] ELSE e
    <3>1. d[i] = IF i <= p - 1 THEN a[i] ELSE c[i - (p - 1)]
      BY <1>1, <1>2, <1>4, <1>6, <1>7
    <3>2. CASE i < p
      BY <1>1, <1>2, <3>1, <3>2
    <3>3. CASE i = p
      <4>1. ~(i <= p - 1) /\ i - (p - 1) = 1
        BY <1>1, <3>3
      <4>. QED
        BY <1>4, <3>1, <3>3, <4>1
    <3>. QED
      BY <1>1, <3>2, <3>3
  <2>. QED
    BY <2>1, <2>2
<1>9. /\ d \o b \in Seq(Int) /\ Len(d \o b) = Len(d) + Len(b)
      /\ \A i \in 1..(Len(d) + Len(b)) : (d \o b)[i] = IF i <= Len(d) THEN d[i] ELSE b[i - Len(d)]
  BY <1>3, <1>8, ConcatProperties
<1>10. Len(d \o b) = n + 1
  BY <1>1, <1>3, <1>8, <1>9
<1>11. ASSUME NEW i \in 1..(n + 1)
       PROVE  (d \o b)[i] = IF i < p THEN t[i] ELSE IF i = p THEN e ELSE t[i - 1]
  <2>1. (d \o b)[i] = IF i <= p THEN d[i] ELSE b[i - p]
    <3>1. Len(d) = p /\ i \in 1..(Len(d) + Len(b))
      BY <1>3, <1>8
    <3>2. (d \o b)[i] = IF i <= Len(d) THEN d[i] ELSE b[i - Len(d)]
      BY <1>9, <3>1
    <3>. QED
      BY <3>1, <3>2
  <2>2. CASE i <= p
    BY <1>1, <1>8, <2>1, <2>2
  <2>3. CASE ~(i <= p)
    <3>1. i - p \in 1..(n - p + 1) /\ p + (i - p) - 1 = i - 1 /\ ~(i < p) /\ i # p
      BY <1>1, <2>3
    <3>2. PICK k \in 1..(n - p + 1) : k = i - p
      BY <3>1
    <3>3. b[k] = t[p + k - 1]
      BY <1>3
    <3>. QED
      BY <2>1, <2>3, <3>1, <3>2, <3>3
  <2>. QED
    BY <2>2, <2>3
<1>12. ASSUME NEW i \in 1..n
       PROVE  (i < p => u[i] = t[i]) /\ (i >= p => u[i + 1] = t[i])
  <2>1. i \in 1..(n + 1) /\ i + 1 \in 1..(n + 1) /\ (i + 1) - 1 = i
    OBVIOUS
  <2>2. i >= p => ~(i + 1 < p) /\ i + 1 # p
    BY <1>1
  <2>. QED
    BY <1>5, <1>7, <1>11, <2>1, <2>2
<1>13. u[p] = e
  <2>1. p \in 1..(n + 1) /\ ~(p < p)
    OBVIOUS
  <2>. QED
    BY <1>5, <1>7, <1>11, <2>1
<1>. QED
  BY <1>5, <1>7, <1>9, <1>10, <1>12, <1>13

-----------------------------------------------------------------------------
(* There and back.                                                          *)

\* A sequence cut off at its length is itself; a shorter one is a prefix.
LEMMA CutOff ==
    ASSUME NEW s \in Seq(Bytes), NEW n \in 0..Len(s)
    PROVE  /\ SubSeq(s, 1, Len(s)) = s
           /\ IsPrefix(SubSeq(s, 1, n), s)
<1>1. Len(s) \in Nat /\ \A i \in 1..Len(s) : s[i] \in Bytes
  BY LenProperties, ElementOfSeq
<1>2. PICK c : c = SubSeq(s, 1, Len(s))
  OBVIOUS
<1>3. c \in Seq(Bytes) /\ Len(c) = Len(s) /\ \A i \in 1..Len(s) : c[i] = s[i]
  BY <1>1, <1>2, SubSeqProperties
<1>4. c = s
  BY <1>3, SeqEqual
<1>5. PICK a : a = SubSeq(s, 1, n)
  OBVIOUS
<1>6. a \in Seq(Bytes) /\ Len(a) = n /\ \A i \in 1..n : a[i] = s[i]
  BY <1>1, <1>5, SubSeqProperties
<1>7. PICK b : b = SubSeq(a, 1, n)
  OBVIOUS
<1>8. b \in Seq(Bytes) /\ Len(b) = n /\ \A i \in 1..n : b[i] = a[i]
  <2>1. \A i \in 1..n : a[i] \in Bytes
    BY <1>1, <1>6
  <2>. QED
    BY <1>1, <1>7, <2>1, SubSeqProperties
<1>9. b = a
  BY <1>6, <1>8, SeqEqual
<1>10. IsPrefix(a, s)
  BY <1>1, <1>5, <1>6, <1>7, <1>9 DEF IsPrefix
<1>. QED
  BY <1>2, <1>4, <1>5, <1>10

\* The bytes come back from the text, with a line end anywhere, and as far as
\* a text that is cut off goes.
LEMMA Base64Back ==
    ASSUME NEW s \in Seq(Bytes), s # <<>>, NEW text, text = cm_s2base64(s)
    PROVE  /\ cm_base642s(text) = s
           /\ \A i \in DOMAIN text :
                /\ cm_base642s(InsertAt(text, i, 10)) = s
                /\ i > 1 => IsPrefix(cm_base642s(SubSeq(text, 1, i - 1)), s)
<1>1. PICK n \in Nat : n = 4 * Groups(s)
  BY TextOf
<1>2. /\ n # 0 /\ n >= DigitCount(s) /\ text \in Seq(Int) /\ Len(text) = n
  <2>1. PICK count \in Nat, groups \in Nat \ {0} :
          count = DigitCount(s) /\ groups = Groups(s) /\ 4 * groups - count \in 0..2
    BY TextOf
  <2>2. n = 4 * groups /\ n # 0 /\ n >= count
    BY <1>1, <2>1
  <2>3. text \in Seq(Int) /\ Len(text) = 4 * Groups(s)
    BY TextOf
  <2>. QED
    BY <1>1, <2>1, <2>2, <2>3
<1>3. DOMAIN text = 1..n /\ \A i \in 1..n : text[i] \in Int
  BY <1>2, LenProperties, ElementOfSeq
<1>4. cm_base642s(text) = s
  <2>1. n \in 1..(4 * Groups(s))
    BY <1>1, <1>2
  <2>2. Decoded(text) = AfterChars(s, n)
    BY <1>2, <2>1, StartRead
  <2>3. text # <<>>
    BY <1>2, EmptySeq
  <2>4. cm_base642s(text) = SubSeq(s, 1, Reached(s, n)) /\ Reached(s, n) = Len(s)
    BY <1>2, <2>2, <2>3, ReadUpTo
  <2>. QED
    BY <2>4, CutOff, LenProperties
<1>5. ASSUME NEW i \in 1..n PROVE cm_base642s(InsertAt(text, i, 10)) = s
  <2>1. PICK t : t = InsertAt(text, i, 10)
    OBVIOUS
  <2>2. /\ Len(t) = n + 1 /\ t \in Seq(Int)
        /\ \A k \in 1..(n + 1) :
             t[k] = IF k < i THEN text[k] ELSE IF k = i THEN 10 ELSE text[k - 1]
    <3>1. n = Len(text) /\ text \in Seq(Int) /\ i \in 1..n /\ 10 \in Int
      BY <1>2
    <3>2. t \in Seq(Int) /\ Len(t) = n + 1
      BY <2>1, <3>1, InsertedLength
    <3>3. t[i] = 10 /\ \A k \in 1..n : (k < i => t[k] = text[k]) /\ (k >= i => t[k + 1] = text[k])
      BY <2>1, <3>1, InsertedChars
    <3>4. ASSUME NEW k \in 1..(n + 1)
          PROVE  t[k] = IF k < i THEN text[k] ELSE IF k = i THEN 10 ELSE text[k - 1]
      <4>1. CASE k < i
        BY <3>3, <4>1
      <4>2. CASE k = i
        BY <3>3, <4>2
      <4>3. CASE k > i
        <5>1. PICK m \in 1..n : m = k - 1
          BY <4>3
        <5>2. m >= i /\ k = m + 1
          BY <4>3, <5>1
        <5>3. t[m + 1] = text[m]
          BY <3>3, <5>2
        <5>4. ~(k < i) /\ k # i
          BY <4>3
        <5>. QED
          BY <5>1, <5>2, <5>3, <5>4
      <4>. QED
        BY <4>1, <4>2, <4>3
    <3>. QED
      BY <3>2, <3>4
  <2>3. Decoded(t) = AfterChars(s, n)
    BY <1>1, <2>2, BlankRead
  <2>4. t # <<>>
    BY <2>2, EmptySeq
  <2>5. cm_base642s(t) = SubSeq(s, 1, Reached(s, n)) /\ Reached(s, n) = Len(s)
    BY <1>2, <2>3, <2>4, ReadUpTo
  <2>. QED
    BY <2>1, <2>5, CutOff, LenProperties
<1>6. ASSUME NEW i \in 1..n, i > 1 PROVE IsPrefix(cm_base642s(SubSeq(text, 1, i - 1)), s)
  <2>1. PICK k \in 1..n : k = i - 1
    BY <1>6
  <2>2. PICK t : t = SubSeq(text, 1, k)
    OBVIOUS
  <2>3. t \in Seq(Int) /\ Len(t) = k /\ \A m \in 1..k : t[m] = text[m]
    <3>1. \A m \in 1..k : text[m] \in Int
      BY <1>3
    <3>. QED
      BY <2>2, <3>1, SubSeqProperties
  <2>4. Decoded(t) = AfterChars(s, k)
    BY <1>1, <2>3, StartRead
  <2>5. t # <<>>
    BY <2>3, EmptySeq
  <2>6. cm_base642s(t) = SubSeq(s, 1, Reached(s, k)) /\ Reached(s, k) \in 0..Len(s)
    BY <2>4, <2>5, ReadUpTo
  <2>7. IsPrefix(SubSeq(s, 1, Reached(s, k)), s)
    BY <2>6, CutOff
  <2>. QED
    BY <2>1, <2>2, <2>6, <2>7
<1>. QED
  BY <1>3, <1>4, <1>5, <1>6

\* The digits have the bits of the bytes in their order, and what is left of
\* the last ones is zero.
LEMMA Base64Bits ==
    ASSUME NEW s \in Seq(Bytes), s # <<>>
    PROVE  IsBase64(s, cm_s2base64(s))
<1>1. PICK n \in Nat : n = 4 * Groups(s)
  BY TextOf
<1>2. PICK text : text = cm_s2base64(s)
  OBVIOUS
<1>3. PICK count \in Nat : count = DigitCount(s) /\ n - count \in 0..2
  BY <1>1, TextOf
<1>4. /\ text \in Seq(Int) /\ Len(text) = n
      /\ \A i \in 1..n :
           text[i] = IF i <= count
             THEN g_base64o(Digits(NumberOf(s, (i + 3) \div 4))[i - 4 * ((i + 3) \div 4 - 1)])
             ELSE 61
  BY <1>1, <1>2, <1>3, TextOf
<1>5. Len(s) \in Nat
  BY LenProperties
<1>6. ASSUME NEW i \in 1..n, i <= count
      PROVE  /\ g_base64i(text[i]) < 64
             /\ \A b \in 1..6 : BitOfDigit(g_base64i(text[i]), b) = BitOfBytes(s, 6 * (i - 1) + b)
  <2>1. PICK k \in Nat \ {0}, j \in 1..4 : k = (i + 3) \div 4 /\ j = i - 4 * (k - 1)
    <3>1. i \in Nat \ {0}
      OBVIOUS
    <3>2. \E k \in Nat \ {0}, j \in 1..4 :
            /\ k = (i + 3) \div 4 /\ j = i - 4 * (k - 1)
            /\ (i - 1) \div 4 = k - 1 /\ (i - 1) % 4 = j - 1
            /\ i \div 4 = (IF j = 4 THEN k ELSE k - 1) /\ i % 4 = (IF j = 4 THEN 0 ELSE j)
      BY <3>1, PlaceInGroup
    <3>. QED
      BY <3>2
  <2>2. PICK v \in 0..63 : v = Digits(NumberOf(s, k))[j]
    BY NumberTyped, DigitsInRange
  <2>3. text[i] = g_base64o(v)
    BY <1>4, <1>6, <2>1, <2>2
  <2>4. g_base64i(text[i]) = v
    BY <2>3, TablesAreInverse
  <2>5. PICK x \in Bytes, y \in Bytes, z \in Bytes :
          x = ByteOf(s, 3 * (k - 1) + 1) /\ y = ByteOf(s, 3 * (k - 1) + 2) /\ z = ByteOf(s, 3 * (k - 1) + 3)
    <3>1. /\ \E x \in Bytes : x = ByteOf(s, 3 * (k - 1) + 1)
          /\ \E y \in Bytes : y = ByteOf(s, 3 * (k - 1) + 2)
          /\ \E z \in Bytes : z = ByteOf(s, 3 * (k - 1) + 3)
      BY BytesThere
    <3>. QED
      BY <3>1
  <2>6. NumberOf(s, k) = Joined(x, y, z)
    <3>1. 3 * k - 2 = 3 * (k - 1) + 1 /\ 3 * k - 1 = 3 * (k - 1) + 2 /\ 3 * k = 3 * (k - 1) + 3
      OBVIOUS
    <3>. QED
      BY <2>5, <3>1 DEF NumberOf
  <2>7. ASSUME NEW b \in 1..6 PROVE BitOfDigit(v, b) = BitOfBytes(s, 6 * (i - 1) + b)
    <3>1. PICK e \in 0..23 : e = 6 * (j - 1) + b - 1
      OBVIOUS
    <3>2. PICK q \in 0..2, r \in 0..7 : q = e \div 8 /\ r = e % 8 /\ e = 8 * q + r
      OBVIOUS
    <3>3. BitOfDigit(v, b) = Bit(<<x, y, z>>[q + 1], Weight[r + 1])
      <4>1. \A jj \in 1..4 : \A t \in 1..6 :
              BitOfDigit(Digits(Joined(x, y, z))[jj], t) =
                LET m == 6 * (jj - 1) + t - 1
                IN  Bit(<<x, y, z>>[m \div 8 + 1], Weight[(m % 8) + 1])
        BY DigitBits
      <4>2. BitOfDigit(v, b) = Bit(<<x, y, z>>[e \div 8 + 1], Weight[(e % 8) + 1])
        BY <2>2, <2>6, <3>1, <4>1
      <4>. QED
        BY <3>2, <4>2
    <3>4. <<x, y, z>>[q + 1] = ByteOf(s, 3 * (k - 1) + q + 1)
      <4>1. CASE q = 0
        BY <2>5, <4>1
      <4>2. CASE q = 1
        BY <2>5, <4>2
      <4>3. CASE q = 2
        BY <2>5, <4>3
      <4>. QED
        BY <4>1, <4>2, <4>3
    <3>5. PICK m \in Nat : m = 6 * (i - 1) + b
      OBVIOUS
    <3>6. m - 1 = 8 * (3 * (k - 1) + q) + r
      BY <2>1, <3>1, <3>2, <3>5
    <3>7. PICK p \in Nat : p = 3 * (k - 1) + q
      BY <2>1
    <3>8. (m - 1) \div 8 = p /\ (m - 1) % 8 = r /\ (m > 8 * Len(s) <=> p + 1 > Len(s))
      BY <1>5, <3>6, <3>7
    <3>9. BitOfBytes(s, m) = IF p + 1 > Len(s) THEN 0 ELSE Bit(s[p + 1], Weight[r + 1])
      BY <3>8 DEF BitOfBytes
    <3>10. ByteOf(s, p + 1) = IF p + 1 > Len(s) THEN 0 ELSE s[p + 1]
      BY <1>5 DEF ByteOf
    <3>11. Bit(0, Weight[r + 1]) = 0
      BY DEF Bit, Weight
    <3>12. BitOfDigit(v, b) = Bit(ByteOf(s, p + 1), Weight[r + 1])
      BY <3>3, <3>4, <3>7
    <3>. QED
      BY <3>5, <3>9, <3>10, <3>11, <3>12
  <2>. QED
    BY <2>4, <2>7
<1>7. n % 4 = 0
  BY <1>1, TextOf
<1>8. DOMAIN text = 1..n
  BY <1>4, LenProperties
<1>9. \A i \in 1..n : i > count => text[i] = 61
  BY <1>4
<1>10. (8 * Len(s) + 5) \div 6 = count
  BY <1>3 DEF DigitCount
<1>11. \A i \in 1..n :
         IF i > count THEN text[i] = 61
         ELSE /\ g_base64i(text[i]) < 64
              /\ \A b \in 1..6 :
                   BitOfDigit(g_base64i(text[i]), b) = BitOfBytes(s, 6 * (i - 1) + b)
  <2>. TAKE i \in 1..n
  <2>1. CASE i > count
    BY <1>9, <2>1
  <2>2. CASE ~(i > count)
    <3>1. i <= count
      BY <2>2
    <3>. QED
      BY <1>6, <2>2, <3>1
  <2>. QED
    BY <2>1, <2>2
<1>12. IsBase64(s, text)
  BY <1>3, <1>4, <1>7, <1>8, <1>10, <1>11, Zenon DEF IsBase64
<1>. QED
  BY <1>2, <1>12

-----------------------------------------------------------------------------
(* Numbers.                                                                 *)

\* w has the numbers that the first digits of t stand for.
Weighs(w, t, n) == w[0] = 0 /\ \A i \in 1..n : w[i] = w[i - 1] * 10 + t[i] - 48

\* The value of a text is what its digits stand for.
LEMMA ValueIs ==
    ASSUME NEW t, NEW n \in Nat, n = Len(t), NEW w, Weighs(w, t, n)
    PROVE  Value(t) = w[n]
<1>. DEFINE Upto(v) == [i \in 0..n |-> IF i = 0 THEN 0 ELSE v[i - 1] * 10 + t[i] - 48]
            u == CHOOSE v : v = Upto(v)
            known == [i \in 0..n |-> w[i]]
<1>1. known = Upto(known)
  <2>1. \A i \in 0..n : i # 0 => i \in 1..n /\ i - 1 \in 0..n
    OBVIOUS
  <2>2. ASSUME NEW i \in 0..n
        PROVE  known[i] = IF i = 0 THEN 0 ELSE known[i - 1] * 10 + t[i] - 48
    <3>1. CASE i = 0
      BY <3>1 DEF Weighs
    <3>2. CASE i # 0
      <4>1. i \in 1..n /\ i - 1 \in 0..n
        BY <2>1, <3>2
      <4>2. known[i] = w[i] /\ known[i - 1] = w[i - 1]
        BY <4>1
      <4>3. w[i] = w[i - 1] * 10 + t[i] - 48
        BY <4>1 DEF Weighs
      <4>. HIDE DEF known
      <4>. QED
        BY <3>2, <4>2, <4>3
    <3>. QED
      BY <3>1, <3>2
  <2>. QED
    BY <2>2
<1>2. u = Upto(u)
  <2>. HIDE DEF Upto, known
  <2>. QED
    BY <1>1
<1>. HIDE DEF u
<1>3. Value(t) = u[n]
  BY DEF Value, u
<1>. DEFINE same == {i \in 0..n : u[i] = w[i]}
<1>4. 0 \in same
  <2>1. 0 \in 0..n
    OBVIOUS
  <2>. QED
    BY <1>2, <2>1 DEF Weighs
<1>5. ASSUME NEW i \in 1..n, i - 1 \in same PROVE i \in same
  <2>1. i \in 0..n /\ i # 0
    OBVIOUS
  <2>2. u[i] = u[i - 1] * 10 + t[i] - 48
    BY <1>2, <2>1
  <2>3. w[i] = w[i - 1] * 10 + t[i] - 48
    BY DEF Weighs
  <2>. QED
    BY <1>5, <2>1, <2>2, <2>3
<1>. HIDE DEF same
<1>6. \A i \in 0..n : i \in same
  BY <1>4, <1>5, UpTo
<1>7. n \in 0..n
  OBVIOUS
<1>. QED
  BY <1>3, <1>6, <1>7 DEF same

\* The text t of a number k, which does not begin with a zero.
Prints(t, k) ==
    /\ t \in Seq(Int)
    /\ \E n \in Nat \ {0} :
         /\ n = Len(t)
         /\ k > 0 => t[1] # 48
         /\ \E w \in [0..n -> Int] : Weighs(w, t, n) /\ w[n] = k

\* One digit.
LEMMA OneDigit == ASSUME NEW d \in 0..9 PROVE Prints(<<48 + d>>, d)
<1>1. PICK c \in Int : c = 48 + d
  OBVIOUS
<1>. DEFINE t == <<c>>
<1>3. t \in Seq(Int) /\ Len(t) = 1 /\ t[1] = c
  OBVIOUS
<1>4. t[1] = c
  BY <1>3
<1>. HIDE DEF t
<1>. DEFINE v == [i \in 0..1 |-> IF i = 0 THEN 0 ELSE d]
<1>5. PICK w \in [0..1 -> Int] : w = v
  <2>1. v \in [0..1 -> Int]
    OBVIOUS
  <2>. HIDE DEF v
  <2>. QED
    BY <2>1
<1>6. w[0] = 0 /\ w[1] = d
  BY <1>5
<1>7. Weighs(w, t, 1)
  <2>1. \A i \in 1..1 : i = 1 /\ i - 1 = 0
    OBVIOUS
  <2>2. d = 0 * 10 + c - 48
    BY <1>1
  <2>3. \A i \in 1..1 : w[i] = w[i - 1] * 10 + t[i] - 48
    BY <1>4, <1>6, <2>1, <2>2
  <2>. QED
    BY <1>6, <2>3 DEF Weighs
<1>8. d > 0 => c # 48
  BY <1>1
<1>9. /\ 1 = Len(t) /\ 1 \in Nat \ {0}
      /\ d > 0 => t[1] # 48
      /\ \E x \in [0..1 -> Int] : Weighs(x, t, 1) /\ x[1] = d
  BY <1>3, <1>4, <1>6, <1>7, <1>8
<1>10. Prints(t, d)
  BY <1>3, <1>9 DEF Prints
<1>. QED
  BY <1>1, <1>10 DEF t

\* One digit more.
LEMMA OneMore ==
    ASSUME NEW t, NEW k \in Nat \ {0}, Prints(t, k), NEW d \in 0..9
    PROVE  Prints(Append(t, 48 + d), 10 * k + d)
<1>1. t \in Seq(Int)
  BY DEF Prints
<1>a. PICK n \in Nat \ {0} :
         /\ n = Len(t) /\ t[1] # 48
         /\ \E w \in [0..n -> Int] : Weighs(w, t, n) /\ w[n] = k
  BY DEF Prints
<1>b. PICK w \in [0..n -> Int] : Weighs(w, t, n) /\ w[n] = k
  BY <1>a
<1>2. n = Len(t) /\ t[1] # 48 /\ Weighs(w, t, n) /\ w[n] = k
  BY <1>a, <1>b
<1>3. PICK c \in Int : c = 48 + d
  OBVIOUS
<1>4. PICK u : u = Append(t, c)
  OBVIOUS
<1>5. u \in Seq(Int) /\ n + 1 = Len(u)
  BY <1>1, <1>2, <1>4, AppendProperties
<1>6. \A i \in 1..n : u[i] = t[i]
  BY <1>1, <1>2, <1>4, AppendProperties
<1>7. u[n + 1] = c
  BY <1>1, <1>2, <1>4, AppendProperties
<1>8. PICK v \in [0..(n + 1) -> Int] : v = [i \in 0..(n + 1) |-> IF i = n + 1 THEN 10 * k + d ELSE w[i]]
  <2>1. \A i \in 0..(n + 1) : (IF i = n + 1 THEN 10 * k + d ELSE w[i]) \in Int
    <3>1. \A i \in 0..(n + 1) : i # n + 1 => i \in 0..n
      OBVIOUS
    <3>. QED
      BY <3>1
  <2>. QED
    BY <2>1
<1>9. v[n + 1] = 10 * k + d /\ \A i \in 0..n : v[i] = w[i]
  <2>1. \A i \in 0..n : i \in 0..(n + 1) /\ i # n + 1
    OBVIOUS
  <2>. QED
    BY <1>8, <2>1
<1>10. Weighs(v, u, n + 1)
  <2>1. v[0] = 0
    BY <1>2, <1>9 DEF Weighs
  <2>2. ASSUME NEW i \in 1..(n + 1) PROVE v[i] = v[i - 1] * 10 + u[i] - 48
    <3>1. CASE i = n + 1
      <4>1. i - 1 = n /\ n \in 0..n
        BY <3>1
      <4>2. v[i - 1] = k /\ u[i] = c /\ v[i] = 10 * k + d
        BY <1>2, <1>7, <1>9, <3>1, <4>1
      <4>3. 10 * k + d = k * 10 + c - 48
        BY <1>3
      <4>. QED
        BY <4>2, <4>3
    <3>2. CASE i # n + 1
      <4>1. i \in 1..n /\ i \in 0..n /\ i - 1 \in 0..n
        BY <3>2
      <4>2. v[i] = w[i] /\ v[i - 1] = w[i - 1] /\ u[i] = t[i]
        BY <1>6, <1>9, <4>1
      <4>3. w[i] = w[i - 1] * 10 + t[i] - 48
        BY <1>2, <4>1 DEF Weighs
      <4>. QED
        BY <4>2, <4>3
    <3>. QED
      BY <3>1, <3>2
  <2>. QED
    BY <2>1, <2>2 DEF Weighs
<1>11. u[1] # 48
  BY <1>2, <1>6
<1>12. n + 1 \in Nat \ {0}
  OBVIOUS
<1>. QED
  BY <1>3, <1>4, <1>5, <1>9, <1>10, <1>11, <1>12 DEF Prints

\* t has the digits of every number below.
PrintedUpTo(t, n) ==
    \A i \in 0..n : t[i] = IF i < 10 THEN <<48 + i>> ELSE Append(t[i \div 10], 48 + (i % 10))

\* The digits of all numbers up to n can be told one after the other.
LEMMA PrintedExist == ASSUME NEW n \in Nat PROVE \E t \in [0..n -> Seq(Int)] : PrintedUpTo(t, n)
<1>. DEFINE good == {m \in 0..n : \E t \in [0..m -> Seq(Int)] : PrintedUpTo(t, m)}
<1>1. 0 \in good
  <2>1. PICK z : z = <<48 + 0>>
    OBVIOUS
  <2>2. z \in Seq(Int)
    BY <2>1
  <2>3. PICK t \in [0..0 -> Seq(Int)] : t = [i \in 0..0 |-> z]
    BY <2>2
  <2>4. \A i \in 0..0 : i = 0 /\ i < 10
    OBVIOUS
  <2>5. t[0] = z /\ 0 \in 0..n
    BY <2>3
  <2>6. PrintedUpTo(t, 0)
    BY <2>1, <2>4, <2>5 DEF PrintedUpTo
  <2>. QED
    BY <2>5, <2>6
<1>2. ASSUME NEW m \in 1..n, m - 1 \in good PROVE m \in good
  <2>1. PICK t \in [0..(m - 1) -> Seq(Int)] : PrintedUpTo(t, m - 1)
    BY <1>2
  <2>2. PICK k \in 0..(m - 1) : k = m \div 10
    OBVIOUS
  <2>3. PICK c \in Int : c = 48 + (m % 10)
    OBVIOUS
  <2>4. PICK last \in Seq(Int) : last = IF m < 10 THEN <<48 + m>> ELSE Append(t[k], c)
    <3>1. t[k] \in Seq(Int)
      OBVIOUS
    <3>2. Append(t[k], c) \in Seq(Int)
      BY <3>1, AppendProperties
    <3>3. <<48 + m>> \in Seq(Int)
      OBVIOUS
    <3>. QED
      BY <3>2, <3>3
  <2>5. PICK u \in [0..m -> Seq(Int)] : u = [i \in 0..m |-> IF i = m THEN last ELSE t[i]]
    <3>1. \A i \in 0..m : i # m => i \in 0..(m - 1)
      OBVIOUS
    <3>. QED
      BY <3>1
  <2>6. u[m] = last /\ \A i \in 0..(m - 1) : u[i] = t[i]
    <3>1. m \in 0..m /\ \A i \in 0..(m - 1) : i \in 0..m /\ i # m
      OBVIOUS
    <3>. QED
      BY <2>5, <3>1
  <2>7. ASSUME NEW i \in 0..m
        PROVE  u[i] = IF i < 10 THEN <<48 + i>> ELSE Append(u[i \div 10], 48 + (i % 10))
    <3>1. CASE i = m
      <4>1. u[k] = t[k]
        BY <2>6
      <4>2. u[m] = IF m < 10 THEN <<48 + m>> ELSE Append(u[m \div 10], 48 + (m % 10))
        BY <2>2, <2>3, <2>4, <2>6, <4>1
      <4>. QED
        BY <3>1, <4>2
    <3>2. CASE i # m
      <4>1. PICK j \in 0..(m - 1) : j = i \div 10
        BY <3>2
      <4>2. i \in 0..(m - 1)
        BY <3>2
      <4>3. u[j] = t[j] /\ u[i] = t[i]
        BY <2>6, <4>2
      <4>4. t[i] = IF i < 10 THEN <<48 + i>> ELSE Append(t[i \div 10], 48 + (i % 10))
        BY <2>1, <4>2 DEF PrintedUpTo
      <4>. QED
        BY <4>1, <4>3, <4>4
    <3>. QED
      BY <3>1, <3>2
  <2>8. PrintedUpTo(u, m)
    BY <2>7 DEF PrintedUpTo
  <2>9. m \in 0..n
    OBVIOUS
  <2>. QED
    BY <2>5, <2>8, <2>9
<1>. HIDE DEF good
<1>3. \A i \in 0..n : i \in good
  BY <1>1, <1>2, UpTo
<1>4. n \in good
  BY <1>3
<1>. QED
  BY <1>4 DEF good

\* So cm_itoa tells them.
LEMMA ItoaIs ==
    ASSUME NEW n \in Nat
    PROVE  \E u : PrintedUpTo(u, n) /\ cm_itoa(n) = u[n]
<1>. DEFINE Step(v) == [i \in 0..n |-> IF i < 10 THEN <<48 + i>>
                                       ELSE Append(v[i \div 10], 48 + (i % 10))]
            u == CHOOSE v : v = Step(v)
<1>1. PICK t \in [0..n -> Seq(Int)] : PrintedUpTo(t, n)
  BY PrintedExist
<1>2. t = Step(t)
  BY <1>1 DEF PrintedUpTo
<1>3. u = Step(u)
  <2>. HIDE DEF Step
  <2>. QED
    BY <1>2
<1>. HIDE DEF u
<1>4. cm_itoa(n) = u[n]
  BY DEF cm_itoa, u
<1>5. PrintedUpTo(u, n)
  BY <1>3 DEF PrintedUpTo
<1>. QED
  BY <1>4, <1>5

\* What cm_itoa prints is the number.
LEMMA ItoaRight == ASSUME NEW n \in Nat PROVE Prints(cm_itoa(n), n)
<1>1. PICK u : PrintedUpTo(u, n) /\ cm_itoa(n) = u[n]
  BY ItoaIs
<1>. DEFINE good == {m \in 0..n : \A k \in 0..m : Prints(u[k], k)}
<1>2. ASSUME NEW m \in 0..n, \A k \in 0..n : k < m => Prints(u[k], k) PROVE Prints(u[m], m)
  <2>1. u[m] = IF m < 10 THEN <<48 + m>> ELSE Append(u[m \div 10], 48 + (m % 10))
    BY <1>1 DEF PrintedUpTo
  <2>2. CASE m < 10
    <3>1. m \in 0..9
      BY <2>2
    <3>. QED
      BY <2>1, <2>2, <3>1, OneDigit
  <2>3. CASE ~(m < 10)
    <3>1. PICK k \in Nat \ {0}, d \in 0..9 :
            k = m \div 10 /\ d = m % 10 /\ m = 10 * k + d /\ k < m /\ k \in 0..n
      BY <2>3
    <3>2. Prints(u[k], k)
      BY <1>2, <3>1
    <3>3. Prints(Append(u[k], 48 + d), 10 * k + d)
      BY <3>2, OneMore
    <3>. QED
      BY <2>1, <2>3, <3>1, <3>3
  <2>. QED
    BY <2>2, <2>3
<1>3. 0 \in good
  <2>1. Prints(u[0], 0)
    BY <1>2
  <2>. QED
    BY <2>1
<1>4. ASSUME NEW m \in 1..n, m - 1 \in good PROVE m \in good
  <2>1. \A k \in 0..n : k < m => Prints(u[k], k)
    <3>1. \A k \in 0..n : k < m => k \in 0..(m - 1)
      OBVIOUS
    <3>. QED
      BY <1>4, <3>1
  <2>2. Prints(u[m], m)
    BY <1>2, <2>1
  <2>3. \A k \in 0..m : k \in 0..n /\ (k < m \/ k = m)
    OBVIOUS
  <2>. QED
    BY <2>1, <2>2, <2>3
<1>. HIDE DEF good
<1>5. n \in good
  <2>1. \A i \in 0..n : i \in good
    BY <1>3, <1>4, UpTo
  <2>. QED
    BY <2>1
<1>. QED
  BY <1>1, <1>5 DEF good

-----------------------------------------------------------------------------
(* All of it.                                                               *)

\* The number is read back, and it does not begin with a zero.
LEMMA NumberBack ==
    ASSUME NEW n \in Nat
    PROVE  Value(cm_itoa(n)) = n /\ (n > 0 => cm_itoa(n)[1] # 48)
<1>1. PICK t : t = cm_itoa(n)
  OBVIOUS
<1>2. Prints(t, n)
  BY <1>1, ItoaRight
<1>3. PICK m \in Nat \ {0} :
        /\ m = Len(t) /\ (n > 0 => t[1] # 48)
        /\ \E w \in [0..m -> Int] : Weighs(w, t, m) /\ w[m] = n
  BY <1>2 DEF Prints
<1>4. PICK w \in [0..m -> Int] : Weighs(w, t, m) /\ w[m] = n
  BY <1>3
<1>5. Value(t) = n
  BY <1>3, <1>4, ValueIs
<1>. QED
  BY <1>1, <1>3, <1>5

\* Every character of the hexadecimal text is a digit.
LEMMA HexDigits ==
    ASSUME NEW s \in Seq(Bytes), NEW i \in DOMAIN cm_s2hex(s)
    PROVE  cm_s2hex(s)[i] \in (48..57) \cup (97..102)
<1>. DEFINE digits == (48..57) \cup (97..102)
<1>1. Len(s) \in Nat /\ \A k \in 1..Len(s) : s[k] \in 0..255
  BY LenProperties, ElementOfSeq DEF Bytes
<1>2. \A m \in 0..255 : HighDigit(m) \in digits
  BY DEF HighDigit
<1>3. \A m \in 0..255 : LowDigit(m) \in digits
  <2>1. ASSUME NEW m \in 0..255 PROVE LowDigit(m) \in digits
    <3>1. PICK l \in 0..15 : l = m % 16
      OBVIOUS
    <3>. QED
      BY <3>1 DEF LowDigit
  <2>. QED
    BY <2>1
<1>. HIDE DEF digits
<1>4. i \in 1..(2 * Len(s))
  BY DEF cm_s2hex
<1>5. cm_s2hex(s)[i] = IF i % 2 = 1 THEN HighDigit(s[(i + 1) \div 2]) ELSE LowDigit(s[i \div 2])
  BY <1>4 DEF cm_s2hex
<1>6. ASSUME i % 2 = 1 PROVE cm_s2hex(s)[i] \in digits
  <2>1. PICK k : k = (i + 1) \div 2
    OBVIOUS
  <2>2. k \in 1..Len(s)
    BY <1>1, <1>4, <1>6, <2>1
  <2>3. cm_s2hex(s)[i] = HighDigit(s[k])
    BY <1>5, <1>6, <2>1
  <2>4. PICK b \in 0..255 : b = s[k]
    BY <1>1, <2>2
  <2>. QED
    BY <1>2, <2>3, <2>4, Zenon
<1>7. ASSUME i % 2 # 1 PROVE cm_s2hex(s)[i] \in digits
  <2>1. PICK k : k = i \div 2
    OBVIOUS
  <2>2. k \in 1..Len(s)
    BY <1>1, <1>4, <1>7, <2>1
  <2>3. cm_s2hex(s)[i] = LowDigit(s[k])
    BY <1>5, <1>7, <2>1
  <2>4. PICK b \in 0..255 : b = s[k]
    BY <1>1, <2>2
  <2>. QED
    BY <1>3, <2>3, <2>4, Zenon
<1>8. cm_s2hex(s)[i] \in digits
  BY <1>6, <1>7
<1>. QED
  BY <1>8 DEF digits

\* Of no bytes there is no text.
LEMMA NothingBack == GoesBack(<<>>)
<1>1. \A t \in [1..0 -> Int] : t = <<>>
  <2>1. ASSUME NEW t \in [1..0 -> Int] PROVE t = <<>>
    <3>1. t \in Seq(Int) /\ DOMAIN t = 1..0
      BY SeqDef
    <3>2. Len(t) = 0
      BY <3>1, LenProperties
    <3>. QED
      BY <3>1, <3>2, EmptySeq
  <2>. QED
    BY <2>1
<1>2. Len(<<>>) = 0 /\ DOMAIN <<>> = {}
  OBVIOUS
<1>3. cm_s2hex(<<>>) = <<>>
  <2>1. DOMAIN cm_s2hex(<<>>) = 1..0
    BY <1>2 DEF cm_s2hex
  <2>2. cm_s2hex(<<>>) \in [1..0 -> Int]
    BY <1>2, <2>1 DEF cm_s2hex
  <2>. QED
    BY <1>1, <2>2
<1>4. cm_s2base64(<<>>) = <<>>
  <2>1. (0 + 2) \div 3 = 0
    OBVIOUS
  <2>2. cm_s2base64(<<>>) \in [1..0 -> Int]
    BY <1>2, <2>1 DEF cm_s2base64
  <2>. QED
    BY <1>1, <2>2
<1>5. IsBase64(<<>>, <<>>)
  <2>1. (8 * 0 + 5) \div 6 = 0 /\ 0 % 4 = 0 /\ 0 - 0 \in 0..2
    OBVIOUS
  <2>. QED
    BY <1>2, <2>1 DEF IsBase64
<1>. QED
  BY <1>2, <1>3, <1>4, <1>5 DEF GoesBack, cm_hex2s, cm_base642s

\* Bytes go there and back.
LEMMA BytesBack == ASSUME NEW s \in Seq(Bytes), s # <<>> PROVE GoesBack(s)
<1>1. \A i \in DOMAIN cm_s2hex(s) : cm_s2hex(s)[i] \in (48..57) \cup (97..102)
  BY HexDigits
<1>2. cm_hex2s(cm_s2hex(s)) = s
  BY HexLosesNothing
<1>3. IsBase64(s, cm_s2base64(s))
  BY Base64Bits
<1>4. PICK text : text = cm_s2base64(s)
  OBVIOUS
<1>5. /\ cm_base642s(text) = s
      /\ \A i \in DOMAIN text :
           /\ cm_base642s(InsertAt(text, i, 10)) = s
           /\ i > 1 => IsPrefix(cm_base642s(SubSeq(text, 1, i - 1)), s)
  BY <1>4, Base64Back
<1>. QED
  BY <1>1, <1>2, <1>3, <1>4, <1>5, Zenon DEF GoesBack

\* The caller has inputs, or none.
Called == bytes \in Inputs \cup {<<>>} /\ number \in Numbers \cup {0}

\* What is encoded is decoded again.
THEOREM CodecsAlwaysRight == CodecSpec => []CodecsRight
<1>1. CodecInit => Called
  BY DEF CodecInit, Called
<1>2. Called /\ [CodecNext]_<<bytes, number>> => Called'
  BY DEF Called, CodecNext, ConvertBytes, ConvertNumber, Converted
<1>3. Called => CodecsRight
  <2>. SUFFICES ASSUME Called PROVE CodecsRight
    OBVIOUS
  <2>1. bytes \in Seq(Bytes) /\ number \in Nat
    <3>1. <<>> \in Seq(0..255)
      OBVIOUS
    <3>2. Inputs \subseteq Seq(0..255) /\ Numbers \subseteq Nat
      BY InputsAssumption DEF InputsAssumption
    <3>. QED
      BY <3>1, <3>2, 0 \in Nat, Zenon DEF Called, Bytes
  <2>2. GoesBack(bytes)
    BY <2>1, NothingBack, BytesBack
  <2>3. Value(cm_itoa(number)) = number /\ (number > 0 => cm_itoa(number)[1] # 48)
    BY <2>1, NumberBack
  <2>. QED
    BY <2>2, <2>3 DEF CodecsRight
<1>. QED
  BY <1>1, <1>2, <1>3, PTL DEF CodecSpec

=============================================================================
