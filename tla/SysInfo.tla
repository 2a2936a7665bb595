------------------------------- MODULE SysInfo -------------------------------
(* The system information calls of common/common.c that open files and      *)
(* allocate: cm_cpu_info with cm_free_cpu_info, and cm_resident_set_memory. *)
(* Every call they make may fail, and CPUs come and go between two reads of *)
(* /proc.                                                                   *)
(*                                                                          *)
(* A model name, a row of times and a speed are told apart by the CPU they  *)
(* are about.  /proc/stat is composed by the kernel when it is read from    *)
(* its start; /proc/cpuinfo is read one CPU after the other.                *)
EXTENDS Integers, FiniteSets, Sequences

CONSTANTS
    CPUs,        \* CPU numbers of the machine
    Formats,     \* what /proc/cpuinfo may have: [models, speeds : BOOLEAN]
    NULL,        \* no pointer; a field left at zero
    Unknown,     \* the model "unknown"
    WithDebug,   \* is assert() live?
    MaxEintr     \* bound: interruptions of one call

ASSUME SysAssumption ==
    /\ CPUs \subseteq Nat /\ IsFiniteSet(CPUs) /\ 0 \in CPUs
    /\ Formats \subseteq [models : BOOLEAN, speeds : BOOLEAN]
    /\ NULL \notin CPUs \cup {Unknown} /\ Unknown \notin CPUs
    /\ WithDebug \in BOOLEAN
    /\ MaxEintr \in Nat

VARIABLES
    pc,          \* where the call is
    online,      \* kernel: the CPUs that are online
    format,      \* kernel: the format of /proc/cpuinfo
    open,        \* files the process has open
    blocks,      \* live blocks of the calls' heap
    numcpus,     \* CPUs counted in /proc/stat
    ci,          \* the rows, or NULL
    model_idx,   \* rows with a model
    speed_idx,   \* rows with a speed from /proc/cpuinfo
    at,          \* the CPU /proc/cpuinfo was last read of
    eintr,       \* interruptions so far
    result,      \* *cpu_infos in the caller's hands
    steady       \* history: no CPU came or went during the last cm_cpu_info

kernelVars == <<online, format>>
rowVars == <<numcpus, ci, model_idx, speed_idx, at>>
vars == <<pc, kernelVars, open, blocks, rowVars, eintr, result, steady>>

Row == [model : CPUs \cup {Unknown, NULL}, times : CPUs \cup {NULL}, speed : CPUs \cup {NULL}]

\* A row that calloc made.
Blank == [model |-> NULL, times |-> NULL, speed |-> NULL]

\* NULL is no array.
ASSUME ArrayAssumption == \A n \in 1..Cardinality(CPUs) : NULL \notin [1..n -> Row]

CpuInfoStates == {"stat", "count", "calloc", "cpuinfo", "models", "infer", "times",
                  "freeing", "speeds", "out"}

TypeOK ==
    /\ pc \in CpuInfoStates \cup {"idle", "rss", "read", "assert", "abort"}
    /\ online \in SUBSET CPUs /\ 0 \in online
    /\ format \in [models : BOOLEAN, speeds : BOOLEAN]
    /\ open \in SUBSET {"stat", "cpuinfo", "rss"}
    /\ blocks \in Nat
    /\ numcpus \in 0..Cardinality(CPUs)
    /\ ci = NULL \/ ci \in [1..numcpus -> Row]
    /\ model_idx \in 0..numcpus
    /\ speed_idx \in 0..numcpus
    /\ at \in CPUs \cup {-1}
    /\ eintr \in 0..MaxEintr
    /\ result = NULL \/ \E n \in 1..Cardinality(CPUs) : result \in [1..n -> Row]
    /\ steady \in BOOLEAN

Init ==
    /\ pc = "idle"
    /\ online \in SUBSET CPUs /\ 0 \in online
    /\ format \in Formats
    /\ open = {}
    /\ blocks = 0
    /\ numcpus = 0
    /\ ci = NULL
    /\ model_idx = 0
    /\ speed_idx = 0
    /\ at = -1
    /\ eintr = 0
    /\ result = NULL
    /\ steady = TRUE

-----------------------------------------------------------------------------
(* Files and memory.                                                        *)

\* Mutant: the descriptor is forgotten when cm_cloexec or fdopen fails.
FailedOpenLeak(path) == open \cup {path}

\* open fails, or what it opened is closed when cm_cloexec or fdopen fails.
FailedOpen(path) == open

cm_open_file(path, opened, failed) ==
    \/ open' = open \cup {path} /\ pc' = opened
    \/ open' = FailedOpen(path) /\ pc' = failed

Modelled(rows) == {i \in DOMAIN rows : rows[i].model # NULL}

\* Blocks cm_free_cpu_info frees: the models there are, and the array.
FreedBy(rows) == Cardinality(Modelled(rows)) + 1

-----------------------------------------------------------------------------
(* cm_cpu_info.                                                             *)

CallCpuInfo ==
    /\ pc = "idle"
    /\ result = NULL
    /\ pc' = "stat"
    /\ steady' = TRUE
    /\ UNCHANGED <<kernelVars, open, blocks, rowVars, eintr, result>>

OpenStat ==
    /\ pc = "stat"
    /\ cm_open_file("stat", "count", "idle")
    /\ UNCHANGED <<kernelVars, blocks, rowVars, eintr, result, steady>>

\* Counts the "cpu<n>" lines, or cannot read.
cm_cpu_num ==
    /\ pc = "count"
    /\ \/ numcpus' = Cardinality(online) /\ pc' = "calloc"
       \/ pc' = "out" /\ UNCHANGED numcpus
    /\ UNCHANGED <<kernelVars, open, blocks, ci, model_idx, speed_idx, at, eintr, result, steady>>

AllocateRows ==
    /\ pc = "calloc"
    /\ \/ /\ ci' = [i \in 1..numcpus |-> Blank]
          /\ blocks' = blocks + 1
          /\ pc' = "cpuinfo"
       \/ pc' = "out" /\ UNCHANGED <<ci, blocks>>
    /\ UNCHANGED <<kernelVars, open, numcpus, model_idx, speed_idx, at, eintr, result, steady>>

OpenCpuinfo ==
    /\ pc = "cpuinfo"
    /\ cm_open_file("cpuinfo", "models", "freeing")
    /\ UNCHANGED <<kernelVars, blocks, rowVars, eintr, result, steady>>

\* The CPU whose lines come next in /proc/cpuinfo.
Listed(c) == c \in online /\ c > at /\ \A d \in online : d > at => c <= d

\* Mutant: no bound on the row, as more CPUs may be listed than were counted.
HasRowAlways(idx) == TRUE

HasRow(idx) == idx < numcpus

\* cm_strndup of a model's name into the next row.
SetModel(rows, name) ==
    /\ model_idx' = model_idx + 1
    /\ blocks' = blocks + 1
    /\ ci' = [rows EXCEPT ![model_idx + 1].model = name]

\* read_models, the lines of one CPU: the model, then the speed.
ReadModel(c) ==
    /\ pc = "models"
    /\ Listed(c)
    /\ LET speed == format.speeds /\ HasRow(speed_idx)
           rows == IF speed THEN [ci EXCEPT ![speed_idx + 1].speed = c] ELSE ci
       IN  /\ IF format.models /\ HasRow(model_idx)
              THEN SetModel(rows, c)
              ELSE ci' = rows /\ UNCHANGED <<model_idx, blocks>>
           /\ speed_idx' = IF speed THEN speed_idx + 1 ELSE speed_idx
    /\ at' = c
    /\ UNCHANGED <<pc, kernelVars, open, numcpus, eintr, result, steady>>

\* cm_strndup fails.
ModelNoMemory(c) ==
    /\ pc = "models"
    /\ Listed(c)
    /\ format.models /\ HasRow(model_idx)
    /\ open' = open \ {"cpuinfo"}
    /\ pc' = "freeing"
    /\ UNCHANGED <<kernelVars, blocks, rowVars, eintr, result, steady>>

\* Mutant: the file is read until every row has a model.
EndModelsWhenFull ==
    /\ pc = "models"
    /\ ~HasRow(model_idx)
    /\ open' = open \ {"cpuinfo"}
    /\ pc' = "infer"
    /\ UNCHANGED <<kernelVars, blocks, rowVars, eintr, result, steady>>

\* The file is read to its end, whatever there is in it.
EndModels ==
    /\ pc = "models"
    /\ \A c \in online : ~Listed(c)
    /\ open' = open \ {"cpuinfo"}
    /\ pc' = "infer"
    /\ UNCHANGED <<kernelVars, blocks, rowVars, eintr, result, steady>>

\* A row without a model gets the last one's, or "unknown".
InferModel ==
    /\ pc = "infer"
    /\ HasRow(model_idx)
    /\ \/ SetModel(ci, IF model_idx > 0 THEN ci[model_idx].model ELSE Unknown)
          /\ UNCHANGED pc
       \/ pc' = "freeing" /\ UNCHANGED <<ci, model_idx, blocks>>
    /\ UNCHANGED <<kernelVars, open, numcpus, speed_idx, at, eintr, result, steady>>

EndInfer ==
    /\ pc = "infer"
    /\ ~HasRow(model_idx)
    /\ pc' = "times"
    /\ UNCHANGED <<kernelVars, open, blocks, rowVars, eintr, result, steady>>

\* The i-th of the "cpu<n>" lines of /proc/stat is about c.
IsLine(i, c) == c \in online /\ Cardinality({d \in online : d < c}) = i - 1

\* Mutant: no rewind, the line after the ones counted is read first.
TimesOfNoRewind(i) == NULL

\* Row i gets the times of line i: the file is read again from its start.
TimesOf(i) == IF \E c \in CPUs : IsLine(i, c) THEN CHOOSE c \in CPUs : IsLine(i, c) ELSE NULL

\* With fewer lines than were counted an assert fails, or the last rows' times
\* are left at zero.
read_times ==
    /\ pc = "times"
    /\ ci' = [i \in 1..numcpus |-> [ci[i] EXCEPT !.times = TimesOf(i)]]
    /\ pc' = IF WithDebug /\ Cardinality(online) < numcpus THEN "assert"
             ELSE IF ci[1].speed = NULL THEN "speeds" ELSE "out"
    /\ UNCHANGED <<kernelVars, open, blocks, numcpus, model_idx, speed_idx, at, eintr, result, steady>>

\* read_speeds: row i gets the frequency of CPU i - 1, if it can be read; its
\* file is opened and closed within.
read_speeds ==
    /\ pc = "speeds"
    /\ \E readable \in SUBSET online :
         ci' = [i \in 1..numcpus |->
                  [ci[i] EXCEPT !.speed = IF i - 1 \in readable THEN i - 1 ELSE NULL]]
    /\ pc' = "out"
    /\ UNCHANGED <<kernelVars, open, blocks, numcpus, model_idx, speed_idx, at, eintr, result, steady>>

\* cm_free_cpu_info on the way out of a failed call.
FreeRows ==
    /\ pc = "freeing"
    /\ blocks' = blocks - FreedBy(ci)
    /\ ci' = NULL
    /\ pc' = "out"
    /\ UNCHANGED <<kernelVars, open, numcpus, model_idx, speed_idx, at, eintr, result, steady>>

\* abort(): /proc/stat cannot be read again or has a line that does not parse
\* (read_times), or fclose fails at the end of cm_cpu_info.  Nobody sees what
\* the call had done by then.
Abort ==
    /\ pc \in {"times", "out"}
    /\ pc' = "abort"
    /\ UNCHANGED <<kernelVars, open, blocks, rowVars, eintr, result, steady>>

\* fclose, and the return: the call's variables are gone.
Return ==
    /\ pc = "out"
    /\ open' = open \ {"stat"}
    /\ result' = ci
    /\ ci' = NULL
    /\ numcpus' = 0
    /\ model_idx' = 0
    /\ speed_idx' = 0
    /\ at' = -1
    /\ pc' = "idle"
    /\ UNCHANGED <<kernelVars, blocks, eintr, steady>>

\* The caller has done with what cm_cpu_info gave it.
cm_free_cpu_info ==
    /\ pc = "idle"
    /\ result # NULL
    /\ blocks' = blocks - FreedBy(result)
    /\ result' = NULL
    /\ UNCHANGED <<pc, kernelVars, open, rowVars, eintr, steady>>

-----------------------------------------------------------------------------
(* cm_resident_set_memory.                                                  *)

CallRss ==
    /\ pc = "idle"
    /\ pc' = "rss"
    /\ eintr' = 0
    /\ UNCHANGED <<kernelVars, open, blocks, rowVars, result, steady>>

\* A system call is interrupted and made again.
Interrupted ==
    /\ pc \in {"rss", "read"}
    /\ eintr < MaxEintr
    /\ eintr' = eintr + 1
    /\ UNCHANGED <<pc, kernelVars, open, blocks, rowVars, result, steady>>

OpenSelf ==
    /\ pc = "rss"
    /\ \/ open' = open \cup {"rss"} /\ pc' = "read"
       \/ pc' = "idle" /\ UNCHANGED open
    /\ UNCHANGED <<kernelVars, blocks, rowVars, eintr, result, steady>>

\* read() ends, well or not; the descriptor is closed before its result is
\* looked at.
ReadSelf ==
    /\ pc = "read"
    /\ open' = open \ {"rss"}
    /\ pc' = "idle"
    /\ UNCHANGED <<kernelVars, blocks, rowVars, eintr, result, steady>>

-----------------------------------------------------------------------------

\* A CPU other than the first goes offline or comes back.
Hotplug(c) ==
    /\ c # 0
    /\ online' = IF c \in online THEN online \ {c} ELSE online \cup {c}
    /\ steady' = (steady /\ pc \notin CpuInfoStates)
    /\ UNCHANGED <<pc, format, open, blocks, rowVars, eintr, result>>

CallStep ==
    \/ OpenStat
    \/ cm_cpu_num
    \/ AllocateRows
    \/ OpenCpuinfo
    \/ \E c \in CPUs : ReadModel(c) \/ ModelNoMemory(c)
    \/ EndModels
    \/ InferModel
    \/ EndInfer
    \/ read_times
    \/ read_speeds
    \/ FreeRows
    \/ Abort
    \/ Return
    \/ Interrupted
    \/ OpenSelf
    \/ ReadSelf

Next ==
    \/ CallStep
    \/ CallCpuInfo
    \/ CallRss
    \/ cm_free_cpu_info
    \/ \E c \in CPUs : Hotplug(c)

Spec == Init /\ [][Next]_vars

\* A call that was made keeps running; CPUs and callers promise nothing.
FairSpec == Spec /\ WF_vars(CallStep)

-----------------------------------------------------------------------------
(* What the calls promise.                                                  *)

\* Whichever step of a call fails, when it has returned no file is open and
\* no block is live but the array and the models of a result: no early return
\* forgets what the steps before it had acquired, and nothing is freed twice.
GivesBack ==
    pc = "idle" =>
      /\ open = {}
      /\ blocks = IF result = NULL THEN 0 ELSE Len(result) + 1

\* A row has a model.  If no CPU came or went during the call, no assert
\* fails, and one row is about one CPU, although its parts come from files read
\* one after the other: it has times, and the model and the speed that
\* /proc/cpuinfo lists are those of the CPU its times are of.  Of speeds read
\* by the row's number nothing is said (SpeedOrZero).
RowsMatch ==
    /\ result # NULL => \A i \in DOMAIN result : result[i].model # NULL
    /\ steady => pc # "assert"
    /\ steady /\ result # NULL =>
         \A i \in DOMAIN result :
           LET row == result[i]
           IN  /\ row.times # NULL
               /\ format.models => row.model = row.times
               /\ format.speeds => row.speed = row.times

\* Every call returns, however often it is interrupted, whichever step fails
\* and however CPUs come and go, unless an assert or abort() ends the process.
CallReturns == pc # "idle" ~> pc \in {"idle", "assert", "abort"}

-----------------------------------------------------------------------------
(* What the repository says of the calls, and they do not do.               *)

\* common.c:736-738: where /proc/cpuinfo has no speeds, errors are not looked
\* at when they are read, for "Worst case, the field is left zero".  So the
\* speed of a row is zero or the speed of the CPU the row is about.
SpeedOrZero ==
    steady /\ result # NULL =>
      \A i \in DOMAIN result : result[i].speed \in {NULL, result[i].times}

=============================================================================
