------------------------------- MODULE Parser -------------------------------
(* The configuration of iniparser/parser.c: one dictionary behind a read-   *)
(* write lock, used by several threads, and the file it is loaded from and  *)
(* saved to.  The process may crash at any moment and is started again.     *)
(*                                                                          *)
(* strlwc returns a static buffer, and two readers may be in it at once;    *)
(* whoever shares it may look up any key.  glibc's lock is a mutual         *)
(* exclusion of writers from everybody; it promises no order.               *)
(*                                                                          *)
(* Memory may run out, a write may fail.  What the dictionary is then is    *)
(* told by `store`: see Dictionary for the arrays themselves.               *)
EXTENDS IniFile, FiniteSets

CONSTANTS
    Threads,
    NoThread,
    NoValue,     \* what a getter returns as its default
    SetCalls,    \* pairs of a key and a value that clients set
    GetKeys,     \* keys a client reads
    Files,       \* files the first start may find
    DICTMINSZ,   \* slots of a new dictionary
    MaxFailures, \* bound: steps in which an allocation or a write fails
    Debris       \* what the memory behind the array of comments may hold

ASSUME ThreadsAssumption == NoThread \notin Threads

ASSUME FilesAssumption == \A f \in Files : f \in Seq(Lines)

ASSUME SetCallsAssumption == \A c \in SetCalls : c[1] \in EntryKeys /\ c[2] \in Texts

ASSUME StoreAssumption ==
    /\ DICTMINSZ \in Nat \ {0}
    /\ MaxFailures \in Nat
    /\ Debris \subseteq Texts

VARIABLES
    pc,        \* where each thread is in its call
    req,       \* the arguments of its call
    readers,   \* the threads that hold the lock for reading
    writer,    \* the thread that holds it for writing
    ini,       \* parser->ini: a dictionary or NULL
    store,     \* its count, its size, the size of its array of comments, the
               \* keys in slots past that, and its arrays that are NULL
    mixed,     \* readers whose lowered key another reader has overwritten
    got,       \* what the thread's last getter returned
    file,      \* the lines of the file
    saved,     \* history: what the last save had to keep, nothing from the
               \* moment it empties the file until it is complete
    failures   \* history: the steps in which an allocation or a write failed

vars == <<pc, req, readers, writer, ini, store, mixed, got, file, saved, failures>>

Get(k) == [op |-> "get", key |-> k, val |-> NULL]
Set(k, v) == [op |-> "set", key |-> k, val |-> v]
Flush == [op |-> "flush", key |-> <<>>, val |-> NULL]
NoFlush == [op |-> "noflush", key |-> <<>>, val |-> NULL]
Exit == [op |-> "exit", key |-> <<>>, val |-> NULL]

Requests ==
    {Get(k) : k \in GetKeys} \cup {Set(c[1], c[2]) : c \in SetCalls}
      \cup {Flush, NoFlush, Exit}

TypeOK ==
    /\ pc \in [Threads -> {"idle", "lock", "in", "lookup", "open", "unlock"}]
    /\ req \in [Threads -> Requests]
    /\ readers \in SUBSET Threads
    /\ writer \in Threads \cup {NoThread}
    /\ ini = NULL \/ ini \in Seq(Entry)
    /\ store.lost \subseteq {"key", "hash", "val"}
    /\ mixed \in SUBSET Threads
    /\ got \in [Threads -> Texts \cup {NULL, NoValue}]
    /\ \A i \in DOMAIN file :
         /\ file[i].text \in Keys /\ file[i].quoted \in Texts /\ file[i].rest \in Texts
         /\ file[i].kind = "value" => file[i].text # <<>>

-----------------------------------------------------------------------------
(* Starting, crashing, starting again.                                      *)

\* The arrays of the dictionary but for the comments.
Arrays == {"key", "hash", "val"}

\* A load grows all four arrays together.
Room(n) == Min({m \in {DICTMINSZ * 2 ^ k : k \in 0..n} : n <= m})

Store(n, lost) ==
    [n |-> n, size |-> Room(n), cells |-> Room(n), past |-> {}, lost |-> lost]

\* The dictionary d but for one copy that failed: a value, a comment, or a key,
\* that is counted but not there.
Damaged(d) ==
    {[d EXCEPT ![i].val = NULL] : i \in DOMAIN d}
      \cup {[d EXCEPT ![i].cmt = <<>>] : i \in DOMAIN d}
      \cup {RemoveAt(d, i) : i \in DOMAIN d}

\* What parser_start may make of a file, and whether a copy failed: NULL when
\* the file cannot be opened or loaded, or there is no memory for a dictionary
\* or for growing it.  Arrays dictionary_new did not get are noticed by the
\* first entry, which crashes.
Started(lines) ==
    LET d == iniparser_load(lines)
    IN  {<<NULL, Store(0, {}), 0>>}
          \cup (IF d = NULL THEN {}
                ELSE {<<d, Store(Len(d), {}), 0>>}
                       \cup {<<e, Store(Len(d), {}), 1>> : e \in Damaged(d)})
          \cup (IF d = <<>> THEN {<<d, Store(0, gone), 1>> : gone \in SUBSET Arrays} ELSE {})

Init ==
    /\ pc = [t \in Threads |-> "idle"]
    /\ req = [t \in Threads |-> NoFlush]
    /\ readers = {}
    /\ writer = NoThread
    /\ file \in Files
    /\ \E s \in Started(file) :
         ini = s[1] /\ store = s[2] /\ failures = s[3] /\ s[3] <= MaxFailures
    /\ mixed = {}
    /\ got = [t \in Threads |-> NoValue]
    /\ saved = {}

\* What a save that is cut short leaves of the file: some of the lines, and
\* perhaps a piece of the next.
Remains(lines) ==
    LET Prefix(i) == SubSeq(lines, 1, i)
    IN  {Prefix(i) : i \in 0..Len(lines)}
          \cup {Append(Prefix(i), CutLine) : i \in 0..(Len(lines) - 1)}

Writing == \E t \in Threads : pc[t] = "open"

\* The dictionary a dump sees: the comments of slots past their array are
\* what is in memory there.
Seen ==
    {[i \in DOMAIN ini |->
        IF ini[i].key \in store.past THEN [ini[i] EXCEPT !.cmt = f[ini[i].key]] ELSE ini[i]]
       : f \in [store.past -> Debris]}

\* The lines a save may write.
Written == IF ini = NULL THEN {<<>>} ELSE {iniparser_dump_ini(d) : d \in Seen}

Cut == UNION {Remains(lines) : lines \in Written}

\* The process dies, at any moment or in an access through NULL, and is
\* started again: parser_start.
Restart ==
    /\ file' \in IF Writing THEN Cut ELSE {file}
    /\ \E s \in Started(file') :
         /\ ini' = s[1] /\ store' = s[2]
         /\ failures' = failures + s[3] /\ failures' <= MaxFailures
    /\ pc' = [t \in Threads |-> "idle"]
    /\ readers' = {}
    /\ writer' = NoThread
    /\ mixed' = {}
    /\ got' = [t \in Threads |-> NoValue]
    /\ req' = [t \in Threads |-> NoFlush]
    /\ UNCHANGED saved

-----------------------------------------------------------------------------
(* A call: the test of parser->ini without the lock, the lock, the work.    *)

\* A call that finds no dictionary returns at once, but for parser_fflush,
\* which takes the lock all the same and does nothing.
Call(t) ==
    /\ pc[t] = "idle"
    /\ \E r \in Requests :
         /\ IF r.op = "noflush" THEN ini = NULL ELSE ini # NULL
         /\ req' = [req EXCEPT ![t] = r]
    /\ pc' = [pc EXCEPT ![t] = "lock"]
    /\ UNCHANGED <<readers, writer, ini, store, mixed, got, file, saved, failures>>

\* Mutant: parser_setstr takes the lock for reading.
ReadsOnlySet(op) == op \in {"get", "set"}

\* The calls that take the lock for reading.
ReadsOnly(op) == op = "get"

Lock(t) ==
    /\ pc[t] = "lock"
    /\ writer = NoThread
    /\ IF ReadsOnly(req[t].op)
       THEN readers' = readers \cup {t} /\ UNCHANGED writer
       ELSE readers = {} /\ writer' = t /\ UNCHANGED readers
    /\ pc' = [pc EXCEPT ![t] = IF req[t].op = "noflush" THEN "unlock" ELSE "in"]
    /\ UNCHANGED <<req, ini, store, mixed, got, file, saved, failures>>

\* The unlock, and the return: the call's arguments and variables are gone.
trd_rwlock_unlock(t) ==
    /\ pc[t] = "unlock"
    /\ pc' = [pc EXCEPT ![t] = "idle"]
    /\ readers' = readers \ {t}
    /\ writer' = IF writer = t THEN NoThread ELSE writer
    /\ req' = [req EXCEPT ![t] = NoFlush]
    /\ got' = [got EXCEPT ![t] = NoValue]
    /\ mixed' = mixed \ {t}
    /\ UNCHANGED <<ini, store, file, saved, failures>>

\* The work on the dictionary is the first step under the lock.
Work(t, op, next) ==
    /\ pc[t] = "in"
    /\ req[t].op = op
    /\ pc' = [pc EXCEPT ![t] = next]
    /\ UNCHANGED <<req, readers, writer>>

\* strlwc: the key goes to the static buffer, over that of other readers.
strlwc(t) ==
    /\ Work(t, "get", IF ini = NULL THEN "unlock" ELSE "lookup")
    /\ LET others == {u \in Threads \ {t} : pc[u] = "lookup"}
       IN  mixed' = (mixed \ {t}) \cup others \cup (IF others # {} THEN {t} ELSE {})
    /\ UNCHANGED <<ini, store, got, file, saved, failures>>

\* Looking k up accesses an array that is NULL: the keys, the hashes if there
\* is a key to compare, the values if k is found.
Faults(k) ==
    \/ "key" \in store.lost
    \/ "hash" \in store.lost /\ ini # <<>>
    \/ "val" \in store.lost /\ HasKey(ini, k)

\* dictionary_get: the value of the reader's key, or of any, also of one that
\* nobody asks for and that is not there.
Lookup(t) ==
    /\ pc[t] = "lookup"
    /\ \E k \in IF t \in mixed THEN GetKeys \cup {<<>>} ELSE {req[t].key} :
         /\ ~Faults(k)
         /\ got' = [got EXCEPT ![t] = iniparser_getstring(ini, k, NoValue)]
    /\ pc' = [pc EXCEPT ![t] = "unlock"]
    /\ UNCHANGED <<req, readers, writer, ini, store, mixed, file, saved, failures>>

\* An allocation or a write fails in this step.
Fails == failures < MaxFailures /\ failures' = failures + 1

\* iniparser_set of a key that is there; the copy of the value may fail.
Update(k, v) ==
    /\ HasKey(ini, k) /\ store.lost = {}
    /\ \E val \in {v, NULL} :
         /\ ini' = iniparser_set(ini, k, val)
         /\ IF val = v THEN UNCHANGED failures ELSE Fails
    /\ UNCHANGED store

\* One more entry; the growth leaves the array of comments alone.
Counted(key) ==
    [store EXCEPT !.n = @ + 1,
                  !.size = IF store.n = @ THEN 2 * @ ELSE @,
                  !.past = IF key = NULL \/ store.n < store.cells THEN @ ELSE @ \cup {key}]

\* iniparser_set of a new key; both copies may fail.  A key that is not copied
\* is counted all the same.
Add(k, v) ==
    /\ ~HasKey(ini, k) /\ store.lost = {}
    /\ \E key \in {k, NULL}, val \in {v, NULL} :
         /\ ini' = IF key = NULL THEN ini ELSE iniparser_set(ini, k, val)
         /\ store' = Counted(key)
         /\ IF key = k /\ val = v THEN UNCHANGED failures ELSE Fails

\* iniparser_set of a new key, when the dictionary cannot grow: a pointer to
\* an array is overwritten with NULL, and what was in the array is lost.
GrowFails(k) ==
    /\ ~HasKey(ini, k) /\ ~Faults(k)
    /\ store.n = store.size
    /\ \E gone \in SUBSET Arrays \ {{}} :
         store.lost \subseteq gone /\ store' = [store EXCEPT !.lost = gone]
    /\ Fails
    /\ UNCHANGED ini

parser_setstr(t) ==
    /\ Work(t, "set", "unlock")
    /\ IF ini = NULL THEN UNCHANGED <<ini, store, failures>>
       ELSE \/ Update(req[t].key, req[t].val)
            \/ Add(req[t].key, req[t].val)
            \/ GrowFails(req[t].key)
    /\ UNCHANGED <<mixed, got, file, saved>>

\* Every slot of the arrays of strings is freed, in the comments also what is
\* past the end of theirs, which may be survived.
parser_exit(t) ==
    /\ Work(t, "exit", "unlock")
    /\ store.lost \cap {"key", "val"} = {}
    /\ ini' = NULL
    /\ store' = Store(0, {})
    /\ UNCHANGED <<mixed, got, file, saved, failures>>

\* Mutant: the lock is not released when the file cannot be opened.
AfterFailedOpenNoUnlock == "idle"

AfterFailedOpen == "unlock"

\* parser_fflush: fopen(path, "w") empties the file, or fails.
OpenFile(t) ==
    \/ /\ Work(t, "flush", "open")
       /\ file' = <<>>
       /\ saved' = {}
       /\ UNCHANGED <<ini, store, mixed, got, failures>>
    \/ /\ Work(t, "flush", AfterFailedOpen)
       /\ UNCHANGED <<ini, store, mixed, got, file, saved, failures>>

\* The entries a save has to keep: those of a section that is there, with a
\* value that is read back as it was when it is written without quotes and
\* the comment after it.  No promise is made of a file with a line that ends
\* in a backslash.
Kept(d) ==
    IF \E i \in DOMAIN iniparser_dump_ini(d) : Continues(iniparser_dump_ini(d)[i]) THEN {}
    ELSE {e \in ToSet(d) : /\ Len(e.key) > 1
                           /\ HasKey(d, <<e.key[1]>>)
                           /\ e.val # NULL
                           /\ BeforeMark(e.val \o e.cmt) = e.val}

\* The dump accesses an array that is NULL: the sections are looked up.
DumpFaults ==
    /\ ini # NULL
    /\ \/ "key" \in store.lost
       \/ store.lost # {} /\ Sections(ini) # <<>>
       \/ "val" \in store.lost /\ ini # <<>>

\* iniparser_dump_ini and fclose.  A dictionary freed since the test of
\* parser->ini leaves the file empty.  Nobody looks at what fprintf and fclose
\* return: when writing fails, parser_fflush says all is well.
WriteFile(t) ==
    /\ pc[t] = "open"
    /\ ~DumpFaults
    /\ \/ /\ file' \in Written
          /\ saved' = IF ini = NULL \/ store.past # {} THEN {} ELSE Kept(ini)
          /\ UNCHANGED failures
       \/ /\ file' \in Cut
          /\ UNCHANGED saved
          /\ Fails
    /\ pc' = [pc EXCEPT ![t] = "unlock"]
    /\ UNCHANGED <<req, readers, writer, ini, store, mixed, got>>

-----------------------------------------------------------------------------

\* The steps of a call once it has the lock.
Inside(t) ==
    \/ strlwc(t)
    \/ Lookup(t)
    \/ parser_setstr(t)
    \/ parser_exit(t)
    \/ OpenFile(t)
    \/ WriteFile(t)
    \/ trd_rwlock_unlock(t)

Next == Restart \/ \E t \in Threads : Call(t) \/ Lock(t) \/ Inside(t)

Spec == Init /\ [][Next]_vars

-----------------------------------------------------------------------------
(* What the parser promises.                                                *)

\* A getter whose key no other reader overwrote returns the value its key has
\* as long as the lock is held: no writer gets in between, although the test
\* of parser->ini is done without the lock.
RightValue ==
    \A t \in readers \ mixed :
      pc[t] = "unlock" =>
        got[t] = IF ini = NULL THEN NoValue ELSE iniparser_getstring(ini, req[t].key, NoValue)

\* What a complete parser_fflush kept is what a load of the file finds,
\* whatever was set since, failed to be allocated or got lost, and however the
\* process ended: the writer and the loader agree.  Nothing is kept by a save
\* that a crash or a failed write cuts short, that finds the dictionary freed
\* by parser_exit, or that reads past the array of comments.  With a line too
\* long for the loader's buffer a load finds nothing, never half.
SavedSurvives ==
    \A e \in saved :
      LET d == iniparser_load(file)
      IN  IF \A i \in DOMAIN file : Fits(file[i])
          THEN d # NULL /\ iniparser_getstring(d, e.key, NoValue) = e.val
          ELSE d = NULL

\* Starting and saving over and over settles: the first time the comments that
\* the loader hands down from line to line are added, if they fit, after that
\* nothing changes any more, and no value does even then.
SaveSettles ==
    saved # {} /\ iniparser_load(file) # NULL =>
      LET first == iniparser_load(file)
          lines == iniparser_dump_ini(first)
          second == iniparser_load(lines)
      IN  (\A i \in DOMAIN lines : Fits(lines[i])) =>
             /\ second # NULL
             /\ \A i \in DOMAIN first :
                  iniparser_getstring(second, first[i].key, NoValue) = first[i].val
             /\ iniparser_dump_ini(second) = lines

\* Every call that gets the lock gives it back, on its error paths too, and
\* whoever writes is alone: no thread holds the lock outside its call.
LockBalanced ==
    /\ \A t \in Threads : t \in readers \/ writer = t => pc[t] \in {"in", "lookup", "open", "unlock"}
    /\ writer # NoThread => readers = {}

-----------------------------------------------------------------------------
(* What the repository says of the parser, and it does not do.              *)

\* iniparser.c:497-498, of iniparser_set: an entry that is found is modified,
\* "If it cannot be found, -1 is returned".  So parser_setstr adds no entry.
UnknownKeyRefused ==
    [][\A t \in Threads :
         /\ pc[t] = "in" /\ req[t].op = "set" /\ pc'[t] = "unlock"
         /\ ini # NULL /\ ~HasKey(ini, req[t].key)
         => ini' = ini]_vars

=============================================================================
