# A TLA+ model of linuxem

linuxem is a small framework for embedded programs: one thread runs an event
loop over timers and over an epoll instance with TCP and UDP servers, and a
configuration file is kept in memory behind a read-write lock. This directory
models the parts that keep state, checks them with TLC on small instances, and
proves some of the results for every instance with TLAPS.

## The system

| component | state | operations | what is hard about it |
|---|---|---|---|
| event loop, `core/loop.c` | `time` (cached clock), `stop_flag`, the event array | `loop_init`, `loop_run`, `loop_stop`, `loop_exit` | callbacks call back into the loop; the clock moves between any two steps |
| timers, `core/loop.c` | the heap, `nexttime`, `repeat` of each timer | `loop_timer_start/stop/again/run`, `loop_next_timeout` | stale `time`, restarts, ties, the length of a wait |
| timer heap, `common/heap.c` | `min`, `nelts`, three pointers per node | `heap_insert`, `heap_remove`, `heap_dequeue` | pointer surgery with adjacent nodes, removal from the middle |
| epoll poll, `core/epoll.c` | `watcher_queue`, `nevents`, the event batch | `ep_ip_watcher_oper`, `ep_io_poll` and one handler per kind of socket | edges, batches that go stale, descriptor numbers reused |
| TCP server, `net/tcp.c` | `slave_queue`, `fd_status` of each slave | start, accept, read, mark closed, free | a handle is freed while it is queued; one accept and one read per edge |
| UDP server, `net/udp.c` | `server_u_queue` | start, receive | one datagram per edge |
| queue, `common/include/queue.h` | linked rings | insert, remove, iterate | iteration over a list that is being changed |
| dictionary, `iniparser/dictionary.c` | four arrays, `n`, `size` | new, get, set, set with comment, unset, del | growth of some of the arrays, failed allocations |
| ini files, `iniparser/iniparser.c` | two static buffers | load, find, get, set, save | sections and keys share one name space; the save and the load must agree |
| parser, `iniparser/parser.c` | the dictionary pointer, the lock, the file | start, get, set, flush, exit | tests before the lock, concurrent readers, crashes while saving |
| ring buffer, `common/ringbuf.c` | two offsets, memory mapped twice | write, read, clear | offsets that are taken back together |
| system information, `common/common.c` | open files, an array of rows | `cm_cpu_info`, `cm_free_cpu_info`, `cm_resident_set_memory` | every step may fail; CPUs come and go between two reads of `/proc` |
| text codecs, `common/common.c` | none | decimal, hexadecimal, base64 | tails of one and two bytes, blanks, cut texts |

`loop_run` alternates a timer pass and a poll. The timer pass uses the heap; the
poll drains `watcher_queue` into `epoll_ctl`, waits for at most
`loop_next_timeout`, and dispatches each event by comparing descriptor numbers
with every server and every slave. Client callbacks run inside both and may
start and stop timers, start servers, stop the loop and read the configuration.
`main/main.c` sets up exactly this: one TCP server, one UDP server, two timers
and one parser.

What makes each component correct: a timer runs as often as asked, neither early
nor after a sleep that was too long; an event reaches the handle of its own
socket, nothing that arrived is forgotten, nothing is closed that still has
something to say, and no descriptor leaks; the heap is a priority queue; the
dictionary is a map; a saved configuration is what the next start finds; the
ring is a FIFO; a call gives back what it acquired whichever of its steps fails;
what is encoded can be decoded. `PROJECT.json` lists the hazards at their lines.

## Modules

Everything EXTENDS only standard and community modules. `MC*.tla` hold the values
of constants for TLC.

**`EpollServer`** is the epoll poll with both kinds of servers, the kernel and the
peers. `pc` is where the loop's thread is: `"timers"` (between two polls),
`"watch"` (draining `watcher_queue`, one entry per step), `"wait"`
(`epoll_wait`), `"dispatch"` (one event of `batch` per step), `"aborted"` (a
failed assertion). A handle is a server or a slave; `fd`, `fd_status` and
`operate` are the fields of its `ep_io`. `slave_queue` and the server queues are
sets, because nothing depends on their order; `watcher_queue` is a sequence.
The kernel side is `owner` (the socket behind each descriptor), `interest` and
`ready` (the epoll set and its pending edges), `backlog`, `rx`, `conn`; a new
descriptor is the lowest free one. Peers connect, send, close and reset at any
time, and a send or connect may fall between `accept` and `EPOLL_CTL_ADD` or
between `epoll_wait` and `read`. Every dispatch step includes the scan that
frees slaves marked closed, since the code scans at every event. Answers written
by a read callback change nothing in the loop and are left out.
A slave is freed while its DEL entry is still linked in `watcher_queue`, and
`ep_ip_watcher_oper` then reads freed memory: a choice between bytes that are intact
and bytes that are clobbered (`FreedIntact`). Clobbered are the first 16 bytes of
`tp_slave_t` (`socket`, `fd`, `fd_status`, `operate`), which is what glibc's `free`
overwrites with its own links; the node's links in the list are behind them. The
model makes one assumption on the allocator, at `FreeBlocks`: the block is not
handed out again before the entry is unlinked. Only an accept later in the very
same batch, or a client's callback that allocates, could get it; the new slave would
overwrite the links of a node the queue still goes through, and nothing can be
said of a program whose lists are garbage. `bunched` and `leaked` are history: UDP
servers where a datagram came before the one ahead of it was taken, and
descriptors whose DEL entry was read from clobbered memory.

**`TimerLoop`** is `loop.c`: `pc` walks through `loop_run`, `clock` is
`CLOCK_MONOTONIC` in milliseconds and may advance between any two steps, `time` is
`loop->time`. The heap is the set `queued`; I/O is only "something may
interrupt the wait". `loop_timer_run` takes a timer out, perhaps puts it back and
enters its callback in one step, as the code does with no other code in between.
Callbacks may start any timer that is not queued, stop any that is, and call
`loop_stop` or `loop_exit`. A timer has a callback:
one without is not restarted (`loop.c:68`), but it is called all the same
(`loop.c:103`), which ends the process. `life`, `startedAt`, `asked` and `fired` are history. Deadlines are kept modulo `Modulus` = 2^64.

**`Heap`** has `left`, `right` and `parent` of every node as in the C structure;
`heap_insert` and `heap_remove` find the last position by the bits of `nelts` and
swap along the path; a node's place is the number whose bits are that path. **`MinQueue`** is what it promises: a set of nodes and
removal of a least one. `Heap` implements `MinQueue` (`ImplementsMinQueue`).
Its names begin with `Heap`, and those of `RingBuf` with `Ring`, where `MCCommon`
needs both.

**`Dictionary`** has the arrays as functions of slots, with holes left by
removals, hash collisions, growth by doubling and allocations that fail. The
comment array is only its length. What a failed allocation does depends on
where it happens, and the code tests only some of them:

- a copy of a key or a value: the slot has NULL; a key that could not be copied is
  counted all the same (`unkeyed`);
- a growth (`GrowFails`): the pointer of the array that could not be doubled has
  already been overwritten with NULL, `size` is as it was, -1 is returned; the
  array and all that was in it is gone (`lost`), and so may several be at once;
- the creation: `dictionary_new` does not look at what `calloc` gave it, the
  dictionary begins with arrays lost.

With an array lost a lookup reads through NULL (`LookupFaults`), or finds nothing
where it does not get that far; a set does, or fails to grow again. A growth by
`dictionary_set` leaves the comment array at its length; touching a comment
past it is `status` `"damaged"`, as is every access through NULL. **`KeyValue`** is the
map it implements, and what becomes of it: `"inUse"`, then perhaps `"lost"` with all its
entries, then `"ended"`.

**`IniFile`** has the pure part of `iniparser.c`: the load as a function of the number
of lines read (`Loading`), the save, lookups. A key is the sequence of its parts between colons, so `"s:k"`
saved without a section and loaded again really becomes `":s:k"`. A value is a
sequence of pieces, of which some begin with a comment mark or end in a
backslash. A line of any kind that ends in a backslash goes on with the next one
(`Continues`), whatever that one is: `Continued` says what the two are as one line, a
comment behind a value becoming the value's, a value behind a comment its text, a
value behind a section or an error line a key that begins with its text. A load
takes quotes off, hands the comment
buffer from a line to the next as the code does, gives up at a line without
newline or wider than the buffer (`MaxWidth`), and forgets syntax errors at the
next good line. A save writes values without quotes. `iniparser_load` and
`iniparser_set` say what they do when memory lasts.

**`Parser`** is `parser.c` over it: threads go through the unlocked test, the lock,
`strlwc`'s shared buffer, the lookup and the unlock one step at a time; a flush
truncates, then writes; a crash at any moment leaves any prefix of what was being
written and perhaps a piece of a line, and the process starts again from the file.
What fails is there, too: a start whose file cannot be opened or whose memory
runs out has no dictionary, or one with an entry short of its key, value or
comment (`Started`); a set may lose a copy, or whole arrays with a growth (`Update`,
`Add`, `GrowFails`); a save whose writing fails leaves a part of the file and reports
success (`WriteFile`). `store` is what of the arrays this needs: the count and the size,
the length of the comment array, the keys whose slots are past it, and the
arrays lost. A save then writes for these keys whatever is in the memory behind the
array (`Seen`, with `Debris`), and an access through an array that is lost is a crash: the
steps that would make it are not enabled, `Restart` is. The abstractions:

- once a write failed nothing more is written, so the file is a prefix and perhaps
  a piece of a line;
- what is behind the comment array is read as one piece of a line or crashes;
  freeing it crashes or is survived;
- of one load at most one copy fails, and of one history `MaxFailures` steps;
- of a section line that is joined to another only its end is kept;
- a line of nothing but blanks makes the code read the byte before its buffer:
  undefined, and not modelled.

**`RingBuf`** has the offsets and the memory behind both mappings; **`Fifo`** is the
bounded queue it implements.

**`SysInfo`** has `cm_cpu_info` step by step: CPUs are counted in `/proc/stat`, rows are
allocated, models and speeds come from `/proc/cpuinfo` one CPU after the other,
times from a second reading of `/proc/stat`, speeds from `/sys`. A file may not
open, an allocation may fail, a CPU may go on- or offline (`Hotplug`) between two
steps. The process may end in it: `read_times` asserts that there are as many lines
as were counted (`pc` = `"assert"`) and calls `abort()` when it cannot read the file
again or parse a line, as the return does when `fclose` fails (`"abort"`). `open` is the set of open files and `blocks` the number of live blocks, so
that what an early return forgets shows. A name, a row of times and a speed are
told apart by the CPU they are about. `cm_resident_set_memory` is in the same
module, with its retries on `EINTR`.

**`Codec`** has `cm_itoa`, `cm_s2hex`, `cm_hex2s`, `cm_s2base64` and `cm_base642s` as
operators on sequences of bytes, with the arithmetic of the code. Their
references are definitions of their own: base64 as a regrouping of bits, a number
as the value of its digits. Its two actions only choose an input. `cm_itoa` returns
a static buffer that its next call overwrites; the operator is what the buffer
holds until then. **`MCCommon`** checks `SysInfo`, `Codec`, `Heap` and `RingBuf` in one run:
they share no state, so each runs while the others rest.

`TimerLoopProofs`, `EpollServerProofs`, `EpollOwnershipProofs` (which extends the one
before), `HeapProofs`, `DictionaryProofs`, `ParserProofs`, `RingBufProofs` and
`CommonProofs` (for `SysInfo` and `Codec`) hold the theorems.

## What is checked

Passing runs:

| run | instance | what it shows |
|---|---|---|
| `EpollServer` | 1 TCP and 1 UDP server, 2 slaves, 2 peers, 4 descriptors, limit 3, up to 2 datagrams at once, debug build, freed memory intact or not | `NeventsExact`: the hand-kept count equals the kernel's set; `HandlesOwnFds`: no event reaches another connection's handle although descriptors are reused; `NoLostBytes`: unread data always has a pending edge or event; `NoLostDatagram`: so has a waiting datagram, unless one came before the one ahead of it was taken, and again once such a bunch is taken; `OnlyFinishedClosed`: only a finished connection is closed; `NoOrphan`: no descriptor leaks, but those whose DEL entry was read from freed and overwritten memory |
| `EpollIntact` | 1 TCP server, 2 slaves, 2 peers, 3 descriptors, limit 3, freed memory intact, fair | `AllWatched`: whoever should be watched is; `DataIsRead`, `ClosedIsReleased`, and, when peers come and end one at a time, `AcceptedOneByOne`, `EofNoticed` |
| `TimerLoop` | 2 timers with timeouts 1 and 2, repeats 0 and 2, clock 0..3, fair | `FiresAsOften`, `NeverOversleeps`, `NeverEarly`; `TimerFires`, `PassEnds`, `StopsUnlessParked` |
| `Dictionary` | 3 keys, two colliding, up to 4 slots, failing allocations | `CountExact`, `Findable`, `ImplementsMap`: a map, that a failed growth loses as a whole |
| `Parser` | 2 threads, 11 first files, 2 keys read and 2 set, crashes, one failed allocation or write | `RightValue`: a getter returns what its key has; `SavedSurvives`: what a complete save kept is what a start finds; `SaveSettles`: saving and starting over and over stops changing the file; `LockBalanced` |
| `Common` | `SysInfo`: 3 CPUs, 3 formats of `/proc/cpuinfo`, 2 interruptions; `Codec`: every single byte, up to 4 bytes of 6 values, 9 numbers; `Heap`: 9 nodes, two of equal key; `RingBuf`: 4 bytes of 2 values | `GivesBack`: no file and no block is forgotten; `RowsMatch`: a row is about one CPU; `CallReturns` under fairness; `CodecsRight`; `Complete`, `Ordered`, `ImplementsMinQueue` of the heap; `InsideMappings`, `ImplementsFifo` of the ring |

`EpollIntact` assumes that freed memory stays intact, because a slave is freed by the
scan of the next event while its DEL entry is still queued: if those bytes are
overwritten, the entry closes nothing, and `ClosedIsReleased` and `EofNoticed` cannot
hold. No safety property depends on it.

### What the code does not do

Runs that end in a violation, each a disagreement of the code with what the
repository says of it (quoted in `PROJECT.json`):

- `EpollForeach`: `ep_io_poll` frees nodes of the list `QUEUE_FOREACH` is walking,
  which `queue.h:18` forbids.
- `EpollBurst`: two connections before one event, one `accept` per edge: the second
  waits for a third that may never come, against the README's "responsive".
- `TimerTies`: timers with one deadline run in the order of a `start_id` nobody
  allocates, against the comment at `loop.c:42`.
- `DictComments`: a growth by `dictionary_set` leaves the comment array at half the
  "storage size".
- `SetUnknown`: `iniparser_set` of a key that is not there adds it, where
  `iniparser.c:497` says "If it cannot be found, -1 is returned"; `parser_setstr` adds
  entries that way.
- `SpeedByRow`: with an offline CPU before it, and no speeds in `/proc/cpuinfo`, a row
  gets the speed of another CPU, where `common.c:737` says "Worst case, the field is
  left zero".

Where no line of the repository says otherwise, what the code does is in the
model, and the property that could be violated by it says so in its premise.
These are defects all the same:

- At `LOOP_EPOOL_MAX` registrations an ADD is dropped without a word, and the
  connection is never served (premise of `AllWatched`). The event array is
  allocated smaller than the number of events `epoll_wait` is told to write.
- The DEL entry of a slave is read after the slave was freed. If the memory was
  overwritten, its descriptor stays open and registered (`leaked` in `NoOrphan`).
- One event reads one buffer: under edge triggering, more than a buffer stays in
  the socket until the peer sends again (premise of `NoLostBytes`), and an end of
  stream that came with data is not noticed (premise of `EofNoticed`). One event
  takes one datagram: of a bunch the rest waits for the next (`bunched`).
- With no descriptor left, `accept` fails and -1 is taken for a socket: a debug build
  aborts, another leaks the slave (`AcceptNoDescriptor`).
- A save empties the file before it writes it. A crash, a failed write, or a
  `parser_exit` between the test of `parser->ini` and the lock leave the file
  without what was in it, and the last two report success (`saved` in `SavedSurvives`).
- After a growth by `iniparser_set` a save reads past the array of comments (`past` in
  `store`).
- A failed growth loses the arrays of a dictionary, a failed creation is not
  noticed: the next access goes through NULL.
- A CPU that goes offline between the two readings of `/proc/stat` makes an assert
  fail, or leaves rows without times (`steady` in `RowsMatch`, `common.c:656`).

### Bounds, and why they are enough

`EpollServer`: two connections and two slaves let a descriptor be closed and
reused while another connection is live, in either order of the batch; four
descriptors against a limit of three reach both the limit and a full table.
Each connection is used once and a receive queue holds two units (`MaxRx`), so
that a read may empty it or not. Two UDP datagrams may wait (`MaxDgrams`): a lone one, and a
bunch. Blocks and connections are symmetric (`EpollServer` only, which has no liveness
property). `TimerLoop`: with timeouts 1 and 2, a clock up to 3 has one timer due
twice while the other is queued, and both due at the same moment; repeats 0 and
2 are a timer that is not repeated and one that is; a wait of 2 is clamped to
`MaxWait` = 1. `Horizon` bounds the clock; at the horizon a wait may end, as no
later moment exists.
`Heap`: nine nodes give four levels, so a swap has a grandparent, a sibling and
children. `Dictionary`: `DICTMINSZ` = 1 and `MaxSize` = 4 grow twice, so that a growth may fail
with entries in the arrays and once more after it failed.
`Parser`: the files cover an empty one, sections in an order that changes with a
save, keys above any section, commented, quoted, repeated and continued values, a
line without room for the comment it inherits, a syntax error first and last, a
cut last line, and lines of each kind that go on with the next; what is set may end in a backslash, be in a section that is not
there, or be a section's own value. `MaxWidth` bounds a line, as `ASCIILINESZ`
does, and with it the colons a key can gain. With `DICTMINSZ` = 2 a dictionary of a
section and a key grows when one is set; `MaxFailures` = 1 is one failed copy,
growth or write at any moment, and `Debris` a comment behind the comments.
`Common`: with three CPUs a row can be missing, extra, or about another CPU in the
middle (`SpeedByRow` has a fourth: of three, the only row that is not about the
CPU of its number asks for the speed of the CPU that is offline); the byte values are those around which a digit changes, and four of them
are a group and a tail.

Deadlock is checked except where the system may really stop: a debug build that
aborts, a clock at its horizon, a dictionary deleted or damaged.

### Fairness

`EpollServer` and `TimerLoop` assume only that the loop's thread runs
(`WF_vars(LoopStep)`) and, for timers, that time goes on and callbacks return,
which are steps of the same thread. Peers, I/O and clients owe nothing, and
`EpollTimeout` need not happen. The conditions under which `AcceptedOneByOne` and
`EofNoticed` hold are premises of the properties, so the runs also explore what
happens outside them. `Common` assumes that a call goes on once it is called
(`WF_vars(CallStep)`); callers and CPUs owe nothing. `Parser` states no liveness:
glibc's lock promises no order.

## What is proved

For every value of the constants that satisfies the named assumptions, checked by
TLAPS to the last leaf:

- `TimerLoopProofs`: `TypeCorrect`; `RepeatsKept` (`FiresAsOften`); `WaitsKept`
  (`NeverOversleeps`); `EarlyKept` (`NeverEarly`).
  `FiresAsOften` is not inductive: it does not say that a queued timer with nothing
  left to repeat was asked for none, without which one more firing would break the
  count. `Countdown` adds this, and that exactly the armed timers are queued.
  `EarlyKept` rests on `Deadlines`: a queued timer's `nexttime` is its timeout plus
  the clock at its start, reduced modulo 2^64, and `time` never passes the clock.
  `WaitsKept` needs that the heap has a least element (`MinExists`), by
  well-foundedness of the naturals.
- `EpollServerProofs`: `TypeCorrect`; `CountKept` (`NeventsExact`), which is inductive
  once the types are known: every path that changes the kernel's set changes the
  count, and a descriptor is added only if it is not there.
- `EpollOwnershipProofs`: `OwnFdsKept` (`HandlesOwnFds`), `FinishedKept`
  (`OnlyFinishedClosed`), `BytesKept` (`NoLostBytes`), `DatagramsKept`
  (`NoLostDatagram`), `EverybodyWatched` (`AllWatched`) and `NoneOrphaned` (`NoOrphan`):
  all the safety of the dispatch by descriptor number, for any number of datagrams
  and whatever freed memory holds. `NoLostDatagram` says what one datagram per edge can
  give: it says nothing of a socket where a datagram came before the one ahead of it
  was taken, until it has been read empty. `NoOrphan` says nothing of a
  descriptor whose DEL entry was read from clobbered memory. `HandlesOwnFds` is not inductive: a
  slave that was marked closed is out of reach, but its DEL entry still names its
  descriptor and will close it. `IInv` therefore speaks of `Holders`, the handles in
  reach and those with an entry in `watcher_queue`: each has a descriptor of its own
  (`Own`), no handle is queued twice (`NoDup`), an ADD entry is not watched yet and a
  DEL entry belongs to a finished peer (`Entries`), events are of watched descriptors
  and stay readable until they are dispatched (`Events`), and a connection is in one
  place (`OneDescriptor`, `OneBacklog`). That a slave is never queued twice follows from
  `Events`: an event needs a watched descriptor, and a queued ADD is not watched.
  `AllWatched` speaks of one moment only; the invariant behind it, `Promised`, says
  at any moment that whoever can be reached is watched or queued, and rests on
  `NeventsExact` to know that an ADD is never dropped below the limit. `NoOrphan`
  additionally needs that a server that was not started serves nobody (`Kept`),
  since a start empties its list.
- `HeapProofs`: `TypeCorrect`, `AlwaysComplete` (`Complete`), `AlwaysOrdered`
  (`Ordered`) and `HeapImplementsMinQueue` (`ImplementsMinQueue`), for any nodes and any
  keys. The invariant says that some array `a` of distinct nodes stands for the
  pointers (`Rep`): the children of place i are at 2i and 2i + 1. Every operation on
  pointers is shown to be a small one on the array: the walk by the bits of a
  number ends at that place, a swap of parent and child, adjacent pointers, siblings
  and root included, exchanges two places, and so on. That an insert walks up and a
  removal up or down until the tree is ordered is then an argument about arrays
  whose only misplaced node is at one place; the loops end because the place gets
  smaller, or larger up to `nelts`.
- `ParserProofs`: `TypeCorrect`, `LockKept` (`LockBalanced`), `ReadersAreRight`
  (`RightValue`), `SavesSurvive` (`SavedSurvives`) and `SavingSettles` (`SaveSettles`), for
  any threads, keys, values, files and failures. `SavedSurvives` promises something of a
  complete save only: not of one that a crash or a failed write cuts short, that
  finds the dictionary freed, that reads past the array of comments (`store.past`)
  or that writes a line ending in a backslash. For the lock, the invariant says how each call
  past its lock step holds it (`Held`); whoever changes the dictionary holds it for
  writing, and then there is no reader. For the file, `SaveStands` says that after
  a complete save the file is `iniparser_dump_ini` of some dictionary with unique,
  typed keys, of which `saved` are the entries a save keeps; from the moment a save
  empties the file there is nothing to keep until it is complete (`NoneWhileWriting`),
  and a dictionary that a failed copy damaged still has unique, typed keys. What remains is about
  the two functions only. A save is the blocks of the sections one after the other
  (`Blocks`), each entry of a known section once and in order (`Before`, `Covers`); a
  load of lines that fit and do not continue puts the entry of each line in,
  with the section of the lines above it (`LoadRun`), so that it reads
  back exactly the kept entries (`ReadBack`); a line that does not fit makes it give
  up. What a load made of a save has the entries of each section together
  (`Grouped`), is therefore saved in the order it has, and its comments are already
  those that are handed from line to line: the next save writes the same lines.
- `RingBufProofs`: `StaysInside` (`TypeOK` and `InsideMappings` together, an inductive
  pair), `TypeCorrect`, and `FifoImplemented` (`ImplementsFifo`): every step of the ring
  is a step of the queue, by the distance of a cell from the write offset (`Distance`).
- `DictionaryProofs`: `TypeCorrect`, `CountKept` (`CountExact`), `EntriesFound`
  (`Findable`) and `MapImplemented` (`ImplementsMap`), for any keys, any hash and any
  allocation that fails: what a growth or the creation does then to the arrays is
  part of the model, and `CountExact` and `Findable` speak of the arrays that are there. The count needs that a growth moves every entry and that
  a removal empties one slot; a lookup compares hashes first, so the invariant
  adds that each occupied slot has its key's hash (`HashesKept`) and that no key is
  twice in the array (`KeysUnique`). The refinement then goes action by action: a
  call sets, unsets or changes nothing of the map, a value that `xstrdup` fails
  to copy is a set to NULL, and a failed growth is the step in which the whole map
  is lost, or nothing of it, if it was lost before.
- `CommonProofs`, for the calls of `SysInfo`: `TypeCorrect`, by which no row past the
  array is written however many CPUs are listed; `EverythingGivenBack` (`GivesBack`),
  whose invariant says for each place in the call which files are open and which
  blocks are live, the array and one for each row that has a model; and
  `RowsAlwaysMatch` (`RowsMatch`), which also says that `read_times` asserts nothing wrong
  unless CPUs come or go. Speeds read by a row's number are not in it: they are
  not right (`SpeedByRow`). A row's parts are set at different places of the
  call, so the invariant behind it (`RowsAgree`) says at each place how far the CPUs
  that are online, the lines read so far and the rows go together: the i-th
  CPU online is the i-th line of both files.
- `CommonProofs`, for `Codec`: `CodecsAlwaysRight` (`CodecsRight`), for byte strings of
  every length and every number, with `HexLosesNothing`, `Base64GroupLosesNothing`
  and `Base64TailLosesNothing` on the way. The codecs keep nothing, so the proof is
  about the operators. Of base64 it gives the decoder's state in closed form
  (`AfterDigits`): after i digits of the text of `s` it has put out the bytes of the
  whole groups and holds the upper bits of the next. One more character keeps
  this (`CharRead`), a blank changes nothing, and what is put out at the end is a
  prefix of `s` whose length depends on i alone (`ByteCount`), all of `s` once every
  digit is read. That the digits are the bits of the bytes is shown for the
  24 bits of a group (`DigitBits`). Of `cm_itoa` it shows, from small numbers to large,
  that the value of the digits is the number (`Prints`).

The assumptions are those in the modules: finite descriptors, positive limits,
timeouts and the clock's range below 2^64, and what files and callers of the
parser give it (`FilesAssumption`, `SetCallsAssumption`), and that inputs of the codecs
are bytes and unsigned numbers (`InputsAssumption`). TLC evaluates them in
every run.

The library's induction theorems cannot be instantiated by the provers. Where a
proof needs induction it takes the least counterexample instead, a set of naturals
with a least element (`WellFoundedInduction`); where a definition is a recursive
function, that a function with its equation exists is proved the same way first.

Only model-checked: every liveness property, since liveness under fairness and
`ENABLED` are out of the prover's reach. Every safety property of a passing run has
a theorem.

## What is not modelled

- `tp_tcp_write`, `up_udp_sendmsg`, `tp_tcp_connect`: called by clients, they keep no
  state of the framework.
- In `common.c`: `cm_uptime`, `cm_exepath`, `cm_get_cwd`, `cm_loadavg`, the memory
  getters and the wrappers of `calloc` and `close`, one system call each.
- In `iniparser.c`: the number and boolean getters, which convert what
  `iniparser_getstring` returns, and the dump for debugging. `parser_getint` and
  `parser_getdouble` are `parser_getstr` up to the conversion when their default is
  zero, and change nothing otherwise.
- `errors.c`, `mlog.h`: a table of strings and a macro around `printf`.
- `daemon.c`, `signals.c`, `proctitle.c`: straight-line calls at start-up.
- Mutexes, semaphores and threads of `threads.c`: wrappers of one call, unused.
- The intrusive rings of `queue.h` themselves: a queue is a sequence or a set. What
  the header forbids is checked where it happens (`EpollForeach`).
- Addresses and buffer sizes in bytes: the terminating zero that
  `ep_tcp_server_slave_process` writes, the 32 bytes of the event array.
- Empty names in ini files. A section `""` is saved as `[]`, which a load reads as the
  section above; an entry `"s:"` is saved as a line that is a syntax error. `Lines` and
  `EntryKeys` leave both out, so `SavedSurvives` says nothing of them.
- A `/proc/cpuinfo` that lists a speed of 0, which makes `cm_cpu_info` read the speeds once
  more from `/sys`.
- What a caller does with a string a getter returned, which the dictionary may free
  after the unlock.
- `main/main.c`, the example: the instances of the runs take their shape from it.

## Plan

1. Done: the event loop (`EpollServer`, `TimerLoop`), its data structures, the
   configuration, the ring; the safety of the servers, the timer promises, the
   parser's lock discipline and the ring's refinement of a queue proved.
2. Done: comments, quotes, continued and over-long lines in `IniFile`; datagrams that
   may be lost; the system information calls and the codecs; the dictionary's
   refinement of a map, and all the safety of the servers, proved.
3. Done: the heap's structure, order and refinement of a queue with a minimum, the
   round trip of the configuration through its file, the rows of `cm_cpu_info`
   and the codecs for inputs of every length, proved.
4. Done: failed allocations and writes in the dictionary and in the parser, continued
   lines of every kind, and the theorems about them proved again.
5. Left: a composition in which timers, I/O and the configuration share the
   loop's thread.
