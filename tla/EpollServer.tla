---------------------------- MODULE EpollServer ----------------------------
(* The I/O half of linuxem's event loop: the TCP and UDP servers            *)
(* (net/tcp.c, net/udp.c) registered with one epoll instance                *)
(* (core/epoll.c), the kernel's edge-triggered readiness, and the peers.    *)
(*                                                                          *)
(* One call of ep_io_poll is a pass through pc = "watch" (the queued        *)
(* epoll_ctl work), "wait" (epoll_wait) and "dispatch" (the event array).   *)
(* Between two calls, pc = "timers", timer callbacks run.  Everything the   *)
(* loop does is one thread; peers and the kernel interleave with it.        *)
EXTENDS Integers, Sequences, FiniteSets

CONSTANTS
    TcpServers,      \* tp_server_t objects
    UdpServers,      \* up_server_t objects
    Slaves,          \* heap blocks a tp_slave_t can be allocated from
    Conns,           \* connections the peers may open, each used once
    Fds,             \* descriptors the process may have open
    NoSock,          \* owner of a descriptor that is not open
    LOOP_EPOOL_MAX,  \* loop.h:7
    TCP_CONN_MAX,    \* tcp.h:8, the listen backlog
    BufLen,          \* tp_server_t.buf.len, in units of peer data
    MaxRx,           \* bound: unread units in one connection's receive queue
    MaxDgrams,       \* bound: datagrams waiting at one UDP socket
    WithDebug,       \* is assert() live?  (common.h:74, WITH_DEBUG)
    FreedIntact      \* what freed memory may hold: TRUE intact, FALSE clobbered

Handles == TcpServers \cup UdpServers \cup Slaves
Sockets == TcpServers \cup UdpServers \cup Conns

\* The actors are different kinds of objects.
ASSUME DistinctAssumption ==
    /\ TcpServers \cap UdpServers = {}
    /\ Slaves \cap (TcpServers \cup UdpServers) = {}
    /\ Conns \cap Handles = {}
    /\ NoSock \notin Sockets

ASSUME FdsAssumption == Fds \subseteq Nat /\ IsFiniteSet(Fds)

ASSUME BoundsAssumption ==
    /\ LOOP_EPOOL_MAX \in Nat \ {0}
    /\ TCP_CONN_MAX \in Nat \ {0}
    /\ BufLen \in Nat \ {0}
    /\ MaxRx \in Nat
    /\ MaxDgrams \in Nat

ASSUME OutcomesAssumption == WithDebug \in BOOLEAN /\ FreedIntact \in SUBSET BOOLEAN

VARIABLES
    pc,              \* where the loop's thread is
    batch,           \* event[i..nfds-1]: descriptors still to be dispatched
    server_t_queue,  \* loop->server_t_queue, as a set
    server_u_queue,  \* loop->server_u_queue, as a set
    slave_queue,     \* tp_s->slave_queue, as a set
    watcher_queue,   \* loop->watcher_queue, oldest first
    fd,              \* ep_io.fd, equal to master / socket
    fd_status,       \* ep_io.fd_status: EP_FD_OPEN or EP_FD_CLOSE
    operate,         \* ep_io.operate: EP_OPERATE_ADD or EP_OPERATE_DEL
    nevents,         \* loop->epollop.nevents
    lost,            \* slaves calloc'ed and dropped without free
    owner,           \* kernel: the socket behind each descriptor
    interest,        \* kernel: descriptors in the epoll instance
    ready,           \* kernel: descriptors with an edge not yet reported
    backlog,         \* kernel: connections waiting for accept()
    conn,            \* kernel: life cycle of each connection
    rx,              \* kernel: units waiting in each connection
    peer,            \* what the peer did: "alive", "fin" or "rst"
    dgrams,          \* kernel: datagrams waiting at each UDP socket
    bunched,         \* history: UDP servers with a datagram that came before
                     \* the one ahead of it was taken
    leaked           \* history: descriptors whose DEL entry was worked off in
                     \* memory freed and overwritten since

loopVars   == <<pc, batch>>
queueVars  == <<server_t_queue, server_u_queue, slave_queue, watcher_queue, lost, leaked>>
ioVars     == <<fd, fd_status, operate>>
kernelVars == <<owner, interest, ready, nevents>>
peerVars   == <<backlog, conn, rx, peer, dgrams, bunched>>
vars == <<loopVars, queueVars, ioVars, kernelVars, peerVars>>

TypeOK ==
    /\ pc \in {"timers", "watch", "wait", "dispatch", "aborted"}
    /\ batch \in SUBSET Fds
    /\ server_t_queue \in SUBSET TcpServers
    /\ server_u_queue \in SUBSET UdpServers
    /\ slave_queue \in [TcpServers -> SUBSET Slaves]
    /\ watcher_queue \in Seq(Handles)
    /\ fd \in [Handles -> Fds \cup {-1}]
    /\ fd_status \in [Handles -> {"open", "close"}]
    /\ operate \in [Handles -> {"none", "add", "del"}]
    /\ nevents \in Int
    /\ lost \in SUBSET Slaves
    /\ owner \in [Fds -> Sockets \cup {NoSock}]
    /\ interest \in SUBSET Fds
    /\ ready \in SUBSET Fds
    /\ backlog \in [TcpServers -> Seq(Conns)]
    /\ conn \in [Conns -> {"idle", "queued", "open", "closed"}]
    /\ rx \in [Conns -> Nat]
    /\ peer \in [Conns -> {"alive", "fin", "rst"}]
    /\ dgrams \in [UdpServers -> Nat]
    /\ bunched \in SUBSET UdpServers
    /\ leaked \in SUBSET (Fds \cup {-1})

Init ==
    /\ pc = "timers"
    /\ batch = {}
    /\ server_t_queue = {}
    /\ server_u_queue = {}
    /\ slave_queue = [s \in TcpServers |-> {}]
    /\ watcher_queue = <<>>
    /\ fd = [h \in Handles |-> -1]
    /\ fd_status = [h \in Handles |-> "open"]
    /\ operate = [h \in Handles |-> "none"]
    /\ nevents = 0
    /\ lost = {}
    /\ owner = [f \in Fds |-> NoSock]
    /\ interest = {}
    /\ ready = {}
    /\ backlog = [s \in TcpServers |-> <<>>]
    /\ conn = [c \in Conns |-> "idle"]
    /\ rx = [c \in Conns |-> 0]
    /\ peer = [c \in Conns |-> "alive"]
    /\ dgrams = [u \in UdpServers |-> 0]
    /\ bunched = {}
    /\ leaked = {}

-----------------------------------------------------------------------------
(* The kernel.                                                              *)

FreeFds == {f \in Fds : owner[f] = NoSock}

\* POSIX: a new descriptor is the lowest free one.
IsNewFd(f) == f \in FreeFds /\ \A g \in FreeFds : f <= g

\* EPOLLIN would be reported for the socket.
Readable(s) ==
    \/ s \in TcpServers /\ backlog[s] # <<>>
    \/ s \in UdpServers /\ dgrams[s] > 0
    \/ s \in Conns /\ (rx[s] > 0 \/ peer[s] # "alive")

\* An arrival at socket s raises an edge if its descriptor is registered.
RaiseEdge(s) == ready' = ready \cup {f \in interest : owner[f] = s}

\* The edges epoll_wait would report: those still readable.
Reportable == {f \in ready : Readable(owner[f])}

-----------------------------------------------------------------------------
(* Memory and the queues.                                                   *)

Live == UNION {slave_queue[s] : s \in TcpServers}

Queued == {watcher_queue[i] : i \in DOMAIN watcher_queue}

\* Blocks calloc may return.  A block freed while it is still linked in
\* watcher_queue is not handed out again before it is unlinked, which the next
\* call of ep_ip_watcher_oper does: the model's one assumption on the allocator.
FreeBlocks == Slaves \ (Live \cup Queued \cup lost)

\* A handle whose memory is freed but whose node is still in watcher_queue.
Dangling(h) == h \in Slaves \ Live

\* Mutant: the node is not linked.
EnqueueNothing(h) == watcher_queue

\* QUEUE_INSERT_TAIL on watcher_queue.
Enqueue(h) == Append(watcher_queue, h)

\* What one scan of slave_queue leaves of it: tp_server_slave_invaild
\* unlinks and frees every slave marked EP_FD_CLOSE.
Unfreed(S) == {x \in S : fd_status[x] # "close"}

Purge == slave_queue' = [s \in TcpServers |-> Unfreed(slave_queue[s])]

-----------------------------------------------------------------------------
(* tp_server_start and up_server_start, called before loop_run or from a    *)
(* callback.                                                                *)

MayCall == pc \in {"timers", "dispatch"}

\* net_socket: a new descriptor for s.
net_socket(s, f) == IsNewFd(f) /\ owner' = [owner EXCEPT ![f] = s]

\* socket() succeeds, then bind() or listen() fails: the error is returned
\* and the descriptor stays open.
StartFails(s) ==
    /\ MayCall
    /\ s \notin server_t_queue \cup server_u_queue
    /\ \E f \in Fds : net_socket(s, f)
    /\ UNCHANGED <<loopVars, queueVars, ioVars, interest, ready, nevents, peerVars>>

\* The common tail of a successful start: watch the master descriptor.
StartMaster(s) ==
    /\ MayCall
    /\ \E f \in Fds :
         /\ net_socket(s, f)
         /\ fd' = [fd EXCEPT ![s] = f]
    /\ operate' = [operate EXCEPT ![s] = "add"]
    /\ watcher_queue' = Enqueue(s)
    /\ UNCHANGED <<loopVars, lost, leaked, fd_status, interest, ready, nevents, peerVars>>

tp_server_start(s) ==
    /\ s \notin server_t_queue
    /\ StartMaster(s)
    /\ server_t_queue' = server_t_queue \cup {s}
    /\ slave_queue' = [slave_queue EXCEPT ![s] = {}]
    /\ UNCHANGED server_u_queue

up_server_start(u) ==
    /\ u \notin server_u_queue
    /\ StartMaster(u)
    /\ server_u_queue' = server_u_queue \cup {u}
    /\ UNCHANGED <<server_t_queue, slave_queue>>

-----------------------------------------------------------------------------
(* ep_io_poll up to epoll_wait.                                             *)

\* The timer callbacks of this iteration are over: ep_io_poll is entered.
EnterPoll ==
    /\ pc = "timers"
    /\ pc' = "watch"
    /\ UNCHANGED <<batch, queueVars, ioVars, kernelVars, peerVars>>

\* Mutants: the limit test is off by one, either way.
BelowLimitLate == nevents <= LOOP_EPOOL_MAX
BelowLimitEarly == nevents < LOOP_EPOOL_MAX - 1

\* One more descriptor may be watched.
BelowLimit == nevents < LOOP_EPOOL_MAX

\* The descriptor may be added: it is open and not registered yet.
CanAdd(f) == f \in Fds \ interest /\ owner[f] # NoSock

\* ep_ip_watcher_oper, one entry with EP_OPERATE_ADD.  At the limit the entry
\* is dropped.  EPOLL_CTL_ADD reports a descriptor that is already readable.
WatchAdd ==
    LET h == Head(watcher_queue)
        f == fd[h]
    IN  /\ operate[h] = "add"
        /\ IF BelowLimit /\ CanAdd(f)
           THEN /\ interest' = interest \cup {f}
                /\ ready' = IF Readable(owner[f]) THEN ready \cup {f} ELSE ready
                /\ nevents' = nevents + 1
           ELSE UNCHANGED <<interest, ready, nevents>>
        /\ UNCHANGED <<owner, conn, leaked>>

\* Mutant: the decrement is forgotten.
AfterDelForgot(n) == n

\* nevents once an EPOLL_CTL_DEL has succeeded.
AfterDel(n) == n - 1

\* Mutant: a DEL entry never closes.
ClosesNever(h) == FALSE

\* The descriptor a DEL entry closes: only one marked EP_FD_CLOSE.
Closes(h) == fd_status[h] = "close"

CloseFd(f) ==
    /\ owner' = [owner EXCEPT ![f] = NoSock]
    /\ conn' = [c \in Conns |-> IF c = owner[f] THEN "closed" ELSE conn[c]]

\* ep_ip_watcher_oper, one entry with EP_OPERATE_DEL: unregister, then close.
WatchDel ==
    LET h == Head(watcher_queue)
        f == fd[h]
    IN  /\ operate[h] = "del"
        /\ IF nevents > 0 /\ f \in interest
           THEN /\ interest' = interest \ {f}
                /\ ready' = ready \ {f}
                /\ nevents' = AfterDel(nevents)
                /\ IF Closes(h) THEN CloseFd(f) ELSE UNCHANGED <<owner, conn>>
           ELSE UNCHANGED <<interest, ready, nevents, owner, conn>>
        /\ UNCHANGED leaked

\* The entry's memory was freed and overwritten: fd and operate are garbage,
\* no epoll_ctl succeeds, nothing is closed.  They are what free() itself
\* overwrites in glibc, the first 16 bytes; the node's links are behind them
\* and stay until the block is handed out again, see FreeBlocks.
WatchGarbage ==
    /\ Dangling(Head(watcher_queue))
    /\ FALSE \in FreedIntact
    /\ leaked' = leaked \cup {fd[Head(watcher_queue)]}
    /\ UNCHANGED <<owner, interest, ready, nevents, conn>>

\* An entry that is intact: live, or freed with its bytes still in place.
EntryIntact == Dangling(Head(watcher_queue)) => TRUE \in FreedIntact

ep_ip_watcher_oper ==
    /\ pc = "watch"
    /\ watcher_queue # <<>>
    /\ \/ EntryIntact /\ WatchAdd
       \/ EntryIntact /\ WatchDel
       \/ WatchGarbage
    /\ watcher_queue' = Tail(watcher_queue)
    /\ UNCHANGED <<loopVars, server_t_queue, server_u_queue, slave_queue, lost,
                   ioVars, backlog, rx, peer, dgrams, bunched>>

\* With nothing registered ep_io_poll returns without waiting.
Poll ==
    /\ pc = "watch"
    /\ watcher_queue = <<>>
    /\ pc' = IF nevents <= 0 THEN "timers" ELSE "wait"
    /\ UNCHANGED <<batch, queueVars, ioVars, kernelVars, peerVars>>

\* epoll_wait returns the reportable edges; EPOLLET consumes them.
EpollWait ==
    /\ pc = "wait"
    /\ Reportable # {}
    /\ batch' = Reportable
    /\ ready' = {}
    /\ pc' = "dispatch"
    /\ UNCHANGED <<queueVars, ioVars, owner, interest, nevents, peerVars>>

\* epoll_wait ends with nothing to report: its timeout, or EINTR.
EpollTimeout ==
    /\ pc = "wait"
    /\ Reportable = {}
    /\ pc' = "timers"
    /\ UNCHANGED <<batch, queueVars, ioVars, kernelVars, peerVars>>

-----------------------------------------------------------------------------
(* The dispatch of one event.  Whatever the event is, the scan of every     *)
(* slave_queue frees the slaves closed by an earlier event.                 *)

\* Mutant: the scan does not look at fd_status.
DispatchableAny(x) == x \in Live

\* A slave an event can reach: linked in a slave_queue and not marked closed.
Dispatchable(x) == x \in Live /\ fd_status[x] = "open"

Dispatching(f) ==
    /\ pc = "dispatch"
    /\ f \in batch
    /\ batch' = batch \ {f}

\* tp_tcp_accept succeeds: one connection is taken, whatever the backlog holds.
\* The master is scanned before its slaves, so the new slave is in the scan.
AcceptOne(s) ==
    /\ backlog[s] # <<>>
    /\ \E x \in FreeBlocks, f \in Fds :
         /\ IsNewFd(f)
         /\ owner' = [owner EXCEPT ![f] = Head(backlog[s])]
         /\ fd' = [fd EXCEPT ![x] = f]
         /\ fd_status' = [fd_status EXCEPT ![x] = "open"]
         /\ operate' = [operate EXCEPT ![x] = "add"]
         /\ watcher_queue' = Enqueue(x)
         /\ slave_queue' = [t \in TcpServers |->
                              Unfreed(slave_queue[t]) \cup (IF t = s THEN {x} ELSE {})]
    /\ conn' = [conn EXCEPT ![Head(backlog[s])] = "open"]
    /\ backlog' = [backlog EXCEPT ![s] = Tail(@)]
    /\ UNCHANGED <<pc, lost>>

\* calloc fails: the connection stays in the backlog.
AcceptNoMemory ==
    /\ FreeBlocks = {}
    /\ Purge
    /\ UNCHANGED <<pc, lost, owner, ioVars, watcher_queue, conn, backlog>>

\* accept() fails with EMFILE.  `socket` is unsigned, so -1 passes the check;
\* cm_nonblock(-1) fails and cm_close(-1) asserts, or, without asserts,
\* returns an error and the slave is leaked.
AcceptNoDescriptor ==
    /\ FreeFds = {}
    /\ \E x \in FreeBlocks :
         IF WithDebug
         THEN pc' = "aborted" /\ UNCHANGED <<lost, slave_queue>>
         ELSE lost' = lost \cup {x} /\ Purge /\ UNCHANGED pc
    /\ UNCHANGED <<owner, ioVars, watcher_queue, conn, backlog>>

ep_tcp_server_process(s) ==
    /\ s \in server_t_queue
    /\ Dispatching(fd[s])
    /\ \/ AcceptOne(s)
       \/ AcceptNoMemory
       \/ AcceptNoDescriptor
    /\ UNCHANGED <<server_t_queue, server_u_queue, leaked, interest, ready, nevents, rx, peer,
                   dgrams, bunched>>

\* Mutants: one unit of the buffer is kept back; the full length is reported.
ReadLengthShort(n) == IF n < BufLen - 1 THEN n ELSE BufLen - 1
ReadLengthFull(n) == BufLen

\* What read(socket, base, len) takes of n waiting units.
ReadLength(n) == IF n < BufLen THEN n ELSE BufLen

\* Mutants: a short read is taken for the end of the stream; read() = 0 is not.
EndOfStreamShort(n) == n < BufLen
EndOfStreamNegative(n) == n < 0

\* read() returned 0 or -1, as opposed to some units of data.
EndOfStream(n) == n <= 0

\* nread > 0: the read callback runs; it answers but changes no loop state.
ReadData(x, n) ==
    /\ rx' = [rx EXCEPT ![owner[fd[x]]] = @ - n]
    /\ UNCHANGED <<ioVars, watcher_queue>>

\* nread <= 0: the slave is marked and queued for DEL; a later scan frees it.
MarkClosed(x) ==
    /\ fd_status' = [fd_status EXCEPT ![x] = "close"]
    /\ operate' = [operate EXCEPT ![x] = "del"]
    /\ watcher_queue' = Enqueue(x)
    /\ UNCHANGED <<fd, rx>>

ep_tcp_server_slave_process(x) ==
    /\ Dispatchable(x)
    /\ Dispatching(fd[x])
    /\ owner[fd[x]] \in Conns
    /\ LET n == ReadLength(rx[owner[fd[x]]])
       IN  IF EndOfStream(n) THEN MarkClosed(x) ELSE ReadData(x, n)
    /\ Purge
    /\ UNCHANGED <<pc, server_t_queue, server_u_queue, lost, leaked, kernelVars,
                   backlog, conn, peer, dgrams, bunched>>

\* Mutant: the datagram is looked at and left in the socket.
up_udp_recvmsgPeek(u) == dgrams' = dgrams

\* up_udp_recvmsg: one datagram goes to the callback.
up_udp_recvmsg(u) == dgrams' = [dgrams EXCEPT ![u] = IF @ > 0 THEN @ - 1 ELSE 0]

\* One recvmsg per event, whatever is waiting.
ep_udp_server_process(u) ==
    /\ u \in server_u_queue
    /\ Dispatching(fd[u])
    /\ up_udp_recvmsg(u)
    /\ bunched' = IF dgrams'[u] = 0 THEN bunched \ {u} ELSE bunched
    /\ Purge
    /\ UNCHANGED <<pc, server_t_queue, server_u_queue, watcher_queue, lost, leaked, ioVars,
                   kernelVars, backlog, conn, rx, peer>>

\* An event no handle answers to: the scans run, nothing is read.
StrayEvent(f) ==
    /\ Dispatching(f)
    /\ \A s \in server_t_queue \cup server_u_queue : fd[s] # f
    /\ \A x \in Live : Dispatchable(x) => fd[x] # f
    /\ Purge
    /\ UNCHANGED <<pc, server_t_queue, server_u_queue, watcher_queue, lost, leaked, ioVars,
                   kernelVars, peerVars>>

EndDispatch ==
    /\ pc = "dispatch"
    /\ batch = {}
    /\ pc' = "timers"
    /\ UNCHANGED <<batch, queueVars, ioVars, kernelVars, peerVars>>

-----------------------------------------------------------------------------
(* The peers.                                                               *)

Connect(c, s) ==
    /\ conn[c] = "idle"
    /\ s \in server_t_queue
    /\ Len(backlog[s]) < TCP_CONN_MAX
    /\ conn' = [conn EXCEPT ![c] = "queued"]
    /\ backlog' = [backlog EXCEPT ![s] = Append(@, c)]
    /\ RaiseEdge(s)
    /\ UNCHANGED <<loopVars, queueVars, ioVars, owner, interest, nevents, rx, peer,
                   dgrams, bunched>>

Connected(c) == conn[c] \in {"queued", "open"}

PeerSends(c) ==
    /\ Connected(c)
    /\ peer[c] = "alive"
    /\ rx[c] < MaxRx
    /\ rx' = [rx EXCEPT ![c] = @ + 1]
    /\ RaiseEdge(c)
    /\ UNCHANGED <<loopVars, queueVars, ioVars, owner, interest, nevents,
                   backlog, conn, peer, dgrams, bunched>>

PeerCloses(c) ==
    /\ Connected(c)
    /\ peer[c] = "alive"
    /\ peer' = [peer EXCEPT ![c] = "fin"]
    /\ RaiseEdge(c)
    /\ UNCHANGED <<loopVars, queueVars, ioVars, owner, interest, nevents,
                   backlog, conn, rx, dgrams, bunched>>

\* A reset discards what was not read.
PeerResets(c) ==
    /\ Connected(c)
    /\ peer[c] # "rst"
    /\ peer' = [peer EXCEPT ![c] = "rst"]
    /\ rx' = [rx EXCEPT ![c] = 0]
    /\ RaiseEdge(c)
    /\ UNCHANGED <<loopVars, queueVars, ioVars, owner, interest, nevents,
                   backlog, conn, dgrams, bunched>>

SendDgram(u) ==
    /\ u \in server_u_queue
    /\ dgrams[u] < MaxDgrams
    /\ dgrams' = [dgrams EXCEPT ![u] = @ + 1]
    /\ bunched' = IF dgrams[u] > 0 THEN bunched \cup {u} ELSE bunched
    /\ RaiseEdge(u)
    /\ UNCHANGED <<loopVars, queueVars, ioVars, owner, interest, nevents,
                   backlog, conn, rx, peer>>

-----------------------------------------------------------------------------

\* Every step of the dispatch phase.
Dispatch ==
    \/ \E s \in TcpServers : ep_tcp_server_process(s)
    \/ \E x \in Slaves : ep_tcp_server_slave_process(x)
    \/ \E u \in UdpServers : ep_udp_server_process(u)
    \/ \E f \in Fds : StrayEvent(f)
    \/ EndDispatch

LoopStep ==
    \/ EnterPoll
    \/ ep_ip_watcher_oper
    \/ Poll
    \/ EpollWait
    \/ Dispatch

Start ==
    \/ \E s \in TcpServers : tp_server_start(s)
    \/ \E u \in UdpServers : up_server_start(u)
    \/ \E s \in TcpServers \cup UdpServers : StartFails(s)

PeerStep ==
    \/ \E c \in Conns, s \in TcpServers : Connect(c, s)
    \/ \E c \in Conns : PeerSends(c) \/ PeerCloses(c) \/ PeerResets(c)
    \/ \E u \in UdpServers : SendDgram(u)

Next == LoopStep \/ EpollTimeout \/ Start \/ PeerStep

Spec == Init /\ [][Next]_vars

\* The loop's thread keeps running; peers, callers and timeouts promise nothing.
FairSpec == Spec /\ WF_vars(LoopStep)

-----------------------------------------------------------------------------
(* What the server promises.                                                *)

\* The handles an event of epoll can reach.
Reachable == server_t_queue \cup server_u_queue \cup {x \in Live : Dispatchable(x)}

\* The loop's own count of registrations (loop.h:18) is exact, so the limit
\* test of ep_ip_watcher_oper and the "nothing registered" test of ep_io_poll
\* decide on the truth, and the limit is never exceeded.
NeventsExact == nevents = Cardinality(interest) /\ nevents <= LOOP_EPOOL_MAX

\* The dispatch finds a handle by comparing descriptor numbers, which the
\* kernel reuses.  No two reachable handles carry the same number, and the
\* descriptor a handle carries is open on that handle's own socket: an event
\* never reaches another connection's handle.
HandlesOwnFds ==
    /\ \A g, h \in Reachable : fd[g] = fd[h] => g = h
    /\ \A s \in server_t_queue \cup server_u_queue : fd[s] \in Fds /\ owner[fd[s]] = s
    /\ \A x \in Reachable \cap Slaves :
         fd[x] \in Fds /\ owner[fd[x]] \in Conns /\ conn[owner[fd[x]]] = "open"

\* Edge-triggered reading loses no wake-up for data as long as one read can
\* empty the receive queue: a watched connection with unread data has an edge
\* pending in the kernel or an event pending in the batch, also when the data
\* came between accept() and EPOLL_CTL_ADD or between epoll_wait and read().
NoLostBytes ==
    BufLen >= MaxRx =>
      \A x \in Reachable \cap Slaves :
        fd[x] \in interest /\ rx[owner[fd[x]]] > 0 => fd[x] \in ready \cup batch

\* The same of datagrams, of which one event takes one: unless one came before
\* the one ahead of it was taken, a waiting datagram is announced, and once
\* such a bunch is taken, with later events, the next one is again.
NoLostDatagram ==
    \A u \in server_u_queue \ bunched :
      fd[u] \in interest /\ dgrams[u] > 0 => fd[u] \in ready \cup batch

\* When the loop goes to sleep, everything it promised to watch is watched,
\* as long as there are fewer descriptors than LOOP_EPOOL_MAX.
AllWatched ==
    pc = "wait" /\ LOOP_EPOOL_MAX >= Cardinality(Fds) =>
      \A h \in Reachable : fd[h] \in interest

\* Every connection the process holds open still has a handle or a queued
\* DEL entry that will close it: no descriptor leaks, but for those whose DEL
\* entry was read after its slave was freed and its memory overwritten.
NoOrphan ==
    \A f \in Fds \ leaked : owner[f] \in Conns =>
      \/ \E x \in Live : Dispatchable(x) /\ fd[x] = f
      \/ \E h \in Queued : fd[h] = f /\ fd_status[h] = "close" /\ f \in interest

\* The server never closes a connection on which the peer still has
\* something to say: only after FIN or RST, with everything received read.
OnlyFinishedClosed ==
    [][\A c \in Conns : conn[c] = "open" /\ conn'[c] = "closed" =>
         peer[c] # "alive" /\ rx[c] = 0]_vars

\* An arrival on a connection being served is read eventually, and an end
\* of stream that was noticed ends with the descriptor closed.
DataIsRead ==
    \A x \in Slaves :
      (Dispatchable(x) /\ fd[x] \in interest /\ rx[owner[fd[x]]] > 0)
        ~> (~Dispatchable(x) \/ rx[owner[fd[x]]] = 0)

\* A connection whose end was noticed does not stay open.
ClosedIsReleased ==
    \A c \in Conns :
      (\E x \in Live : fd_status[x] = "close" /\ fd[x] \in Fds /\ owner[fd[x]] = c)
        ~> conn[c] = "closed"

\* A connection that completed its handshake is accepted, although one event
\* accepts one connection, when connections come one at a time and memory and
\* descriptors last.  EpollBurst drops the first condition.
AcceptedOneByOne ==
    [](FreeFds # {} /\ FreeBlocks # {}) /\ [](\A s \in TcpServers : Len(backlog[s]) <= 1) =>
      \A c \in Conns : conn[c] = "queued" ~> conn[c] # "queued"

\* A peer that has closed is noticed, although one event reads one buffer, when
\* everything it sent was read before it closed.
EofNoticed ==
    \A c \in Conns :
      [](peer[c] = "alive" \/ rx[c] = 0) =>
        (conn[c] = "open" /\ peer[c] # "alive" ~> conn[c] = "closed")

-----------------------------------------------------------------------------
(* What the repository says of the program, and the program does not do.    *)

\* queue.h:18: the list QUEUE_FOREACH iterates over must not be mutated while
\* it does.  A dispatch step is such an iteration over every slave_queue.
ForeachListStable ==
    [][pc = "dispatch" => \A s \in TcpServers : slave_queue[s] \subseteq slave_queue'[s]]_vars

\* README.md:8: high concurrency and timely response.  A connection that
\* completed its handshake is accepted eventually, if descriptors and memory
\* never run out.
EveryConnectionAccepted ==
    [](FreeFds # {} /\ FreeBlocks # {}) =>
      \A c \in Conns : conn[c] = "queued" ~> conn[c] # "queued"

=============================================================================
