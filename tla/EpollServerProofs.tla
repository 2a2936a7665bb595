------------------------- MODULE EpollServerProofs -------------------------
(* Proofs about the servers of EpollServer, for any number of servers,      *)
(* slaves, peers and descriptors and any limits.                            *)
EXTENDS EpollServer, FiniteSetTheorems, TLAPS

-----------------------------------------------------------------------------
(* Types.                                                                   *)

\* The scan of the slave queues keeps them sets of slaves.
LEMMA PurgeType ==
    ASSUME slave_queue \in [TcpServers -> SUBSET Slaves], Purge
    PROVE  slave_queue' \in [TcpServers -> SUBSET Slaves]
  BY DEF Purge, Unfreed

LEMMA EnqueueType ==
    ASSUME watcher_queue \in Seq(Handles), NEW h \in Handles
    PROVE  Enqueue(h) \in Seq(Handles)
  BY DEF Enqueue

\* A start puts the descriptor of a server into its handle.
LEMMA StartMasterType ==
    ASSUME TypeOK, NEW s \in TcpServers \cup UdpServers, StartMaster(s)
    PROVE  /\ UNCHANGED <<loopVars, lost, leaked, fd_status, interest, ready, nevents, peerVars>>
           /\ owner' \in [Fds -> Sockets \cup {NoSock}]
           /\ fd' \in [Handles -> Fds \cup {-1}]
           /\ operate' \in [Handles -> {"none", "add", "del"}]
           /\ watcher_queue' \in Seq(Handles)
<1>1. s \in Handles /\ s \in Sockets
  BY DEF Handles, Sockets
<1>2. PICK f \in Fds : net_socket(s, f) /\ fd' = [fd EXCEPT ![s] = f]
  BY DEF StartMaster
<1>3. owner' = [owner EXCEPT ![f] = s]
  BY <1>2 DEF net_socket
<1>4. /\ operate' = [operate EXCEPT ![s] = "add"]
      /\ watcher_queue' = Enqueue(s)
      /\ UNCHANGED <<loopVars, lost, leaked, fd_status, interest, ready, nevents, peerVars>>
  BY DEF StartMaster
<1>5. fd' \in [Handles -> Fds \cup {-1}]
  BY <1>1, <1>2 DEF TypeOK
<1>6. owner' \in [Fds -> Sockets \cup {NoSock}]
  BY <1>1, <1>3 DEF TypeOK
<1>7. operate' \in [Handles -> {"none", "add", "del"}]
  BY <1>1, <1>4 DEF TypeOK
<1>8. watcher_queue' \in Seq(Handles)
  BY <1>1, <1>4, EnqueueType DEF TypeOK
<1> QED
  BY <1>4, <1>5, <1>6, <1>7, <1>8

LEMMA StartType == TypeOK /\ Start => TypeOK'
<1> SUFFICES ASSUME TypeOK, Start PROVE TypeOK'
  OBVIOUS
<1>1. ASSUME NEW s \in TcpServers, tp_server_start(s) PROVE TypeOK'
  <2>1. StartMaster(s)
    BY <1>1 DEF tp_server_start
  <2>2. /\ server_t_queue' \in SUBSET TcpServers
        /\ slave_queue' \in [TcpServers -> SUBSET Slaves]
        /\ server_u_queue' = server_u_queue
    BY <1>1 DEF tp_server_start, TypeOK
  <2> QED
    BY <2>1, <2>2, StartMasterType DEF TypeOK, loopVars, peerVars
<1>2. ASSUME NEW u \in UdpServers, up_server_start(u) PROVE TypeOK'
  <2>1. StartMaster(u)
    BY <1>2 DEF up_server_start
  <2>2. /\ server_u_queue' \in SUBSET UdpServers
        /\ server_t_queue' = server_t_queue /\ slave_queue' = slave_queue
    BY <1>2 DEF up_server_start, TypeOK
  <2> QED
    BY <2>1, <2>2, StartMasterType DEF TypeOK, loopVars, peerVars
<1>3. ASSUME NEW s \in TcpServers \cup UdpServers, StartFails(s) PROVE TypeOK'
  <2>1. PICK f \in Fds : net_socket(s, f)
    BY <1>3 DEF StartFails
  <2>2. owner' \in [Fds -> Sockets \cup {NoSock}]
    BY <2>1 DEF net_socket, Sockets, TypeOK
  <2> QED
    BY <1>3, <2>2 DEF StartFails, TypeOK, loopVars, queueVars, ioVars, peerVars
<1> QED
  BY <1>1, <1>2, <1>3 DEF Start

\* One entry of the watcher queue.
LEMMA WatchType == TypeOK /\ ep_ip_watcher_oper => TypeOK'
<1> SUFFICES ASSUME TypeOK, ep_ip_watcher_oper PROVE TypeOK'
  OBVIOUS
<1>1. /\ watcher_queue' = Tail(watcher_queue) /\ watcher_queue # <<>>
      /\ UNCHANGED <<loopVars, server_t_queue, server_u_queue, slave_queue, lost,
                     ioVars, backlog, rx, peer, dgrams, bunched>>
  BY DEF ep_ip_watcher_oper
<1>2. watcher_queue' \in Seq(Handles)
  BY <1>1 DEF TypeOK
<1>3. /\ owner' \in [Fds -> Sockets \cup {NoSock}]
      /\ interest' \in SUBSET Fds
      /\ ready' \in SUBSET Fds
      /\ nevents' \in Int
      /\ conn' \in [Conns -> {"idle", "queued", "open", "closed"}]
      /\ leaked' \in SUBSET (Fds \cup {-1})
  <2>1. CASE WatchAdd
    BY <2>1 DEF WatchAdd, CanAdd, TypeOK
  <2>2. CASE WatchDel
    <3>1. leaked' = leaked
      BY <2>2 DEF WatchDel
    <3>2. /\ interest' \in SUBSET Fds
          /\ ready' \in SUBSET Fds
          /\ nevents' \in Int
      BY <2>2 DEF WatchDel, AfterDel, TypeOK
    <3>3. /\ owner' \in [Fds -> Sockets \cup {NoSock}]
          /\ conn' \in [Conns -> {"idle", "queued", "open", "closed"}]
      BY <2>2 DEF WatchDel, CloseFd, TypeOK
    <3> QED
      BY <3>1, <3>2, <3>3 DEF TypeOK
  <2>3. CASE WatchGarbage
    <3>1. leaked' \in SUBSET (Fds \cup {-1})
      <4>1. leaked' = leaked \cup {fd[Head(watcher_queue)]}
        BY <2>3 DEF WatchGarbage
      <4>2. Head(watcher_queue) \in Handles
        BY <1>1 DEF TypeOK
      <4> QED
        BY <4>1, <4>2 DEF TypeOK
    <3> QED
      BY <2>3, <3>1 DEF WatchGarbage, TypeOK
  <2> QED
    BY <2>1, <2>2, <2>3 DEF ep_ip_watcher_oper
<1> QED
  BY <1>1, <1>2, <1>3 DEF TypeOK, loopVars, ioVars

LEMMA AcceptType ==
    ASSUME TypeOK, NEW s \in TcpServers, ep_tcp_server_process(s)
    PROVE  TypeOK'
<1>1. /\ batch' \in SUBSET Fds
      /\ UNCHANGED <<server_t_queue, server_u_queue, leaked, interest, ready, nevents, rx, peer,
                     dgrams, bunched>>
  BY DEF ep_tcp_server_process, Dispatching, TypeOK
<1>2. CASE AcceptOne(s)
  <2>1. PICK x \in FreeBlocks, f \in Fds :
          /\ owner' = [owner EXCEPT ![f] = Head(backlog[s])]
          /\ fd' = [fd EXCEPT ![x] = f]
          /\ fd_status' = [fd_status EXCEPT ![x] = "open"]
          /\ operate' = [operate EXCEPT ![x] = "add"]
          /\ watcher_queue' = Enqueue(x)
          /\ slave_queue' = [t \in TcpServers |->
                               Unfreed(slave_queue[t]) \cup (IF t = s THEN {x} ELSE {})]
    BY <1>2 DEF AcceptOne
  <2>2. /\ backlog[s] # <<>>
        /\ conn' = [conn EXCEPT ![Head(backlog[s])] = "open"]
        /\ backlog' = [backlog EXCEPT ![s] = Tail(@)]
        /\ UNCHANGED <<pc, lost>>
    BY <1>2 DEF AcceptOne
  <2>3. x \in Slaves /\ x \in Handles
    BY DEF FreeBlocks, Handles
  <2>4. backlog[s] \in Seq(Conns)
    BY DEF TypeOK
  <2>5. Head(backlog[s]) \in Conns /\ Tail(backlog[s]) \in Seq(Conns)
    BY <2>2, <2>4
  <2>6. owner' \in [Fds -> Sockets \cup {NoSock}]
    BY <2>1, <2>5 DEF Sockets, TypeOK
  <2>7. /\ fd' \in [Handles -> Fds \cup {-1}]
        /\ fd_status' \in [Handles -> {"open", "close"}]
        /\ operate' \in [Handles -> {"none", "add", "del"}]
    BY <2>1, <2>3 DEF TypeOK
  <2>8. watcher_queue' \in Seq(Handles)
    BY <2>1, <2>3, EnqueueType DEF TypeOK
  <2>9. slave_queue' \in [TcpServers -> SUBSET Slaves]
    BY <2>1, <2>3 DEF Unfreed, TypeOK
  <2>10. /\ conn' \in [Conns -> {"idle", "queued", "open", "closed"}]
         /\ backlog' \in [TcpServers -> Seq(Conns)]
    BY <2>2, <2>5 DEF TypeOK
  <2> QED
    BY <1>1, <2>2, <2>6, <2>7, <2>8, <2>9, <2>10 DEF TypeOK
<1>3. CASE AcceptNoMemory
  BY <1>1, <1>3, PurgeType DEF AcceptNoMemory, TypeOK, ioVars
<1>4. CASE AcceptNoDescriptor
  <2>1. PICK x \in FreeBlocks :
          IF WithDebug
          THEN pc' = "aborted" /\ UNCHANGED <<lost, slave_queue>>
          ELSE lost' = lost \cup {x} /\ Purge /\ UNCHANGED pc
    BY <1>4 DEF AcceptNoDescriptor
  <2>2. x \in Slaves
    BY DEF FreeBlocks
  <2>3. /\ pc' \in {"timers", "watch", "wait", "dispatch", "aborted"}
        /\ lost' \in SUBSET Slaves
        /\ slave_queue' \in [TcpServers -> SUBSET Slaves]
    BY <2>1, <2>2, PurgeType DEF TypeOK
  <2> QED
    BY <1>1, <1>4, <2>3 DEF AcceptNoDescriptor, TypeOK, ioVars
<1> QED
  BY <1>2, <1>3, <1>4 DEF ep_tcp_server_process

LEMMA SlaveType ==
    ASSUME TypeOK, NEW x \in Slaves, ep_tcp_server_slave_process(x)
    PROVE  TypeOK'
<1> DEFINE n == ReadLength(rx[owner[fd[x]]])
<1>1. /\ batch' \in SUBSET Fds
      /\ UNCHANGED <<pc, server_t_queue, server_u_queue, lost, leaked, kernelVars,
                     backlog, conn, peer, dgrams, bunched>>
      /\ slave_queue' \in [TcpServers -> SUBSET Slaves]
  BY PurgeType DEF ep_tcp_server_slave_process, Dispatching, TypeOK
<1>2. owner[fd[x]] \in Conns /\ x \in Handles
  BY DEF ep_tcp_server_slave_process, Handles
<1>3. CASE MarkClosed(x)
  <2>1. /\ fd_status' \in [Handles -> {"open", "close"}]
        /\ operate' \in [Handles -> {"none", "add", "del"}]
        /\ watcher_queue' \in Seq(Handles)
        /\ fd' = fd /\ rx' = rx
    BY <1>2, <1>3, EnqueueType DEF MarkClosed, TypeOK
  <2> QED
    BY <1>1, <2>1 DEF TypeOK, kernelVars
<1>4. CASE ReadData(x, n)
  <2>1. rx[owner[fd[x]]] \in Nat
    BY <1>2 DEF TypeOK
  <2>2. rx[owner[fd[x]]] - n \in Nat
    BY <2>1, BoundsAssumption DEF ReadLength
  <2> HIDE DEF n
  <2>3. rx' \in [Conns -> Nat]
    BY <1>2, <1>4, <2>2 DEF ReadData, TypeOK
  <2> QED
    BY <1>1, <1>4, <2>3 DEF ReadData, TypeOK, kernelVars, ioVars
<1> QED
  BY <1>3, <1>4 DEF ep_tcp_server_slave_process

LEMMA DispatchType == TypeOK /\ Dispatch => TypeOK'
<1> SUFFICES ASSUME TypeOK, Dispatch PROVE TypeOK'
  OBVIOUS
<1>1. ASSUME NEW u \in UdpServers, ep_udp_server_process(u) PROVE TypeOK'
  <2>1. /\ batch' \in SUBSET Fds
        /\ slave_queue' \in [TcpServers -> SUBSET Slaves]
        /\ dgrams' \in [UdpServers -> Nat]
        /\ bunched' \in SUBSET UdpServers
    BY <1>1, PurgeType DEF ep_udp_server_process, up_udp_recvmsg, Dispatching, TypeOK
  <2> QED
    BY <1>1, <2>1 DEF ep_udp_server_process, TypeOK, ioVars, kernelVars
<1>2. ASSUME NEW f \in Fds, StrayEvent(f) PROVE TypeOK'
  <2>1. batch' \in SUBSET Fds /\ slave_queue' \in [TcpServers -> SUBSET Slaves]
    BY <1>2, PurgeType DEF StrayEvent, Dispatching, TypeOK
  <2> QED
    BY <1>2, <2>1 DEF StrayEvent, TypeOK, ioVars, kernelVars, peerVars
<1>3. CASE EndDispatch
  BY <1>3 DEF EndDispatch, TypeOK, queueVars, ioVars, kernelVars, peerVars
<1> QED
  BY <1>1, <1>2, <1>3, AcceptType, SlaveType DEF Dispatch

LEMMA PollType == TypeOK /\ (EnterPoll \/ Poll \/ EpollWait \/ EpollTimeout) => TypeOK'
  BY DEF EnterPoll, Poll, EpollWait, EpollTimeout, Reportable, TypeOK, queueVars, ioVars,
         kernelVars, peerVars

LEMMA PeerType == TypeOK /\ PeerStep => TypeOK'
<1> SUFFICES ASSUME TypeOK, PeerStep PROVE TypeOK'
  OBVIOUS
<1>1. ASSUME NEW s \in Sockets, RaiseEdge(s) PROVE ready' \in SUBSET Fds
  BY <1>1 DEF RaiseEdge, TypeOK
<1>2. ASSUME NEW c \in Conns, NEW s \in TcpServers, Connect(c, s) PROVE TypeOK'
  <2>1. /\ conn' \in [Conns -> {"idle", "queued", "open", "closed"}]
        /\ backlog' \in [TcpServers -> Seq(Conns)]
    BY <1>2 DEF Connect, TypeOK
  <2> QED
    BY <1>1, <1>2, <2>1 DEF Connect, Sockets, TypeOK, loopVars, queueVars, ioVars
<1>3. ASSUME NEW c \in Conns, PeerSends(c) PROVE TypeOK'
  BY <1>1, <1>3 DEF PeerSends, Sockets, TypeOK, loopVars, queueVars, ioVars
<1>4. ASSUME NEW c \in Conns, PeerCloses(c) PROVE TypeOK'
  BY <1>1, <1>4 DEF PeerCloses, Sockets, TypeOK, loopVars, queueVars, ioVars
<1>5. ASSUME NEW c \in Conns, PeerResets(c) PROVE TypeOK'
  BY <1>1, <1>5 DEF PeerResets, Sockets, TypeOK, loopVars, queueVars, ioVars
<1>6. ASSUME NEW u \in UdpServers, SendDgram(u) PROVE TypeOK'
  BY <1>1, <1>6 DEF SendDgram, Sockets, TypeOK, loopVars, queueVars, ioVars
<1> QED
  BY <1>2, <1>3, <1>4, <1>5, <1>6 DEF PeerStep

\* Every variable of the server stays in its range.
THEOREM TypeCorrect == Spec => []TypeOK
<1>1. Init => TypeOK
  BY DEF Init, TypeOK
<1>2. TypeOK /\ [Next]_vars => TypeOK'
  <2>1. TypeOK /\ UNCHANGED vars => TypeOK'
    BY DEF vars, TypeOK, loopVars, queueVars, ioVars, kernelVars, peerVars
  <2> QED
    BY <2>1, StartType, WatchType, DispatchType, PollType, PeerType DEF Next, LoopStep
<1> QED
  BY <1>1, <1>2, PTL DEF Spec

-----------------------------------------------------------------------------
(* The count of registrations.                                              *)

\* nevents is the size of the kernel's set after every entry of the watcher
\* queue, since every path that changes one changes the other.
LEMMA CountStep == TypeOK /\ NeventsExact /\ [Next]_vars => NeventsExact'
<1> SUFFICES ASSUME TypeOK, NeventsExact, [Next]_vars PROVE NeventsExact'
  OBVIOUS
<1>1. IsFiniteSet(interest)
  BY FdsAssumption, FS_Subset DEF TypeOK
<1>2. CASE UNCHANGED <<nevents, interest>>
  BY <1>2 DEF NeventsExact
<1>3. CASE ep_ip_watcher_oper
  <2> DEFINE f == fd[Head(watcher_queue)]
  <2>1. CASE WatchAdd /\ BelowLimit /\ CanAdd(f)
    <3>1. interest' = interest \cup {f} /\ nevents' = nevents + 1 /\ f \notin interest
      BY <2>1 DEF WatchAdd, CanAdd
    <3>2. Cardinality(interest \cup {f}) = Cardinality(interest) + 1
      BY <1>1, <3>1, FS_AddElement
    <3> QED
      BY <2>1, <3>1, <3>2, BoundsAssumption DEF BelowLimit, NeventsExact, TypeOK
  <2>2. CASE WatchDel /\ nevents > 0 /\ f \in interest
    <3>1. interest' = interest \ {f} /\ nevents' = nevents - 1
      BY <2>2 DEF WatchDel, AfterDel
    <3>2. Cardinality(interest \ {f}) = Cardinality(interest) - 1
      BY <1>1, <2>2, FS_RemoveElement
    <3> QED
      BY <3>1, <3>2, BoundsAssumption DEF NeventsExact, TypeOK
  <2>3. CASE UNCHANGED <<nevents, interest>>
    BY <2>3, <1>2
  <2> QED
    BY <1>3, <2>1, <2>2, <2>3 DEF ep_ip_watcher_oper, WatchAdd, WatchDel, WatchGarbage
<1>4. ASSUME NEW s \in TcpServers, ep_tcp_server_process(s) PROVE UNCHANGED <<nevents, interest>>
  BY <1>4 DEF ep_tcp_server_process
<1>5. Dispatch => UNCHANGED <<nevents, interest>>
  BY <1>4 DEF Dispatch, ep_tcp_server_slave_process, ep_udp_server_process, StrayEvent,
              EndDispatch, kernelVars
<1>6. Start => UNCHANGED <<nevents, interest>>
  BY DEF Start, tp_server_start, up_server_start, StartMaster, StartFails
<1>7. PeerStep => UNCHANGED <<nevents, interest>>
  BY DEF PeerStep, Connect, PeerSends, PeerCloses, PeerResets, SendDgram
<1>8. EnterPoll \/ Poll \/ EpollWait \/ EpollTimeout \/ UNCHANGED vars
        => UNCHANGED <<nevents, interest>>
  BY DEF EnterPoll, Poll, EpollWait, EpollTimeout, vars, kernelVars
<1> QED
  BY <1>2, <1>3, <1>5, <1>6, <1>7, <1>8 DEF Next, LoopStep

\* The count of registrations is exact and stays within LOOP_EPOOL_MAX.
THEOREM CountKept == Spec => []NeventsExact
<1>1. Init => NeventsExact
  BY FS_EmptySet, BoundsAssumption DEF Init, NeventsExact
<1> QED
  BY <1>1, CountStep, TypeCorrect, PTL DEF Spec

=============================================================================
