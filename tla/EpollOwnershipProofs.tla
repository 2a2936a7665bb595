------------------------ MODULE EpollOwnershipProofs ------------------------
(* Who owns a descriptor: the safety of the dispatch by descriptor number,  *)
(* for any number of servers, slaves, peers and descriptors, whatever freed *)
(* memory holds.                                                            *)
EXTENDS EpollServerProofs

\* The handles that carry a descriptor of their own: those an event can
\* reach, and those with an entry in watcher_queue.
Holders == Reachable \cup Queued

\* Each of them carries a different descriptor, open on its own socket.
Own ==
    /\ \A g, h \in Holders : fd[g] = fd[h] => g = h
    /\ \A h \in Holders : fd[h] \in Fds
    /\ \A h \in Holders \ Slaves : owner[fd[h]] = h
    /\ \A x \in Holders \cap Slaves : owner[fd[x]] \in Conns

\* An open connection has one descriptor; one that waits is in one backlog,
\* once.
OneDescriptor ==
    /\ \A f \in Fds : owner[f] \in Conns => conn[owner[f]] = "open"
    /\ \A f, g \in Fds : owner[f] \in Conns /\ owner[f] = owner[g] => f = g

OneBacklog ==
    /\ \A s \in TcpServers : \A i \in DOMAIN backlog[s] : conn[backlog[s][i]] = "queued"
    /\ \A s, t \in TcpServers : \A i \in DOMAIN backlog[s], j \in DOMAIN backlog[t] :
         backlog[s][i] = backlog[t][j] => s = t /\ i = j

NoDup == \A i, j \in DOMAIN watcher_queue : watcher_queue[i] = watcher_queue[j] => i = j

\* An ADD entry is not watched yet; a DEL entry belongs to a slave whose peer
\* has ended and whose bytes are read.
Entries ==
    /\ Queued \subseteq Slaves \cup server_t_queue \cup server_u_queue
    /\ \A h \in Queued :
         \/ operate[h] = "add" /\ fd[h] \notin interest
         \/ /\ operate[h] = "del" /\ h \in Slaves /\ fd_status[h] = "close"
            /\ peer[owner[fd[h]]] # "alive" /\ rx[owner[fd[h]]] = 0

\* Edges and events are of open, watched descriptors, and an event stays
\* readable until it is dispatched.
Events ==
    /\ \A f \in interest : owner[f] # NoSock
    /\ ready \subseteq interest
    /\ batch \subseteq interest
    /\ batch # {} => pc \in {"dispatch", "aborted"}
    /\ \A f \in batch : owner[f] \in Conns => rx[owner[f]] > 0 \/ peer[owner[f]] # "alive"
    /\ \A c \in Conns : rx[c] <= MaxRx

IInv == Own /\ OneDescriptor /\ OneBacklog /\ NoDup /\ Entries /\ Events

-----------------------------------------------------------------------------
(* Queues, handles and descriptors.                                         *)

LEMMA QueueAppend ==
    ASSUME TypeOK, NEW h \in Handles, watcher_queue' = Enqueue(h)
    PROVE  /\ Queued' = Queued \cup {h}
           /\ NoDup /\ h \notin Queued => NoDup'
<1> DEFINE q == watcher_queue
<1>1. q \in Seq(Handles) /\ q' = Append(q, h)
  BY DEF TypeOK, Enqueue
<1>2. /\ DOMAIN q = 1..Len(q) /\ DOMAIN q' = 1..(Len(q) + 1) /\ Len(q) \in Nat
      /\ q'[Len(q) + 1] = h
      /\ \A i \in DOMAIN q : q'[i] = q[i]
  BY <1>1
<1> QED
  BY <1>2 DEF Queued, NoDup

LEMMA QueueTail ==
    ASSUME TypeOK, watcher_queue # <<>>, watcher_queue' = Tail(watcher_queue)
    PROVE  /\ Head(watcher_queue) \in Queued
           /\ Queued' \subseteq Queued
           /\ NoDup => NoDup' /\ Head(watcher_queue) \notin Queued'
<1> DEFINE q == watcher_queue
<1>1. q \in Seq(Handles) /\ q # <<>> /\ q' = Tail(q)
  BY DEF TypeOK
<1>2. /\ DOMAIN q = 1..Len(q) /\ DOMAIN q' = 1..(Len(q) - 1) /\ Len(q) \in Nat \ {0}
      /\ Head(q) = q[1]
      /\ \A i \in DOMAIN q' : q'[i] = q[i + 1]
  BY <1>1
<1>3. Head(q) \in Queued /\ Queued' \subseteq Queued
  BY <1>2 DEF Queued
<1>4. ASSUME NoDup PROVE NoDup' /\ Head(q) \notin Queued'
  BY <1>2, <1>4 DEF Queued, NoDup
<1> QED
  BY <1>3, <1>4

\* The scan leaves no handle to reach that was not there before.
LEMMA PurgeReaches ==
    ASSUME TypeOK, Purge, UNCHANGED <<server_t_queue, server_u_queue>>,
           \A x \in Slaves : fd_status'[x] = "open" => fd_status[x] = "open"
    PROVE  Reachable' \subseteq Reachable
<1>1. Live' \subseteq Live
  BY DEF Purge, Unfreed, Live, TypeOK
<1>2. Live' \subseteq Slaves
  BY <1>1 DEF Live, TypeOK
<1> QED
  BY <1>1, <1>2 DEF Reachable, Dispatchable

\* A handle that holds a descriptor holds an open one.
LEMMA HoldersOpen ==
    ASSUME TypeOK, Own
    PROVE  \A h \in Holders : h \in Handles /\ fd[h] \in Fds /\ owner[fd[h]] # NoSock
<1>1. Reachable \subseteq Handles
  BY DEF Reachable, Dispatchable, Live, TypeOK, Handles
<1>2. Queued \subseteq Handles
  BY DEF Queued, TypeOK
<1> QED
  BY <1>1, <1>2, DistinctAssumption DEF Holders, Own, Handles, Sockets

\* Only a slave holds a connection.
LEMMA ConnsAreSlaves ==
    ASSUME TypeOK, Own, NEW h \in Holders, owner[fd[h]] \in Conns
    PROVE  h \in Slaves
  BY HoldersOpen, DistinctAssumption DEF Own, Handles

\* A handle that held nothing takes a free descriptor.
LEMMA NewHolder ==
    ASSUME TypeOK, Own, NEW h \in Handles \ Holders, NEW f \in FreeFds, NEW o,
           owner' = [owner EXCEPT ![f] = o],
           fd' = [fd EXCEPT ![h] = f],
           Holders' \subseteq Holders \cup {h},
           h \in Slaves => o \in Conns,
           h \notin Slaves => o = h
    PROVE  /\ Own'
           /\ \A g \in Holders : fd'[g] = fd[g] /\ fd[g] # f /\ owner'[fd'[g]] = owner[fd[g]]
<1>1. f \in Fds /\ owner[f] = NoSock /\ fd'[h] = f /\ owner'[f] = o
  BY DEF FreeFds, TypeOK
<1>2. ASSUME NEW g \in Holders
      PROVE  fd'[g] = fd[g] /\ fd[g] # f /\ owner'[fd'[g]] = owner[fd[g]]
  <2>1. g # h /\ g \in Handles /\ fd[g] \in Fds /\ owner[fd[g]] # NoSock
    BY HoldersOpen
  <2> QED
    BY <1>1, <2>1 DEF TypeOK
<1>3. Own'
  BY <1>1, <1>2 DEF Own
<1> QED
  BY <1>2, <1>3

\* A step that gives nobody a descriptor.
LEMMA FewerHolders ==
    ASSUME Own, Holders' \subseteq Holders, UNCHANGED <<fd, owner>>
    PROVE  Own'
  BY DEF Own

-----------------------------------------------------------------------------
(* Starting a server.                                                       *)

LEMMA StartMasterKeeps ==
    ASSUME TypeOK, IInv, NEW s \in TcpServers \cup UdpServers, StartMaster(s),
           s \notin server_t_queue \cup server_u_queue,
           server_t_queue' \cup server_u_queue' = server_t_queue \cup server_u_queue \cup {s},
           Live' \subseteq Live
    PROVE  IInv'
<1>1. PICK f \in Fds : net_socket(s, f) /\ fd' = [fd EXCEPT ![s] = f]
  BY DEF StartMaster
<1>2. /\ f \in FreeFds /\ owner[f] = NoSock
      /\ owner' = [owner EXCEPT ![f] = s]
      /\ operate' = [operate EXCEPT ![s] = "add"]
      /\ watcher_queue' = Enqueue(s)
      /\ UNCHANGED <<pc, batch, fd_status, interest, ready, backlog, conn, rx, peer>>
  BY <1>1 DEF StartMaster, net_socket, IsNewFd, FreeFds, loopVars, peerVars
<1>3. s \in Handles /\ s \notin Slaves /\ s \notin Conns /\ s # NoSock
  BY DistinctAssumption DEF Handles, Sockets
<1>4. s \notin Queued
  BY <1>3 DEF IInv, Entries
<1>5. s \notin Holders
  BY <1>3, <1>4 DEF Holders, Reachable, Live, TypeOK
<1>6. Queued' = Queued \cup {s} /\ NoDup'
  BY <1>2, <1>3, <1>4, QueueAppend DEF IInv
<1>7. Holders' \subseteq Holders \cup {s}
  BY <1>2, <1>6 DEF Holders, Reachable, Dispatchable
<1>8. /\ Own'
      /\ \A g \in Holders : fd'[g] = fd[g] /\ fd[g] # f /\ owner'[fd'[g]] = owner[fd[g]]
  BY <1>1, <1>2, <1>3, <1>5, <1>7, NewHolder DEF IInv
<1>9. OneDescriptor' /\ OneBacklog'
  BY <1>2, <1>3 DEF IInv, OneDescriptor, OneBacklog, TypeOK
<1>10. f \notin interest
  BY <1>2 DEF IInv, Events
<1>11. Events'
  BY <1>2, <1>10 DEF IInv, Events, TypeOK
<1>12. Entries'
  <2>1. Queued' \subseteq Slaves \cup server_t_queue' \cup server_u_queue'
    BY <1>6 DEF IInv, Entries
  <2>2. operate'[s] = "add" /\ fd'[s] \notin interest'
    BY <1>1, <1>2, <1>3, <1>10 DEF TypeOK
  <2>3. ASSUME NEW h \in Queued
        PROVE  fd'[h] = fd[h] /\ operate'[h] = operate[h] /\ owner'[fd'[h]] = owner[fd[h]]
    BY <1>2, <1>4, <1>8, <2>3, HoldersOpen DEF Holders, TypeOK, IInv
  <2> QED
    BY <1>2, <1>6, <2>1, <2>2, <2>3 DEF IInv, Entries
<1> QED
  BY <1>6, <1>8, <1>9, <1>11, <1>12 DEF IInv

LEMMA StartFailsKeeps ==
    ASSUME TypeOK, IInv, NEW s \in TcpServers \cup UdpServers, StartFails(s)
    PROVE  IInv'
<1>1. PICK f \in Fds : net_socket(s, f)
  BY DEF StartFails
<1>2. /\ owner[f] = NoSock /\ owner' = [owner EXCEPT ![f] = s]
      /\ UNCHANGED <<loopVars, queueVars, ioVars, interest, ready, peerVars>>
  BY <1>1 DEF StartFails, net_socket, IsNewFd, FreeFds
<1>3. s \notin Conns /\ s # NoSock
  BY DistinctAssumption DEF Handles, Sockets
<1>4. Holders' = Holders /\ Queued' = Queued
  BY <1>2 DEF Holders, Reachable, Live, Dispatchable, Queued, queueVars, ioVars
<1>5. \A h \in Holders : fd[h] # f /\ owner'[fd[h]] = owner[fd[h]]
  BY <1>2, HoldersOpen DEF IInv, TypeOK
<1>6. Own'
  BY <1>2, <1>4, <1>5 DEF IInv, Own, ioVars
<1>7. OneDescriptor' /\ OneBacklog' /\ NoDup'
  BY <1>2, <1>3 DEF IInv, OneDescriptor, OneBacklog, NoDup, TypeOK, queueVars, peerVars
<1>8. Entries'
  BY <1>2, <1>4, <1>5 DEF IInv, Entries, Holders, queueVars, ioVars, peerVars
<1>9. Events'
  BY <1>2, <1>3 DEF IInv, Events, TypeOK, loopVars, peerVars
<1> QED
  BY <1>6, <1>7, <1>8, <1>9 DEF IInv

LEMMA StartKeeps == ASSUME TypeOK, IInv, Start PROVE IInv'
<1>1. ASSUME NEW s \in TcpServers, tp_server_start(s) PROVE IInv'
  <2>1. /\ StartMaster(s) /\ s \notin server_t_queue
        /\ server_t_queue' = server_t_queue \cup {s} /\ server_u_queue' = server_u_queue
        /\ slave_queue' = [slave_queue EXCEPT ![s] = {}]
    BY <1>1 DEF tp_server_start
  <2>2. s \notin server_u_queue
    BY DistinctAssumption DEF TypeOK
  <2>3. Live' \subseteq Live
    BY <2>1 DEF Live, TypeOK
  <2> QED
    BY <2>1, <2>2, <2>3, StartMasterKeeps
<1>2. ASSUME NEW u \in UdpServers, up_server_start(u) PROVE IInv'
  <2>1. /\ StartMaster(u) /\ u \notin server_u_queue
        /\ server_u_queue' = server_u_queue \cup {u} /\ server_t_queue' = server_t_queue
        /\ slave_queue' = slave_queue
    BY <1>2 DEF up_server_start
  <2>2. u \notin server_t_queue
    BY DistinctAssumption DEF TypeOK
  <2>3. Live' \subseteq Live
    BY <2>1 DEF Live
  <2> QED
    BY <2>1, <2>2, <2>3, StartMasterKeeps
<1> QED
  BY <1>1, <1>2, StartFailsKeeps DEF Start

-----------------------------------------------------------------------------
(* Draining the watcher queue.                                              *)

LEMMA WatchKeeps == ASSUME TypeOK, IInv, ep_ip_watcher_oper PROVE IInv'
<1> DEFINE h == Head(watcher_queue)
           f == fd[h]
<1>1. /\ pc = "watch" /\ watcher_queue # <<>>
      /\ watcher_queue' = Tail(watcher_queue)
      /\ UNCHANGED <<pc, batch, server_t_queue, server_u_queue, slave_queue,
                     fd, fd_status, operate, backlog, rx, peer>>
      /\ WatchAdd \/ WatchDel \/ WatchGarbage
  BY DEF ep_ip_watcher_oper, loopVars, ioVars
<1>2. h \in Queued /\ Queued' \subseteq Queued /\ NoDup' /\ h \notin Queued'
  BY <1>1, QueueTail DEF IInv
<1>3. Reachable' = Reachable /\ Holders' \subseteq Holders
  BY <1>1, <1>2 DEF Holders, Reachable, Live, Dispatchable
<1>4. batch = {} /\ batch' = {}
  BY <1>1 DEF IInv, Events
<1>5. h \in Holders /\ f \in Fds /\ owner[f] # NoSock
  BY <1>2, HoldersOpen DEF Holders, IInv
<1>6. CASE UNCHANGED <<interest, ready, owner, conn>>
  <2>1. Own'
    BY <1>1, <1>3, <1>6, FewerHolders DEF IInv
  <2>2. Entries'
    BY <1>1, <1>2, <1>6 DEF IInv, Entries
  <2>3. OneDescriptor' /\ OneBacklog' /\ Events'
    BY <1>1, <1>6 DEF IInv, OneDescriptor, OneBacklog, Events
  <2> QED
    BY <1>2, <2>1, <2>2, <2>3 DEF IInv
<1>7. CASE WatchAdd /\ BelowLimit /\ CanAdd(f)
  <2>1. /\ interest' = interest \cup {f}
        /\ ready' \subseteq ready \cup {f}
        /\ UNCHANGED <<owner, conn>>
    BY <1>7 DEF WatchAdd
  <2>2. Own'
    BY <1>1, <1>3, <2>1, FewerHolders DEF IInv
  <2>3. ASSUME NEW g \in Queued' PROVE fd[g] # f
    BY <1>2, <1>5, <2>3 DEF IInv, Own, Holders
  <2>4. Entries'
    BY <1>1, <1>2, <2>1, <2>3 DEF IInv, Entries
  <2>5. OneDescriptor' /\ OneBacklog' /\ Events'
    BY <1>1, <1>5, <2>1 DEF IInv, OneDescriptor, OneBacklog, Events
  <2> QED
    BY <1>2, <2>2, <2>4, <2>5 DEF IInv
<1>8. CASE WatchDel /\ nevents > 0 /\ f \in interest
  <2>1. operate[h] = "del"
    BY <1>8 DEF WatchDel
  <2>2. h \in Slaves /\ fd_status[h] = "close"
    BY <1>2, <2>1 DEF IInv, Entries
  <2>3. /\ interest' = interest \ {f} /\ ready' = ready \ {f}
        /\ owner' = [owner EXCEPT ![f] = NoSock]
        /\ conn' = [c \in Conns |-> IF c = owner[f] THEN "closed" ELSE conn[c]]
    BY <1>8, <2>2 DEF WatchDel, Closes, CloseFd
  <2>4. h \notin Holders'
    BY <1>2, <1>3, <2>2, DistinctAssumption DEF Holders, Reachable, Dispatchable, TypeOK
  <2>5. \A g \in Holders' : fd[g] # f /\ fd[g] \in Fds /\ owner'[fd[g]] = owner[fd[g]]
    BY <1>3, <1>5, <2>3, <2>4, HoldersOpen DEF IInv, Own, TypeOK
  <2>6. Own'
    BY <1>1, <1>3, <2>5 DEF IInv, Own
  <2>7. OneDescriptor'
    BY <1>5, <2>3, DistinctAssumption DEF IInv, OneDescriptor, TypeOK, Sockets
  <2>8. OneBacklog'
    <3>1. owner[f] \in Conns
      BY <1>5, <2>2 DEF IInv, Own
    <3>2. conn[owner[f]] = "open"
      BY <1>5, <3>1 DEF IInv, OneDescriptor
    <3>3. \A s \in TcpServers : \A i \in DOMAIN backlog[s] : backlog[s][i] \in Conns
      BY DEF TypeOK
    <3>4. \A s \in TcpServers : \A i \in DOMAIN backlog[s] : conn'[backlog[s][i]] = "queued"
      BY <2>3, <3>2, <3>3 DEF IInv, OneBacklog
    <3> QED
      BY <1>1, <3>4 DEF IInv, OneBacklog
  <2>9. Entries'
    BY <1>1, <1>2, <2>3, <2>5 DEF IInv, Entries, Holders
  <2>10. Events'
    BY <1>1, <1>4, <2>3 DEF IInv, Events, TypeOK
  <2> QED
    BY <1>2, <2>6, <2>7, <2>8, <2>9, <2>10 DEF IInv
<1> QED
  BY <1>1, <1>6, <1>7, <1>8 DEF WatchAdd, WatchDel, WatchGarbage

-----------------------------------------------------------------------------
(* Waiting and dispatching.                                                 *)

LEMMA PollKeeps ==
    ASSUME TypeOK, IInv, EnterPoll \/ Poll \/ EpollWait \/ EpollTimeout \/ EndDispatch
    PROVE  IInv'
<1>1. UNCHANGED <<queueVars, ioVars, owner, interest, peerVars>>
  BY DEF EnterPoll, Poll, EpollWait, EpollTimeout, EndDispatch, kernelVars
<1>2. Holders' = Holders /\ Queued' = Queued
  BY <1>1 DEF Holders, Reachable, Live, Dispatchable, Queued, queueVars, ioVars
<1>3. Own' /\ OneDescriptor' /\ OneBacklog' /\ NoDup' /\ Entries'
  BY <1>1, <1>2 DEF IInv, Own, OneDescriptor, OneBacklog, NoDup, Entries,
                     queueVars, ioVars, peerVars
<1>4. CASE EpollWait
  <2>1. batch' = Reportable /\ ready' = {} /\ pc' = "dispatch"
    BY <1>4 DEF EpollWait
  <2>2. Reportable \subseteq interest
    BY DEF Reportable, IInv, Events
  <2>3. ASSUME NEW f \in Reportable, owner[f] \in Conns
        PROVE  rx[owner[f]] > 0 \/ peer[owner[f]] # "alive"
    BY <2>3, DistinctAssumption DEF Reportable, Readable, Handles
  <2> QED
    BY <1>1, <1>3, <2>1, <2>2, <2>3 DEF IInv, Events, peerVars
<1>5. CASE EnterPoll \/ Poll \/ EpollTimeout \/ EndDispatch
  <2>1. UNCHANGED <<batch, ready>> /\ batch = {}
    BY <1>5 DEF EnterPoll, Poll, EpollTimeout, EndDispatch, kernelVars, IInv, Events
  <2> QED
    BY <1>1, <1>3, <2>1 DEF IInv, Events, peerVars
<1> QED
  BY <1>4, <1>5

\* An event that reads nothing and accepts nothing.
LEMMA EventSpent ==
    ASSUME TypeOK, IInv, batch' \subseteq batch, pc' \in {"dispatch", "aborted"},
           Reachable' \subseteq Reachable,
           UNCHANGED <<server_t_queue, server_u_queue, watcher_queue, ioVars,
                       owner, interest, ready, backlog, conn, rx, peer>>
    PROVE  IInv'
<1>1. Queued' = Queued /\ Holders' \subseteq Holders
  BY DEF Holders, Queued
<1>2. Own'
  BY <1>1, FewerHolders DEF IInv, ioVars
<1>3. OneDescriptor' /\ OneBacklog' /\ NoDup' /\ Entries' /\ Events'
  BY <1>1 DEF IInv, OneDescriptor, OneBacklog, NoDup, Entries, Events, ioVars
<1> QED
  BY <1>2, <1>3 DEF IInv

LEMMA AcceptKeeps ==
    ASSUME TypeOK, IInv, NEW s \in TcpServers, ep_tcp_server_process(s), AcceptOne(s)
    PROVE  IInv'
<1> DEFINE c == Head(backlog[s])
<1>1. PICK x \in FreeBlocks, f \in Fds :
        /\ IsNewFd(f)
        /\ owner' = [owner EXCEPT ![f] = c]
        /\ fd' = [fd EXCEPT ![x] = f]
        /\ fd_status' = [fd_status EXCEPT ![x] = "open"]
        /\ operate' = [operate EXCEPT ![x] = "add"]
        /\ watcher_queue' = Enqueue(x)
        /\ slave_queue' = [t \in TcpServers |->
                             Unfreed(slave_queue[t]) \cup (IF t = s THEN {x} ELSE {})]
  BY DEF AcceptOne
<1>2. /\ backlog[s] # <<>> /\ backlog[s] \in Seq(Conns)
      /\ conn' = [conn EXCEPT ![c] = "open"]
      /\ backlog' = [backlog EXCEPT ![s] = Tail(@)]
      /\ pc = "dispatch" /\ pc' = pc /\ batch' \subseteq batch
      /\ UNCHANGED <<server_t_queue, server_u_queue, interest, ready, rx, peer>>
  BY DEF AcceptOne, ep_tcp_server_process, Dispatching, TypeOK
<1>3. /\ DOMAIN backlog[s] = 1..Len(backlog[s]) /\ Len(backlog[s]) \in Nat \ {0}
      /\ c = backlog[s][1] /\ c \in Conns /\ Tail(backlog[s]) \in Seq(Conns)
      /\ DOMAIN Tail(backlog[s]) = 1..(Len(backlog[s]) - 1)
      /\ \A i \in DOMAIN Tail(backlog[s]) : Tail(backlog[s])[i] = backlog[s][i + 1]
  BY <1>2
<1>4. conn[c] = "queued"
  BY <1>3 DEF IInv, OneBacklog
<1>5. f \in FreeFds /\ owner[f] = NoSock /\ f \notin interest
  BY <1>1 DEF IsNewFd, FreeFds, IInv, Events
<1>6. x \in Slaves /\ x \in Handles /\ x \notin Live /\ x \notin Queued
  BY DEF FreeBlocks, Handles
<1>7. x \notin Holders
  BY <1>6, DistinctAssumption DEF Holders, Reachable, TypeOK
<1>8. Queued' = Queued \cup {x} /\ NoDup'
  BY <1>1, <1>6, QueueAppend DEF IInv
<1>9. Reachable' \subseteq Reachable \cup {x}
  <2>1. Live' \subseteq Live \cup {x}
    BY <1>1 DEF Live, Unfreed
  <2>2. \A y \in Live : y # x => fd_status'[y] = fd_status[y]
    BY <1>1, <1>6 DEF TypeOK
  <2> QED
    BY <1>2, <2>1, <2>2 DEF Reachable, Dispatchable
<1>10. Holders' \subseteq Holders \cup {x}
  BY <1>8, <1>9 DEF Holders
<1>11. /\ Own'
       /\ \A g \in Holders : fd'[g] = fd[g] /\ fd[g] # f /\ owner'[fd'[g]] = owner[fd[g]]
  BY <1>1, <1>3, <1>5, <1>6, <1>7, <1>10, NewHolder DEF IInv
<1>12. OneDescriptor'
  BY <1>1, <1>2, <1>3, <1>4 DEF IInv, OneDescriptor, TypeOK
<1>13. OneBacklog'
  <2>1. \A t \in TcpServers : \A i \in DOMAIN backlog'[t] :
          LET k == IF t = s THEN i + 1 ELSE i
          IN  k \in DOMAIN backlog[t] /\ backlog'[t][i] = backlog[t][k]
                /\ (t = s => k # 1) /\ i \in Nat
    <3> SUFFICES ASSUME NEW t \in TcpServers, NEW i \in DOMAIN backlog'[t]
                 PROVE  LET k == IF t = s THEN i + 1 ELSE i
                        IN  k \in DOMAIN backlog[t] /\ backlog'[t][i] = backlog[t][k]
                              /\ (t = s => k # 1) /\ i \in Nat
      OBVIOUS
    <3>1. CASE t = s
      BY <1>2, <1>3, <3>1 DEF TypeOK
    <3>2. CASE t # s
      <4>1. backlog'[t] = backlog[t] /\ backlog[t] \in Seq(Conns)
        BY <1>2, <3>2 DEF TypeOK
      <4> QED
        BY <3>2, <4>1
    <3> QED
      BY <3>1, <3>2
  <2>2. \A t \in TcpServers : \A i \in DOMAIN backlog'[t] : backlog'[t][i] # c
    BY <1>3, <2>1 DEF IInv, OneBacklog
  <2>3. \A t \in TcpServers : \A i \in DOMAIN backlog'[t] : backlog'[t][i] \in Conns
    <3>1. \A t \in TcpServers : \A i \in DOMAIN backlog[t] : backlog[t][i] \in Conns
      BY DEF TypeOK
    <3> QED
      BY <2>1, <3>1
  <2>4. \A t \in TcpServers : \A i \in DOMAIN backlog'[t] : conn'[backlog'[t][i]] = "queued"
    BY <1>2, <2>1, <2>2, <2>3 DEF IInv, OneBacklog, TypeOK
  <2>5. \A t, u \in TcpServers : \A i \in DOMAIN backlog'[t], j \in DOMAIN backlog'[u] :
          backlog'[t][i] = backlog'[u][j] => t = u /\ i = j
    BY <2>1 DEF IInv, OneBacklog
  <2> QED
    BY <2>4, <2>5 DEF OneBacklog
<1>14. Entries'
  <2>1. Queued' \subseteq Slaves \cup server_t_queue' \cup server_u_queue'
    BY <1>2, <1>6, <1>8 DEF IInv, Entries
  <2>2. operate'[x] = "add" /\ fd'[x] \notin interest'
    BY <1>1, <1>2, <1>5, <1>6 DEF TypeOK
  <2>3. ASSUME NEW h \in Queued
        PROVE  /\ fd'[h] = fd[h] /\ operate'[h] = operate[h] /\ fd_status'[h] = fd_status[h]
               /\ owner'[fd'[h]] = owner[fd[h]]
    BY <1>1, <1>6, <1>11, <2>3, HoldersOpen DEF Holders, TypeOK, IInv
  <2> QED
    BY <1>2, <1>8, <2>1, <2>2, <2>3 DEF IInv, Entries
<1>15. Events'
  BY <1>1, <1>2, <1>3, <1>5 DEF IInv, Events, TypeOK
<1> QED
  BY <1>8, <1>11, <1>12, <1>13, <1>14, <1>15 DEF IInv

LEMMA MasterKeeps ==
    ASSUME TypeOK, IInv, NEW s \in TcpServers, ep_tcp_server_process(s)
    PROVE  IInv'
<1>1. /\ pc = "dispatch" /\ batch' \subseteq batch
      /\ UNCHANGED <<server_t_queue, server_u_queue, interest, ready, rx, peer>>
  BY DEF ep_tcp_server_process, Dispatching
<1>2. CASE AcceptNoMemory
  <2>1. Reachable' \subseteq Reachable
    BY <1>1, <1>2, PurgeReaches DEF AcceptNoMemory, ioVars
  <2> QED
    BY <1>1, <1>2, <2>1, EventSpent DEF AcceptNoMemory
<1>3. CASE AcceptNoDescriptor
  <2>1. CASE WithDebug
    <3>1. pc' = "aborted" /\ UNCHANGED <<slave_queue, fd_status>>
      BY <1>3, <2>1 DEF AcceptNoDescriptor, ioVars
    <3>2. Reachable' \subseteq Reachable
      BY <1>1, <3>1 DEF Reachable, Live, Dispatchable
    <3> QED
      BY <1>1, <1>3, <3>1, <3>2, EventSpent DEF AcceptNoDescriptor
  <2>2. CASE ~WithDebug
    <3>1. Purge /\ pc' = pc
      BY <1>3, <2>2 DEF AcceptNoDescriptor
    <3>2. Reachable' \subseteq Reachable
      BY <1>1, <1>3, <3>1, PurgeReaches DEF AcceptNoDescriptor, ioVars
    <3> QED
      BY <1>1, <1>3, <3>1, <3>2, EventSpent DEF AcceptNoDescriptor
  <2> QED
    BY <2>1, <2>2
<1> QED
  BY <1>2, <1>3, AcceptKeeps DEF ep_tcp_server_process

\* What the event of a slave finds: its descriptor is watched and readable,
\* and the slave has no entry in watcher_queue.
LEMMA SlaveEvent ==
    ASSUME TypeOK, IInv, NEW x \in Slaves, ep_tcp_server_slave_process(x)
    PROVE  /\ x \in Reachable /\ x \notin Queued
           /\ fd[x] \in batch /\ owner[fd[x]] \in Conns
           /\ rx[owner[fd[x]]] > 0 \/ peer[owner[fd[x]]] # "alive"
<1>1. /\ x \in Reachable /\ fd[x] \in batch /\ owner[fd[x]] \in Conns
      /\ fd_status[x] = "open"
  BY DEF ep_tcp_server_slave_process, Dispatchable, Dispatching, Reachable
<1>2. fd[x] \in interest
  BY <1>1 DEF IInv, Events
<1>3. x \notin Queued
  BY <1>1, <1>2 DEF IInv, Entries
<1> QED
  BY <1>1, <1>3 DEF IInv, Events

LEMMA SlaveKeeps ==
    ASSUME TypeOK, IInv, NEW x \in Slaves, ep_tcp_server_slave_process(x)
    PROVE  IInv'
<1> DEFINE c == owner[fd[x]]
           n == ReadLength(rx[c])
<1>1. /\ x \in Reachable /\ x \notin Queued /\ x \in Holders /\ x \in Handles
      /\ fd[x] \in batch /\ c \in Conns
      /\ rx[c] > 0 \/ peer[c] # "alive"
  BY SlaveEvent DEF Holders, Handles
<1>2. /\ pc = "dispatch" /\ pc' = pc /\ batch' = batch \ {fd[x]} /\ Purge
      /\ UNCHANGED <<server_t_queue, server_u_queue, owner, interest, ready, backlog, conn, peer>>
      /\ IF EndOfStream(n) THEN MarkClosed(x) ELSE ReadData(x, n)
  BY DEF ep_tcp_server_slave_process, Dispatching, kernelVars
<1>3. rx[c] \in Nat /\ n \in Nat /\ n <= rx[c] /\ (n <= 0 <=> rx[c] = 0)
  BY <1>1, BoundsAssumption DEF ReadLength, TypeOK
<1>4. ASSUME NEW h \in Holders, h # x PROVE owner[fd[h]] # c
  BY <1>1, <1>4 DEF IInv, Own, OneDescriptor
<1>5. CASE EndOfStream(n)
  <2>1. MarkClosed(x) /\ rx[c] = 0 /\ peer[c] # "alive"
    BY <1>1, <1>2, <1>3, <1>5 DEF EndOfStream
  <2>2. /\ fd_status' = [fd_status EXCEPT ![x] = "close"]
        /\ operate' = [operate EXCEPT ![x] = "del"]
        /\ watcher_queue' = Enqueue(x)
        /\ fd' = fd /\ rx' = rx
    BY <2>1 DEF MarkClosed
  <2>3. Queued' = Queued \cup {x} /\ NoDup'
    BY <1>1, <2>2, QueueAppend DEF IInv
  <2>4. Reachable' \subseteq Reachable
    BY <1>2, <2>2, PurgeReaches DEF TypeOK
  <2>5. Own'
    BY <1>1, <1>2, <2>2, <2>3, <2>4, FewerHolders DEF IInv, Holders
  <2>6. \A h \in Queued : operate'[h] = operate[h] /\ fd_status'[h] = fd_status[h]
    BY <1>1, <2>2, HoldersOpen DEF IInv, Holders, TypeOK
  <2>7. operate'[x] = "del" /\ fd_status'[x] = "close"
    BY <1>1, <2>2 DEF TypeOK
  <2>8. Entries'
    BY <1>1, <1>2, <2>1, <2>2, <2>3, <2>6, <2>7 DEF IInv, Entries
  <2>9. OneDescriptor' /\ OneBacklog' /\ Events'
    BY <1>2, <2>2 DEF IInv, OneDescriptor, OneBacklog, Events
  <2> QED
    BY <2>3, <2>5, <2>8, <2>9 DEF IInv
<1>6. CASE ~EndOfStream(n)
  <2>1. rx' = [rx EXCEPT ![c] = @ - n] /\ UNCHANGED <<fd, fd_status, operate, watcher_queue>>
    BY <1>2, <1>6 DEF ReadData, ioVars
  <2>2. Queued' = Queued /\ Reachable' \subseteq Reachable
    BY <1>2, <2>1, PurgeReaches DEF Queued
  <2>3. Own'
    BY <1>2, <2>1, <2>2, FewerHolders DEF IInv, Holders
  <2>4. \A h \in Queued : rx'[owner[fd[h]]] = rx[owner[fd[h]]] \/ operate[h] = "add"
    BY <1>1, <1>4, <2>1 DEF IInv, Own, Entries, Holders, TypeOK
  <2>5. Entries'
    BY <1>2, <2>1, <2>2, <2>4 DEF IInv, Entries
  <2> HIDE DEF n
  <2>6. \A d \in Conns : rx'[d] <= MaxRx /\ (d # c => rx'[d] = rx[d])
    BY <1>1, <1>3, <2>1, BoundsAssumption DEF IInv, Events, TypeOK
  <2>7. \A f \in batch' : owner[f] # c
    BY <1>1, <1>2 DEF IInv, OneDescriptor, TypeOK
  <2>8. OneDescriptor' /\ OneBacklog' /\ Events'
    BY <1>2, <2>6, <2>7 DEF IInv, OneDescriptor, OneBacklog, Events
  <2>9. NoDup'
    BY <2>1 DEF IInv, NoDup
  <2> QED
    BY <2>3, <2>5, <2>8, <2>9 DEF IInv
<1> QED
  BY <1>5, <1>6

LEMMA DispatchKeeps == ASSUME TypeOK, IInv, Dispatch PROVE IInv'
<1>1. ASSUME NEW u \in UdpServers, ep_udp_server_process(u) PROVE IInv'
  <2>1. /\ pc' = "dispatch" /\ batch' \subseteq batch /\ Purge
        /\ UNCHANGED <<server_t_queue, server_u_queue, watcher_queue, ioVars, kernelVars,
                       backlog, conn, rx, peer>>
    BY <1>1 DEF ep_udp_server_process, Dispatching
  <2>2. Reachable' \subseteq Reachable
    BY <2>1, PurgeReaches DEF ioVars
  <2> QED
    BY <2>1, <2>2, EventSpent DEF kernelVars
<1>2. ASSUME NEW f \in Fds, StrayEvent(f) PROVE IInv'
  <2>1. /\ pc' = "dispatch" /\ batch' \subseteq batch /\ Purge
        /\ UNCHANGED <<server_t_queue, server_u_queue, watcher_queue, ioVars, kernelVars, peerVars>>
    BY <1>2 DEF StrayEvent, Dispatching
  <2>2. Reachable' \subseteq Reachable
    BY <2>1, PurgeReaches DEF ioVars
  <2> QED
    BY <2>1, <2>2, EventSpent DEF kernelVars, peerVars
<1> QED
  BY <1>1, <1>2, MasterKeeps, SlaveKeeps, PollKeeps DEF Dispatch

-----------------------------------------------------------------------------
(* The peers.                                                               *)

\* A peer may add bytes only while it is alive, and its steps raise edges of
\* watched descriptors only.
LEMMA PeerQuiet ==
    ASSUME TypeOK, IInv, UNCHANGED <<loopVars, queueVars, ioVars, owner, interest>>,
           ready' \subseteq interest,
           OneDescriptor', OneBacklog',
           \A c \in Conns : rx'[c] <= MaxRx,
           \A c \in Conns : peer[c] # "alive" => peer'[c] # "alive",
           \A c \in Conns : peer[c] # "alive" /\ rx[c] = 0 => rx'[c] = 0,
           \A c \in Conns : rx[c] > 0 => rx'[c] > 0 \/ peer'[c] # "alive"
    PROVE  IInv'
<1>1. Holders' = Holders /\ Queued' = Queued
  BY DEF Holders, Reachable, Live, Dispatchable, Queued, queueVars, ioVars
<1>2. Own' /\ NoDup'
  BY <1>1, FewerHolders DEF IInv, NoDup, ioVars, queueVars
<1>3. \A h \in Queued : h \in Slaves => owner[fd[h]] \in Conns
  BY DEF IInv, Own, Holders
<1>4. Entries'
  BY <1>1, <1>3 DEF IInv, Entries, queueVars, ioVars
<1>5. Events'
  BY DEF IInv, Events, loopVars
<1> QED
  BY <1>2, <1>4, <1>5 DEF IInv

LEMMA PeerKeeps == ASSUME TypeOK, IInv, PeerStep PROVE IInv'
<1>1. ASSUME NEW s, RaiseEdge(s) PROVE ready' \subseteq interest
  BY <1>1 DEF RaiseEdge, IInv, Events
<1>2. ASSUME NEW c \in Conns, NEW s \in TcpServers, Connect(c, s) PROVE IInv'
  <2>1. /\ conn[c] = "idle" /\ conn' = [conn EXCEPT ![c] = "queued"]
        /\ backlog' = [backlog EXCEPT ![s] = Append(@, c)]
        /\ UNCHANGED <<loopVars, queueVars, ioVars, owner, interest, rx, peer>>
        /\ ready' \subseteq interest
    BY <1>1, <1>2 DEF Connect
  <2>2. OneDescriptor'
    BY <2>1 DEF IInv, OneDescriptor, TypeOK
  <2>3. \A t \in TcpServers : \A i \in DOMAIN backlog'[t] :
          \/ i \in DOMAIN backlog[t] /\ backlog'[t][i] = backlog[t][i]
          \/ t = s /\ i = Len(backlog[s]) + 1 /\ backlog'[t][i] = c
    <3> SUFFICES ASSUME NEW t \in TcpServers, NEW i \in DOMAIN backlog'[t]
                 PROVE  \/ i \in DOMAIN backlog[t] /\ backlog'[t][i] = backlog[t][i]
                        \/ t = s /\ i = Len(backlog[s]) + 1 /\ backlog'[t][i] = c
      OBVIOUS
    <3>1. backlog[t] \in Seq(Conns)
      BY DEF TypeOK
    <3>2. CASE t = s
      <4>1. backlog'[t] = Append(backlog[t], c)
        BY <2>1, <3>2 DEF TypeOK
      <4> QED
        BY <3>1, <3>2, <4>1
    <3>3. CASE t # s
      BY <2>1, <3>3 DEF TypeOK
    <3> QED
      BY <3>2, <3>3
  <2>4. \A t \in TcpServers : \A i \in DOMAIN backlog[t] :
          backlog[t][i] \in Conns /\ backlog[t][i] # c
    <3>1. \A t \in TcpServers : \A i \in DOMAIN backlog[t] : backlog[t][i] \in Conns
      BY DEF TypeOK
    <3> QED
      BY <2>1, <3>1 DEF IInv, OneBacklog
  <2>5. OneBacklog'
    <3>1. \A t \in TcpServers : \A i \in DOMAIN backlog'[t] : conn'[backlog'[t][i]] = "queued"
      BY <2>1, <2>3, <2>4 DEF IInv, OneBacklog, TypeOK
    <3>2. \A t, u \in TcpServers : \A i \in DOMAIN backlog'[t], j \in DOMAIN backlog'[u] :
            backlog'[t][i] = backlog'[u][j] => t = u /\ i = j
      BY <2>3, <2>4 DEF IInv, OneBacklog
    <3> QED
      BY <3>1, <3>2 DEF OneBacklog
  <2> QED
    BY <2>1, <2>2, <2>5, PeerQuiet DEF IInv, Events
<1>3. ASSUME NEW c \in Conns, PeerSends(c) PROVE IInv'
  <2>1. /\ peer[c] = "alive" /\ rx[c] < MaxRx /\ rx' = [rx EXCEPT ![c] = @ + 1]
        /\ UNCHANGED <<loopVars, queueVars, ioVars, owner, interest, backlog, conn, peer>>
        /\ ready' \subseteq interest
    BY <1>1, <1>3 DEF PeerSends
  <2>2. OneDescriptor' /\ OneBacklog'
    BY <2>1 DEF IInv, OneDescriptor, OneBacklog
  <2>3. \A d \in Conns : /\ rx'[d] <= MaxRx
                         /\ rx[d] > 0 => rx'[d] > 0
                         /\ peer[d] # "alive" => rx'[d] = rx[d]
    BY <2>1, BoundsAssumption DEF IInv, Events, TypeOK
  <2> QED
    BY <2>1, <2>2, <2>3, PeerQuiet
<1>4. ASSUME NEW c \in Conns, PeerCloses(c) PROVE IInv'
  <2>1. /\ peer' = [peer EXCEPT ![c] = "fin"]
        /\ UNCHANGED <<loopVars, queueVars, ioVars, owner, interest, backlog, conn, rx>>
        /\ ready' \subseteq interest
    BY <1>1, <1>4 DEF PeerCloses
  <2>2. OneDescriptor' /\ OneBacklog'
    BY <2>1 DEF IInv, OneDescriptor, OneBacklog
  <2>3. \A d \in Conns : rx'[d] <= MaxRx /\ (peer[d] # "alive" => peer'[d] # "alive")
    BY <2>1 DEF IInv, Events, TypeOK
  <2> QED
    BY <2>1, <2>2, <2>3, PeerQuiet
<1>5. ASSUME NEW c \in Conns, PeerResets(c) PROVE IInv'
  <2>1. /\ peer' = [peer EXCEPT ![c] = "rst"] /\ rx' = [rx EXCEPT ![c] = 0]
        /\ UNCHANGED <<loopVars, queueVars, ioVars, owner, interest, backlog, conn>>
        /\ ready' \subseteq interest
    BY <1>1, <1>5 DEF PeerResets
  <2>2. OneDescriptor' /\ OneBacklog'
    BY <2>1 DEF IInv, OneDescriptor, OneBacklog
  <2>3. \A d \in Conns : /\ rx'[d] <= MaxRx
                         /\ peer[d] # "alive" => peer'[d] # "alive"
                         /\ rx[d] = 0 => rx'[d] = 0
                         /\ rx[d] > 0 => rx'[d] > 0 \/ peer'[d] # "alive"
    BY <2>1, BoundsAssumption DEF IInv, Events, TypeOK
  <2> QED
    BY <2>1, <2>2, <2>3, PeerQuiet
<1>6. ASSUME NEW u \in UdpServers, SendDgram(u) PROVE IInv'
  <2>1. /\ UNCHANGED <<loopVars, queueVars, ioVars, owner, interest, backlog, conn, rx, peer>>
        /\ ready' \subseteq interest
    BY <1>1, <1>6 DEF SendDgram
  <2>2. OneDescriptor' /\ OneBacklog'
    BY <2>1 DEF IInv, OneDescriptor, OneBacklog
  <2> QED
    BY <2>1, <2>2, PeerQuiet DEF IInv, Events
<1> QED
  BY <1>2, <1>3, <1>4, <1>5, <1>6 DEF PeerStep

-----------------------------------------------------------------------------
(* The invariant, and what follows from it.                                 *)

LEMMA Initially == Init => IInv
<1> SUFFICES ASSUME Init PROVE IInv
  OBVIOUS
<1>1. Queued = {} /\ Live = {}
  BY DEF Init, Queued, Live
<1>2. Holders = {}
  BY <1>1 DEF Holders, Reachable, Init
<1>3. Own /\ NoDup /\ Entries
  BY <1>1, <1>2 DEF Own, NoDup, Entries, Init
<1>4. OneDescriptor /\ OneBacklog /\ Events
  BY DistinctAssumption, BoundsAssumption DEF Init, OneDescriptor, OneBacklog, Events, Sockets
<1> QED
  BY <1>3, <1>4 DEF IInv

LEMMA Stuttering == IInv /\ UNCHANGED vars => IInv'
<1> SUFFICES ASSUME IInv, UNCHANGED vars PROVE IInv'
  OBVIOUS
<1>1. UNCHANGED <<loopVars, queueVars, ioVars, kernelVars, peerVars>>
  BY DEF vars
<1>2. Holders' = Holders /\ Queued' = Queued
  BY <1>1 DEF Holders, Reachable, Live, Dispatchable, Queued, queueVars, ioVars
<1> QED
  BY <1>1, <1>2 DEF IInv, Own, OneDescriptor, OneBacklog, NoDup, Entries, Events,
                    loopVars, queueVars, ioVars, kernelVars, peerVars

LEMMA Step == TypeOK /\ IInv /\ [Next]_vars => IInv'
  BY StartKeeps, WatchKeeps, PollKeeps, DispatchKeeps, PeerKeeps, Stuttering DEF Next, LoopStep

LEMMA Always == Spec => []IInv
  BY Initially, Step, TypeCorrect, PTL DEF Spec

\* An event never reaches another connection's handle, although the kernel
\* reuses descriptor numbers and the dispatch compares nothing else.
THEOREM OwnFdsKept == Spec => []HandlesOwnFds
<1>1. TypeOK /\ IInv => HandlesOwnFds
  <2> SUFFICES ASSUME TypeOK, IInv PROVE HandlesOwnFds
    OBVIOUS
  <2>1. Reachable \subseteq Holders
    BY DEF Holders
  <2>2. \A s \in server_t_queue \cup server_u_queue : s \in Reachable /\ s \notin Slaves
    BY DistinctAssumption DEF Reachable, TypeOK
  <2> QED
    BY <2>1, <2>2 DEF HandlesOwnFds, IInv, Own, OneDescriptor
<1> QED
  BY <1>1, Always, TypeCorrect, PTL

\* Only the drain of watcher_queue closes a connection, and only one whose
\* peer has ended and whose bytes were all read when it was marked.
LEMMA ClosesFinished ==
    ASSUME TypeOK, IInv, [Next]_vars, NEW c \in Conns, conn[c] = "open", conn'[c] = "closed"
    PROVE  peer[c] # "alive" /\ rx[c] = 0
<1>1. CASE ep_ip_watcher_oper
  <2> DEFINE h == Head(watcher_queue)
  <2>1. WatchDel /\ c = owner[fd[h]]
    BY <1>1 DEF ep_ip_watcher_oper, WatchAdd, WatchDel, WatchGarbage, CloseFd
  <2>2. h \in Queued /\ operate[h] = "del"
    BY <1>1, <2>1, QueueTail DEF ep_ip_watcher_oper, WatchDel
  <2> QED
    BY <2>1, <2>2 DEF IInv, Entries
<1>2. ASSUME NEW s \in TcpServers, ep_tcp_server_process(s) PROVE FALSE
  <2>1. CASE AcceptOne(s)
    BY <2>1 DEF AcceptOne, TypeOK
  <2>2. CASE AcceptNoMemory \/ AcceptNoDescriptor
    BY <2>2 DEF AcceptNoMemory, AcceptNoDescriptor
  <2> QED
    BY <1>2, <2>1, <2>2 DEF ep_tcp_server_process
<1>3. ~Dispatch
  BY <1>2 DEF Dispatch, ep_tcp_server_slave_process, ep_udp_server_process, StrayEvent,
              EndDispatch, peerVars
<1>4. ~Start
  BY DEF Start, tp_server_start, up_server_start, StartMaster, StartFails, peerVars
<1>5. ~PeerStep
  BY DEF PeerStep, Connect, PeerSends, PeerCloses, PeerResets, SendDgram, TypeOK
<1>6. ~(EnterPoll \/ Poll \/ EpollWait \/ EpollTimeout \/ UNCHANGED vars)
  BY DEF EnterPoll, Poll, EpollWait, EpollTimeout, vars, peerVars
<1> QED
  BY <1>1, <1>3, <1>4, <1>5, <1>6 DEF Next, LoopStep

\* The server closes no connection on which the peer still has something to
\* say, or of which it has not read everything.
THEOREM FinishedKept == Spec => OnlyFinishedClosed
<1>1. TypeOK /\ IInv /\ [Next]_vars =>
        [\A c \in Conns : conn[c] = "open" /\ conn'[c] = "closed" =>
           peer[c] # "alive" /\ rx[c] = 0]_vars
  BY ClosesFinished
<1> QED
  BY <1>1, Always, TypeCorrect, PTL DEF Spec, OnlyFinishedClosed

-----------------------------------------------------------------------------
(* Edges: unread bytes of a watched connection are announced.               *)

\* NoLostBytes without its premise.
Announced ==
    \A x \in Reachable \cap Slaves :
      fd[x] \in interest /\ rx[owner[fd[x]]] > 0 => fd[x] \in ready \cup batch

\* The event of one handle leaves the others' alone.
LEMMA OtherEvents ==
    ASSUME TypeOK, IInv, Announced, NEW f,
           \A x \in Reachable' \cap Slaves : x \in Reachable /\ fd[x] # f,
           batch' = batch \ {f},
           UNCHANGED <<fd, owner, interest, ready, rx>>
    PROVE  Announced'
  BY DEF Announced

LEMMA AnnouncedStart == ASSUME TypeOK, IInv, Announced, Start PROVE Announced'
<1>1. UNCHANGED <<batch, ready, interest, rx, fd_status>>
  BY DEF Start, tp_server_start, up_server_start, StartMaster, StartFails, loopVars,
         ioVars, peerVars
<1>2. Live' \subseteq Live
  <2>1. \A t \in TcpServers : slave_queue'[t] \subseteq slave_queue[t]
    BY DEF Start, tp_server_start, up_server_start, StartFails, queueVars, TypeOK
  <2> QED
    BY <2>1 DEF Live
<1>3. Reachable' \cap Slaves \subseteq Reachable
  BY <1>1, <1>2, StartType, DistinctAssumption DEF Reachable, Dispatchable, TypeOK
<1>4. PICK s \in TcpServers \cup UdpServers, f \in Fds :
        net_socket(s, f) /\ (fd' = fd \/ fd' = [fd EXCEPT ![s] = f])
  BY DEF Start, tp_server_start, up_server_start, StartMaster, StartFails, ioVars
<1>5. owner[f] = NoSock /\ owner' = [owner EXCEPT ![f] = s] /\ s \notin Slaves
  BY <1>4, DistinctAssumption DEF net_socket, IsNewFd, FreeFds
<1>6. \A x \in Reachable \cap Slaves :
        fd'[x] = fd[x] /\ fd[x] # f /\ owner'[fd[x]] = owner[fd[x]]
  BY <1>4, <1>5, HoldersOpen DEF Holders, IInv, TypeOK, Handles
<1> QED
  BY <1>1, <1>3, <1>6 DEF Announced

LEMMA AnnouncedWatch == ASSUME TypeOK, IInv, Announced, ep_ip_watcher_oper PROVE Announced'
<1> DEFINE h == Head(watcher_queue)
           f == fd[h]
<1>1. /\ h \in Queued /\ h \in Holders
      /\ UNCHANGED <<batch, server_t_queue, server_u_queue, slave_queue, fd, fd_status, rx>>
  BY QueueTail DEF ep_ip_watcher_oper, loopVars, ioVars, Holders
<1>2. Reachable' = Reachable
  BY <1>1 DEF Reachable, Live, Dispatchable
<1>3. CASE UNCHANGED <<interest, ready, owner>>
  BY <1>1, <1>2, <1>3 DEF Announced
<1>4. CASE WatchAdd /\ BelowLimit /\ CanAdd(f)
  <2>1. /\ interest' = interest \cup {f} /\ owner' = owner
        /\ ready' = IF Readable(owner[f]) THEN ready \cup {f} ELSE ready
    BY <1>4 DEF WatchAdd
  <2>2. ASSUME NEW x \in Reachable \cap Slaves, fd[x] = f, rx[owner[f]] > 0
        PROVE  f \in ready'
    <3>1. owner[f] \in Conns
      BY <2>2 DEF IInv, Own, Holders
    <3> QED
      BY <2>1, <2>2, <3>1 DEF Readable
  <2> QED
    BY <1>1, <1>2, <2>1, <2>2 DEF Announced
<1>5. CASE WatchDel /\ nevents > 0 /\ f \in interest
  <2>1. operate[h] = "del" /\ interest' = interest \ {f} /\ ready' = ready \ {f}
    BY <1>5 DEF WatchDel
  <2>2. owner' = owner \/ owner' = [owner EXCEPT ![f] = NoSock]
    BY <1>5 DEF WatchDel, CloseFd
  <2>3. h \notin Reachable \cap Slaves
    BY <1>1, <2>1, DistinctAssumption DEF IInv, Entries, Reachable, Dispatchable, TypeOK
  <2>4. \A x \in Reachable \cap Slaves : fd[x] # f /\ owner'[fd[x]] = owner[fd[x]]
    BY <1>1, <2>2, <2>3 DEF IInv, Own, Holders, TypeOK
  <2> QED
    BY <1>1, <1>2, <2>1, <2>4 DEF Announced
<1> QED
  BY <1>3, <1>4, <1>5 DEF ep_ip_watcher_oper, WatchAdd, WatchDel, WatchGarbage

LEMMA AnnouncedPoll ==
    ASSUME TypeOK, IInv, Announced, EnterPoll \/ Poll \/ EpollWait \/ EpollTimeout \/ EndDispatch
    PROVE  Announced'
<1>1. UNCHANGED <<queueVars, ioVars, owner, interest, peerVars>>
  BY DEF EnterPoll, Poll, EpollWait, EpollTimeout, EndDispatch, kernelVars
<1>2. Reachable' = Reachable
  BY <1>1 DEF Reachable, Live, Dispatchable, queueVars, ioVars
<1>3. CASE EpollWait
  <2>1. pc = "wait" /\ batch' = Reportable
    BY <1>3 DEF EpollWait
  <2>2. batch = {}
    BY <2>1 DEF IInv, Events
  <2>3. ASSUME NEW x \in Reachable \cap Slaves, fd[x] \in ready, rx[owner[fd[x]]] > 0
        PROVE  fd[x] \in batch'
    <3>1. owner[fd[x]] \in Conns
      BY DEF IInv, Own, Holders
    <3> QED
      BY <2>1, <2>3, <3>1 DEF Reportable, Readable
  <2> QED
    BY <1>1, <1>2, <2>2, <2>3 DEF Announced, ioVars, peerVars
<1>4. CASE EnterPoll \/ Poll \/ EpollTimeout \/ EndDispatch
  <2>1. UNCHANGED <<batch, ready>>
    BY <1>4 DEF EnterPoll, Poll, EpollTimeout, EndDispatch, kernelVars
  <2> QED
    BY <1>1, <1>2, <2>1 DEF Announced, ioVars, peerVars
<1> QED
  BY <1>3, <1>4

LEMMA AnnouncedMaster ==
    ASSUME TypeOK, IInv, Announced, NEW s \in TcpServers, ep_tcp_server_process(s)
    PROVE  Announced'
<1>1. /\ s \in server_t_queue /\ batch' = batch \ {fd[s]}
      /\ UNCHANGED <<server_t_queue, server_u_queue, interest, ready, rx>>
  BY DEF ep_tcp_server_process, Dispatching
<1>2. \A x \in Reachable \cap Slaves : fd[x] # fd[s]
  <2>1. s \in Holders /\ s \notin Slaves /\ s \notin Conns
    BY <1>1, DistinctAssumption DEF Holders, Reachable, Handles
  <2> QED
    BY <2>1 DEF IInv, Own, Holders
<1>3. CASE AcceptOne(s)
  <2>1. PICK x \in FreeBlocks, f \in Fds :
          /\ IsNewFd(f)
          /\ owner' = [owner EXCEPT ![f] = Head(backlog[s])]
          /\ fd' = [fd EXCEPT ![x] = f]
          /\ fd_status' = [fd_status EXCEPT ![x] = "open"]
          /\ slave_queue' = [t \in TcpServers |->
                               Unfreed(slave_queue[t]) \cup (IF t = s THEN {x} ELSE {})]
    BY <1>3 DEF AcceptOne
  <2>2. f \in FreeFds /\ owner[f] = NoSock /\ f \notin interest
    BY <2>1 DEF IsNewFd, FreeFds, IInv, Events
  <2>3. x \in Handles /\ x \notin Live
    BY DEF FreeBlocks, Handles
  <2>4. \A y \in Reachable' \cap Slaves : y = x \/ y \in Reachable
    <3>1. Live' \subseteq Live \cup {x}
      BY <2>1 DEF Live, Unfreed
    <3>2. \A y \in Live : fd_status'[y] = fd_status[y]
      BY <2>1, <2>3 DEF TypeOK
    <3> QED
      BY <1>1, <3>1, <3>2 DEF Reachable, Dispatchable
  <2>5. fd'[x] = f
    BY <2>1, <2>3 DEF TypeOK
  <2>6. \A y \in Reachable \cap Slaves :
          y # x => fd'[y] = fd[y] /\ owner'[fd[y]] = owner[fd[y]]
    BY <2>1, <2>2, HoldersOpen DEF IInv, Holders, TypeOK
  <2> QED
    BY <1>1, <1>2, <2>2, <2>4, <2>5, <2>6 DEF Announced
<1>4. CASE AcceptNoMemory \/ AcceptNoDescriptor
  <2>1. UNCHANGED <<fd, fd_status, owner>> /\ (Purge \/ slave_queue' = slave_queue)
    BY <1>4 DEF AcceptNoMemory, AcceptNoDescriptor, ioVars
  <2>2. Reachable' \subseteq Reachable
    <3>1. CASE Purge
      BY <1>1, <2>1, <3>1, PurgeReaches
    <3>2. CASE slave_queue' = slave_queue
      BY <1>1, <2>1, <3>2 DEF Reachable, Live, Dispatchable
    <3> QED
      BY <2>1, <3>1, <3>2
  <2> QED
    BY <1>1, <1>2, <2>1, <2>2, OtherEvents
<1> QED
  BY <1>3, <1>4 DEF ep_tcp_server_process

\* One read empties the queue, as BufLen is no less than MaxRx; the end of a
\* stream leaves nothing to announce.
LEMMA AnnouncedSlave ==
    ASSUME TypeOK, IInv, Announced, BufLen >= MaxRx,
           NEW x \in Slaves, ep_tcp_server_slave_process(x)
    PROVE  Announced'
<1> DEFINE c == owner[fd[x]]
           n == ReadLength(rx[c])
<1>1. x \in Reachable /\ c \in Conns /\ rx[c] \in Nat /\ rx[c] <= MaxRx
  BY SlaveEvent DEF TypeOK, IInv, Events
<1>2. n = rx[c]
  BY <1>1, BoundsAssumption DEF ReadLength
<1>3. /\ batch' = batch \ {fd[x]} /\ Purge
      /\ UNCHANGED <<server_t_queue, server_u_queue, owner, interest, ready>>
      /\ IF EndOfStream(n) THEN MarkClosed(x) ELSE ReadData(x, n)
  BY DEF ep_tcp_server_slave_process, Dispatching, kernelVars
<1> HIDE DEF n
<1>4. /\ fd' = fd /\ rx' = [rx EXCEPT ![c] = 0]
      /\ fd_status' = fd_status \/ fd_status' = [fd_status EXCEPT ![x] = "close"]
  <2>1. CASE EndOfStream(n)
    <3>1. rx[c] = 0 /\ MarkClosed(x)
      BY <1>1, <1>2, <1>3, <2>1 DEF EndOfStream
    <3> QED
      BY <1>1, <3>1 DEF MarkClosed, TypeOK
  <2>2. CASE ~EndOfStream(n)
    <3>1. rx' = [rx EXCEPT ![c] = @ - n] /\ UNCHANGED ioVars
      BY <1>3, <2>2 DEF ReadData
    <3>2. rx[c] - n = 0
      BY <1>1, <1>2
    <3>3. rx' = [rx EXCEPT ![c] = 0]
      BY <3>1, <3>2
    <3> QED
      BY <3>1, <3>3 DEF ioVars
  <2> QED
    BY <2>1, <2>2
<1>5. Reachable' \subseteq Reachable
  <2>1. \A y \in Slaves : fd_status'[y] = "open" => fd_status[y] = "open"
    BY <1>4 DEF TypeOK, Handles
  <2> QED
    BY <1>3, <2>1, PurgeReaches
<1>6. \A y \in Reachable \cap Slaves : y # x => fd[y] # fd[x]
  BY <1>1 DEF IInv, Own, Holders
<1>7. rx'[c] = 0 /\ \A d \in Conns : rx'[d] > 0 => rx[d] > 0
  BY <1>1, <1>4 DEF TypeOK
<1>8. \A y \in Reachable \cap Slaves : owner[fd[y]] \in Conns
  BY DEF IInv, Own, Holders
<1> QED
  BY <1>3, <1>4, <1>5, <1>6, <1>7, <1>8 DEF Announced

LEMMA AnnouncedDispatch ==
    ASSUME TypeOK, IInv, Announced, BufLen >= MaxRx, Dispatch
    PROVE  Announced'
<1>1. ASSUME NEW u \in UdpServers, ep_udp_server_process(u) PROVE Announced'
  <2>1. /\ u \in server_u_queue /\ batch' = batch \ {fd[u]} /\ Purge
        /\ UNCHANGED <<server_t_queue, server_u_queue, ioVars, kernelVars, rx>>
    BY <1>1 DEF ep_udp_server_process, Dispatching
  <2>2. Reachable' \subseteq Reachable
    BY <2>1, PurgeReaches DEF ioVars
  <2>3. u \in Holders /\ u \notin Slaves /\ u \notin Conns
    BY <2>1, DistinctAssumption DEF Holders, Reachable, Handles
  <2>4. \A x \in Reachable \cap Slaves : fd[x] # fd[u]
    BY <2>3 DEF IInv, Own, Holders
  <2> QED
    BY <2>1, <2>2, <2>4, OtherEvents DEF ioVars, kernelVars
<1>2. ASSUME NEW f \in Fds, StrayEvent(f) PROVE Announced'
  <2>1. /\ batch' = batch \ {f} /\ Purge
        /\ UNCHANGED <<server_t_queue, server_u_queue, ioVars, kernelVars, peerVars>>
        /\ \A x \in Live : Dispatchable(x) => fd[x] # f
    BY <1>2 DEF StrayEvent, Dispatching
  <2>2. Reachable' \subseteq Reachable
    BY <2>1, PurgeReaches DEF ioVars
  <2>3. \A x \in Reachable \cap Slaves : fd[x] # f
    BY <2>1, DistinctAssumption DEF Reachable, TypeOK
  <2> QED
    BY <2>1, <2>2, <2>3, OtherEvents DEF ioVars, kernelVars, peerVars
<1> QED
  BY <1>1, <1>2, AnnouncedMaster, AnnouncedSlave, AnnouncedPoll DEF Dispatch

LEMMA AnnouncedPeer == ASSUME TypeOK, IInv, Announced, PeerStep PROVE Announced'
<1>1. UNCHANGED <<loopVars, queueVars, ioVars, owner, interest>> /\ ready \subseteq ready'
  BY DEF PeerStep, Connect, PeerSends, PeerCloses, PeerResets, SendDgram, RaiseEdge
<1>2. Reachable' = Reachable
  BY <1>1 DEF Reachable, Live, Dispatchable, queueVars, ioVars
<1>3. ASSUME NEW d \in Conns, rx'[d] > 0
      PROVE  rx[d] > 0 \/ \A f \in interest : owner[f] = d => f \in ready'
  <2>1. ASSUME NEW c \in Conns, PeerSends(c)
        PROVE  rx[d] > 0 \/ \A f \in interest : owner[f] = d => f \in ready'
    BY <1>3, <2>1 DEF PeerSends, RaiseEdge, TypeOK
  <2>2. ASSUME NEW c \in Conns, PeerResets(c)
        PROVE  rx[d] > 0
    BY <1>3, <2>2 DEF PeerResets, TypeOK
  <2>3. CASE rx' = rx
    BY <1>3, <2>3
  <2> QED
    BY <2>1, <2>2, <2>3 DEF PeerStep, Connect, PeerCloses, SendDgram
<1>4. \A x \in Reachable \cap Slaves : owner[fd[x]] \in Conns
  BY DEF IInv, Own, Holders
<1> QED
  BY <1>1, <1>2, <1>3, <1>4 DEF Announced, ioVars, loopVars

LEMMA AnnouncedStep ==
    ASSUME TypeOK, IInv, NoLostBytes, [Next]_vars
    PROVE  NoLostBytes'
<1> SUFFICES ASSUME BufLen >= MaxRx PROVE Announced'
  BY DEF NoLostBytes, Announced
<1>1. Announced
  BY DEF NoLostBytes, Announced
<1>2. CASE UNCHANGED vars
  BY <1>1, <1>2 DEF vars, Announced, Reachable, Live, Dispatchable, loopVars, queueVars,
                    ioVars, kernelVars, peerVars
<1> QED
  BY <1>1, <1>2, AnnouncedStart, AnnouncedWatch, AnnouncedPoll, AnnouncedDispatch, AnnouncedPeer
     DEF Next, LoopStep

\* Edge-triggered reading loses no wake-up: as long as one read can empty a
\* receive queue, unread bytes have an edge or an event that announces them.
THEOREM BytesKept == Spec => []NoLostBytes
<1>1. Init => NoLostBytes
  BY DistinctAssumption DEF Init, NoLostBytes
<1> QED
  BY <1>1, AnnouncedStep, Always, TypeCorrect, PTL DEF Spec

-----------------------------------------------------------------------------
(* Datagrams: one that waits at a watched socket is announced.              *)

\* NoLostDatagram, and that of datagrams that are not bunched one can wait.
Waiting ==
    /\ \A u \in server_u_queue \ bunched :
         fd[u] \in interest /\ dgrams[u] > 0 => fd[u] \in ready \cup batch
    /\ \A u \in UdpServers \ bunched : dgrams[u] <= 1

\* A UDP server's descriptor is its own.
LEMMA UdpHolds ==
    ASSUME TypeOK, IInv, NEW u \in server_u_queue
    PROVE  /\ u \in UdpServers /\ u \in Handles /\ u \in Holders /\ u \notin Slaves
           /\ fd[u] \in Fds /\ owner[fd[u]] = u
           /\ \A h \in Holders : fd[h] = fd[u] => h = u
<1>1. u \in UdpServers /\ u \in Handles /\ u \in Holders /\ u \notin Slaves
  BY DistinctAssumption DEF TypeOK, Handles, Holders, Reachable
<1> QED
  BY <1>1 DEF IInv, Own

LEMMA WaitingStart == ASSUME TypeOK, IInv, Waiting, Start PROVE Waiting'
<1>1. UNCHANGED <<batch, ready, interest, dgrams, bunched>>
  BY DEF Start, tp_server_start, up_server_start, StartMaster, StartFails, loopVars,
         ioVars, peerVars
<1>2. PICK s \in TcpServers \cup UdpServers, f \in FreeFds :
        /\ s \notin server_t_queue \cup server_u_queue \/ UNCHANGED server_u_queue
        /\ \/ UNCHANGED <<fd, server_u_queue>>
           \/ /\ fd' = [fd EXCEPT ![s] = f]
              /\ s \notin server_u_queue
              /\ server_u_queue' \subseteq server_u_queue \cup {s}
  BY DistinctAssumption DEF Start, tp_server_start, up_server_start, StartMaster, StartFails,
     net_socket, IsNewFd, queueVars, ioVars, TypeOK
<1>3. f \notin interest
  BY DEF FreeFds, IInv, Events
<1>4. s \in Handles
  BY DEF Handles
<1>5. fd \in [Handles -> Fds \cup {-1}] /\ server_u_queue \subseteq Handles
  BY DEF TypeOK, Handles
<1> QED
  BY <1>1, <1>2, <1>3, <1>4, <1>5 DEF Waiting

LEMMA WaitingWatch == ASSUME TypeOK, IInv, Waiting, ep_ip_watcher_oper PROVE Waiting'
<1> DEFINE h == Head(watcher_queue)
           f == fd[h]
<1>1. /\ h \in Queued /\ h \in Holders
      /\ UNCHANGED <<batch, server_u_queue, fd, dgrams, bunched>>
  BY QueueTail DEF ep_ip_watcher_oper, loopVars, ioVars, Holders
<1>2. CASE UNCHANGED <<interest, ready>>
  BY <1>1, <1>2 DEF Waiting
<1>3. CASE WatchAdd /\ BelowLimit /\ CanAdd(f)
  <2>1. /\ interest' = interest \cup {f}
        /\ ready' = IF Readable(owner[f]) THEN ready \cup {f} ELSE ready
    BY <1>3 DEF WatchAdd
  <2>2. ASSUME NEW u \in server_u_queue, fd[u] = f, dgrams[u] > 0 PROVE f \in ready'
    BY <2>1, <2>2, UdpHolds DEF Readable
  <2> QED
    BY <1>1, <2>1, <2>2 DEF Waiting
<1>4. CASE WatchDel /\ nevents > 0 /\ f \in interest
  <2>1. operate[h] = "del" /\ interest' = interest \ {f} /\ ready' = ready \ {f}
    BY <1>4 DEF WatchDel
  <2>2. h \in Slaves
    BY <1>1, <2>1 DEF IInv, Entries
  <2>3. \A u \in server_u_queue : fd[u] # f
    BY <1>1, <2>2, UdpHolds
  <2> QED
    BY <1>1, <2>1, <2>3 DEF Waiting
<1> QED
  BY <1>2, <1>3, <1>4 DEF ep_ip_watcher_oper, WatchAdd, WatchDel, WatchGarbage

LEMMA WaitingPoll ==
    ASSUME TypeOK, IInv, Waiting, EnterPoll \/ Poll \/ EpollWait \/ EpollTimeout \/ EndDispatch
    PROVE  Waiting'
<1>1. UNCHANGED <<server_u_queue, fd, interest, dgrams, bunched>>
  BY DEF EnterPoll, Poll, EpollWait, EpollTimeout, EndDispatch, kernelVars, queueVars, ioVars,
         peerVars
<1>2. CASE EpollWait
  <2>1. pc = "wait" /\ batch' = Reportable
    BY <1>2 DEF EpollWait
  <2>2. batch = {}
    BY <2>1 DEF IInv, Events
  <2>3. ASSUME NEW u \in server_u_queue, fd[u] \in ready, dgrams[u] > 0 PROVE fd[u] \in batch'
    BY <2>1, <2>3, UdpHolds DEF Reportable, Readable
  <2> QED
    BY <1>1, <2>2, <2>3 DEF Waiting
<1>3. CASE EnterPoll \/ Poll \/ EpollTimeout \/ EndDispatch
  <2>1. UNCHANGED <<batch, ready>>
    BY <1>3 DEF EnterPoll, Poll, EpollTimeout, EndDispatch, kernelVars
  <2> QED
    BY <1>1, <2>1 DEF Waiting
<1> QED
  BY <1>2, <1>3

\* The event of another handle.
LEMMA WaitingOther ==
    ASSUME TypeOK, IInv, Waiting, NEW f, \A u \in server_u_queue : fd[u] # f /\ fd'[u] = fd[u],
           batch' = batch \ {f},
           UNCHANGED <<server_u_queue, interest, ready, dgrams, bunched>>
    PROVE  Waiting'
  BY DEF Waiting

LEMMA WaitingDispatch == ASSUME TypeOK, IInv, Waiting, Dispatch PROVE Waiting'
<1>1. ASSUME NEW s \in TcpServers, ep_tcp_server_process(s) PROVE Waiting'
  <2>1. /\ s \in server_t_queue /\ batch' = batch \ {fd[s]}
        /\ UNCHANGED <<server_u_queue, interest, ready, dgrams, bunched>>
    BY <1>1 DEF ep_tcp_server_process, Dispatching
  <2>2. fd' = fd \/ \E x \in Slaves, f \in Fds : fd' = [fd EXCEPT ![x] = f]
    BY <1>1 DEF ep_tcp_server_process, AcceptOne, AcceptNoMemory, AcceptNoDescriptor, ioVars,
                FreeBlocks
  <2>3. s \in Holders /\ s \notin UdpServers
    BY <2>1, DistinctAssumption DEF Holders, Reachable, TypeOK
  <2>4. \A u \in server_u_queue : fd[u] # fd[s] /\ fd'[u] = fd[u]
    BY <2>2, <2>3, UdpHolds DEF TypeOK
  <2> QED
    BY <2>1, <2>4, WaitingOther
<1>2. ASSUME NEW x \in Slaves, ep_tcp_server_slave_process(x) PROVE Waiting'
  <2>1. /\ x \in Live /\ Dispatchable(x) /\ batch' = batch \ {fd[x]}
        /\ UNCHANGED <<server_u_queue, interest, ready, dgrams, bunched>>
    BY <1>2 DEF ep_tcp_server_slave_process, Dispatching, Dispatchable, kernelVars
  <2>2. fd' = fd
    BY <1>2 DEF ep_tcp_server_slave_process, MarkClosed, ReadData, ioVars
  <2>3. x \in Holders
    BY <2>1 DEF Holders, Reachable
  <2>4. \A u \in server_u_queue : fd[u] # fd[x]
    BY <2>3, UdpHolds
  <2> QED
    BY <2>1, <2>2, <2>4, WaitingOther
<1>3. ASSUME NEW v \in UdpServers, ep_udp_server_process(v) PROVE Waiting'
  <2>1. /\ v \in server_u_queue /\ batch' = batch \ {fd[v]}
        /\ dgrams' = [dgrams EXCEPT ![v] = IF @ > 0 THEN @ - 1 ELSE 0]
        /\ bunched' = IF dgrams'[v] = 0 THEN bunched \ {v} ELSE bunched
        /\ UNCHANGED <<server_u_queue, fd, interest, ready>>
    BY <1>3 DEF ep_udp_server_process, up_udp_recvmsg, Dispatching, ioVars, kernelVars
  <2>2. dgrams[v] \in Nat /\ (v \notin bunched => dgrams[v] <= 1)
    BY DEF Waiting, TypeOK
  <2>3. PICK n \in Nat : n = dgrams'[v] /\ (v \notin bunched => n = 0)
    BY <2>1, <2>2 DEF TypeOK
  <2>4. \A u \in UdpServers \ {v} : dgrams'[u] = dgrams[u]
    BY <2>1 DEF TypeOK
  <2>5. \A u \in server_u_queue : u # v => fd[u] # fd[v]
    BY <2>1, UdpHolds
  <2>6. v \notin bunched' => dgrams'[v] = 0
    BY <2>1, <2>3
  <2>7. \A u \in UdpServers \ {v} : u \in bunched <=> u \in bunched'
    BY <2>1
  <2>8. server_u_queue \subseteq UdpServers
    BY DEF TypeOK
  <2> QED
    BY <2>1, <2>4, <2>5, <2>6, <2>7, <2>8 DEF Waiting
<1>4. ASSUME NEW f \in Fds, StrayEvent(f) PROVE Waiting'
  BY <1>4, WaitingOther DEF StrayEvent, Dispatching, ioVars, kernelVars, peerVars
<1> QED
  BY <1>1, <1>2, <1>3, <1>4, WaitingPoll DEF Dispatch

LEMMA WaitingPeer == ASSUME TypeOK, IInv, Waiting, PeerStep PROVE Waiting'
<1>1. UNCHANGED <<batch, server_u_queue, fd, interest>> /\ ready \subseteq ready'
  BY DEF PeerStep, Connect, PeerSends, PeerCloses, PeerResets, SendDgram, RaiseEdge,
         loopVars, queueVars, ioVars
<1>2. ASSUME NEW v \in UdpServers, SendDgram(v) PROVE Waiting'
  <2>1. /\ dgrams' = [dgrams EXCEPT ![v] = @ + 1] /\ dgrams[v] \in Nat
        /\ bunched' = IF dgrams[v] > 0 THEN bunched \cup {v} ELSE bunched
        /\ ready' = ready \cup {f \in interest : owner[f] = v}
    BY <1>2 DEF SendDgram, RaiseEdge, TypeOK
  <2>2. \A u \in server_u_queue : owner[fd[u]] = u
    BY UdpHolds
  <2>3. /\ \A u \in UdpServers : u # v => dgrams'[u] = dgrams[u] /\ (u \in bunched <=> u \in bunched')
        /\ v \notin bunched' => dgrams'[v] <= 1
    BY <2>1 DEF TypeOK
  <2>4. \A u \in server_u_queue : u \in UdpServers
    BY DEF TypeOK
  <2> QED
    BY <1>1, <2>1, <2>2, <2>3, <2>4 DEF Waiting
<1>3. CASE UNCHANGED <<dgrams, bunched>>
  BY <1>1, <1>3 DEF Waiting
<1> QED
  BY <1>2, <1>3 DEF PeerStep, Connect, PeerSends, PeerCloses, PeerResets

\* A datagram that waits at a watched socket has an edge or an event that
\* announces it, from any number of them, unless one came before the one ahead
\* of it was taken: no wake-up is lost between arrival and recvmsg.
THEOREM DatagramsKept == Spec => []NoLostDatagram
<1>1. Init => Waiting
  BY DEF Init, Waiting
<1>2. TypeOK /\ IInv /\ Waiting /\ [Next]_vars => Waiting'
  <2> SUFFICES ASSUME TypeOK, IInv, Waiting, [Next]_vars PROVE Waiting'
    OBVIOUS
  <2>1. CASE UNCHANGED vars
    BY <2>1 DEF vars, Waiting, loopVars, queueVars, ioVars, kernelVars, peerVars
  <2> QED
    BY <2>1, WaitingStart, WaitingWatch, WaitingPoll, WaitingDispatch, WaitingPeer DEF Next, LoopStep
<1>3. Waiting => NoLostDatagram
  BY DEF Waiting, NoLostDatagram
<1> QED
  BY <1>1, <1>2, <1>3, Always, TypeCorrect, PTL DEF Spec

-----------------------------------------------------------------------------
(* What is promised to be watched is watched before the loop sleeps.        *)

\* Whoever an event can reach is watched or waits for it in watcher_queue,
\* which is empty when the loop sleeps.
Promised ==
    /\ \A h \in Reachable : fd[h] \in interest \/ h \in Queued
    /\ pc = "wait" => watcher_queue = <<>>

\* The other entries stay in the queue.
LEMMA QueueRest ==
    ASSUME TypeOK, watcher_queue # <<>>, watcher_queue' = Tail(watcher_queue)
    PROVE  \A h \in Queued : h = Head(watcher_queue) \/ h \in Queued'
<1> DEFINE q == watcher_queue
<1>1. q \in Seq(Handles) /\ q # <<>> /\ q' = Tail(q)
  BY DEF TypeOK
<1>2. /\ DOMAIN q = 1..Len(q) /\ DOMAIN q' = 1..(Len(q) - 1) /\ Len(q) \in Nat \ {0}
      /\ Head(q) = q[1]
      /\ \A i \in DOMAIN q' : q'[i] = q[i + 1]
  BY <1>1
<1>3. ASSUME NEW i \in DOMAIN q, i # 1 PROVE i - 1 \in DOMAIN q' /\ q'[i - 1] = q[i]
  BY <1>2, <1>3
<1> QED
  BY <1>2, <1>3 DEF Queued

\* A step that watches nothing, forgets no entry and reaches nobody new.
LEMMA PromisedFrame ==
    ASSUME Promised, Reachable' \subseteq Reachable, Queued \subseteq Queued', pc' # "wait",
           UNCHANGED <<fd, interest>>
    PROVE  Promised'
  BY DEF Promised

LEMMA PromisedStart == ASSUME TypeOK, IInv, Promised, Start PROVE Promised'
<1>1. pc' # "wait" /\ interest' = interest
  BY DEF Start, tp_server_start, up_server_start, StartMaster, StartFails, MayCall, loopVars
<1>2. ASSUME NEW s \in TcpServers \cup UdpServers, StartMaster(s), Live' \subseteq Live,
             s \notin server_t_queue \cup server_u_queue,
             server_t_queue' \cup server_u_queue' = server_t_queue \cup server_u_queue \cup {s}
      PROVE  Promised'
  <2>1. PICK f \in Fds : fd' = [fd EXCEPT ![s] = f]
    BY <1>2 DEF StartMaster
  <2>2. watcher_queue' = Enqueue(s) /\ fd_status' = fd_status
    BY <1>2 DEF StartMaster
  <2>3. s \in Handles /\ s \notin Slaves
    BY DistinctAssumption DEF Handles
  <2>4. Queued' = Queued \cup {s}
    BY <2>2, <2>3, QueueAppend
  <2>5. Reachable' \subseteq Reachable \cup {s}
    BY <1>2, <2>2 DEF Reachable, Dispatchable
  <2>6. s \notin Reachable /\ Reachable \subseteq Handles
    BY <1>2, <2>3 DEF Reachable, Dispatchable, Live, TypeOK, Handles
  <2>7. \A h \in Reachable : fd'[h] = fd[h]
    BY <2>1, <2>6 DEF TypeOK
  <2> QED
    BY <1>1, <2>4, <2>5, <2>7 DEF Promised
<1>3. ASSUME NEW s \in TcpServers, tp_server_start(s) PROVE Promised'
  <2>1. s \notin server_u_queue
    BY DistinctAssumption DEF TypeOK
  <2>2. Live' \subseteq Live
    BY <1>3 DEF tp_server_start, Live, TypeOK
  <2> QED
    BY <1>2, <1>3, <2>1, <2>2 DEF tp_server_start
<1>4. ASSUME NEW u \in UdpServers, up_server_start(u) PROVE Promised'
  <2>1. u \notin server_t_queue
    BY DistinctAssumption DEF TypeOK
  <2>2. Live' \subseteq Live
    BY <1>4 DEF up_server_start, Live
  <2> QED
    BY <1>2, <1>4, <2>1, <2>2 DEF up_server_start
<1>5. ASSUME NEW s \in TcpServers \cup UdpServers, StartFails(s) PROVE Promised'
  <2>1. UNCHANGED <<queueVars, ioVars>>
    BY <1>5 DEF StartFails
  <2>2. Reachable' = Reachable /\ Queued' = Queued
    BY <2>1 DEF Reachable, Live, Dispatchable, Queued, queueVars, ioVars
  <2> QED
    BY <1>1, <2>1, <2>2, PromisedFrame DEF ioVars
<1> QED
  BY <1>3, <1>4, <1>5 DEF Start

\* Below the limit an ADD entry is added; a DEL entry or one whose memory was
\* freed belongs to nobody an event can reach.
LEMMA PromisedWatch ==
    ASSUME TypeOK, IInv, NeventsExact, Promised, LOOP_EPOOL_MAX >= Cardinality(Fds),
           ep_ip_watcher_oper
    PROVE  Promised'
<1> DEFINE h == Head(watcher_queue)
           f == fd[h]
<1>1. /\ pc' = "watch" /\ watcher_queue # <<>> /\ watcher_queue' = Tail(watcher_queue)
      /\ UNCHANGED <<server_t_queue, server_u_queue, slave_queue, fd, fd_status, operate>>
      /\ WatchAdd \/ WatchDel \/ WatchGarbage
  BY DEF ep_ip_watcher_oper, loopVars, ioVars
<1>2. h \in Queued /\ h \in Holders /\ \A g \in Queued : g = h \/ g \in Queued'
  BY <1>1, QueueTail, QueueRest DEF Holders
<1>3. Reachable' = Reachable
  BY <1>1 DEF Reachable, Live, Dispatchable
<1>4. CASE WatchAdd
  <2>1. operate[h] = "add" /\ f \notin interest
    BY <1>2, <1>4 DEF WatchAdd, IInv, Entries
  <2>2. f \in Fds /\ owner[f] # NoSock
    BY <1>2, HoldersOpen DEF IInv
  <2>3. BelowLimit
    <3>1. IsFiniteSet(interest) /\ IsFiniteSet(Fds) /\ interest \cup {f} \subseteq Fds
      BY <2>2, FdsAssumption, FS_Subset DEF TypeOK
    <3>2. Cardinality(interest \cup {f}) = Cardinality(interest) + 1
      BY <2>1, <3>1, FS_AddElement
    <3>3. Cardinality(interest \cup {f}) <= Cardinality(Fds)
      BY <3>1, FS_Subset
    <3>4. Cardinality(interest) \in Nat /\ Cardinality(Fds) \in Nat
      BY <3>1, FS_CardinalityType
    <3> QED
      BY <3>2, <3>3, <3>4, BoundsAssumption DEF BelowLimit, NeventsExact
  <2>4. interest' = interest \cup {f}
    BY <1>4, <2>1, <2>2, <2>3 DEF WatchAdd, CanAdd
  <2> QED
    BY <1>1, <1>2, <1>3, <2>4 DEF Promised
<1>5. CASE WatchDel
  <2>1. operate[h] = "del" /\ (interest' = interest \/ interest' = interest \ {f})
    BY <1>5 DEF WatchDel
  <2>2. h \in Slaves /\ fd_status[h] = "close"
    BY <1>2, <2>1 DEF IInv, Entries
  <2>3. h \notin Reachable
    BY <2>2, DistinctAssumption DEF Reachable, Dispatchable, TypeOK
  <2>4. \A g \in Reachable : fd[g] # f
    BY <1>2, <2>3 DEF IInv, Own, Holders
  <2> QED
    BY <1>1, <1>2, <1>3, <2>1, <2>3, <2>4 DEF Promised
<1>6. CASE WatchGarbage
  <2>1. interest' = interest /\ h \in Slaves \ Live
    BY <1>6 DEF WatchGarbage, Dangling
  <2>2. h \notin Reachable
    BY <2>1, DistinctAssumption DEF Reachable, TypeOK
  <2> QED
    BY <1>1, <1>2, <1>3, <2>1, <2>2 DEF Promised
<1> QED
  BY <1>1, <1>4, <1>5, <1>6

LEMMA PromisedPoll ==
    ASSUME Promised, EnterPoll \/ Poll \/ EpollWait \/ EpollTimeout \/ EndDispatch \/ PeerStep
    PROVE  Promised'
<1>1. UNCHANGED <<queueVars, ioVars, interest>>
  BY DEF EnterPoll, Poll, EpollWait, EpollTimeout, EndDispatch, kernelVars,
         PeerStep, Connect, PeerSends, PeerCloses, PeerResets, SendDgram
<1>2. Reachable' = Reachable /\ Queued' = Queued
  BY <1>1 DEF Reachable, Live, Dispatchable, Queued, queueVars, ioVars
<1>3. pc' = "wait" => watcher_queue = <<>>
  BY DEF Promised, EnterPoll, Poll, EpollWait, EpollTimeout, EndDispatch,
         PeerStep, Connect, PeerSends, PeerCloses, PeerResets, SendDgram, loopVars
<1> QED
  BY <1>1, <1>2, <1>3 DEF Promised, queueVars, ioVars

LEMMA PromisedDispatch == ASSUME TypeOK, IInv, Promised, Dispatch PROVE Promised'
<1>1. ASSUME NEW s \in TcpServers, ep_tcp_server_process(s) PROVE Promised'
  <2>1. /\ pc = "dispatch" /\ UNCHANGED <<server_t_queue, server_u_queue, interest>>
    BY <1>1 DEF ep_tcp_server_process, Dispatching
  <2>2. CASE AcceptOne(s)
    <3>1. PICK x \in FreeBlocks, f \in Fds :
            /\ fd' = [fd EXCEPT ![x] = f]
            /\ fd_status' = [fd_status EXCEPT ![x] = "open"]
            /\ watcher_queue' = Enqueue(x)
            /\ slave_queue' = [t \in TcpServers |->
                                 Unfreed(slave_queue[t]) \cup (IF t = s THEN {x} ELSE {})]
      BY <2>2 DEF AcceptOne
    <3>2. x \in Slaves /\ x \in Handles /\ x \notin Live
      BY DEF FreeBlocks, Handles
    <3>3. Queued' = Queued \cup {x}
      BY <3>1, <3>2, QueueAppend
    <3>4. Live' \subseteq Live \cup {x}
      BY <3>1 DEF Live, Unfreed
    <3>5. \A y \in Live : fd_status'[y] = fd_status[y]
      BY <3>1, <3>2 DEF TypeOK
    <3>6. Reachable' \subseteq Reachable \cup {x}
      BY <2>1, <3>4, <3>5 DEF Reachable, Dispatchable
    <3>7. x \notin Reachable
      BY <3>2, DistinctAssumption DEF Reachable, TypeOK
    <3>8. Reachable \subseteq Handles
      BY DEF Reachable, Live, TypeOK, Handles
    <3>9. \A y \in Reachable : fd'[y] = fd[y]
      BY <3>1, <3>7, <3>8 DEF TypeOK
    <3>10. pc' # "wait"
      BY <2>1, <2>2 DEF AcceptOne
    <3> QED
      BY <2>1, <3>3, <3>6, <3>9, <3>10 DEF Promised
  <2>3. CASE AcceptNoMemory \/ AcceptNoDescriptor
    <3>1. /\ UNCHANGED <<ioVars, watcher_queue>> /\ (Purge \/ slave_queue' = slave_queue)
          /\ pc' # "wait"
      BY <2>1, <2>3 DEF AcceptNoMemory, AcceptNoDescriptor
    <3>2. Reachable' \subseteq Reachable
      <4>1. CASE Purge
        BY <2>1, <3>1, <4>1, PurgeReaches DEF ioVars
      <4>2. CASE slave_queue' = slave_queue
        BY <2>1, <3>1, <4>2 DEF Reachable, Live, Dispatchable, ioVars
      <4> QED
        BY <3>1, <4>1, <4>2
    <3> QED
      BY <2>1, <3>1, <3>2, PromisedFrame DEF ioVars, Queued
  <2> QED
    BY <1>1, <2>2, <2>3 DEF ep_tcp_server_process
<1>2. ASSUME NEW x \in Slaves, ep_tcp_server_slave_process(x) PROVE Promised'
  <2>1. /\ pc' = "dispatch" /\ Purge
        /\ UNCHANGED <<server_t_queue, server_u_queue, interest>>
        /\ MarkClosed(x) \/ \E n : ReadData(x, n)
    BY <1>2 DEF ep_tcp_server_slave_process, Dispatching, kernelVars
  <2>2. /\ fd' = fd
        /\ fd_status' = fd_status \/ fd_status' = [fd_status EXCEPT ![x] = "close"]
        /\ watcher_queue' = watcher_queue \/ watcher_queue' = Enqueue(x)
    BY <2>1 DEF MarkClosed, ReadData, ioVars
  <2>3. Reachable' \subseteq Reachable
    <3>1. \A y \in Slaves : fd_status'[y] = "open" => fd_status[y] = "open"
      BY <2>2 DEF TypeOK, Handles
    <3> QED
      BY <2>1, <3>1, PurgeReaches
  <2>4. Queued \subseteq Queued'
    <3>1. CASE watcher_queue' = watcher_queue
      BY <3>1 DEF Queued
    <3>2. CASE watcher_queue' = Enqueue(x)
      <4>1. x \in Handles
        BY DEF Handles
      <4> QED
        BY <3>2, <4>1, QueueAppend
    <3> QED
      BY <2>2, <3>1, <3>2
  <2> QED
    BY <2>1, <2>2, <2>3, <2>4, PromisedFrame
<1>3. ASSUME NEW u \in UdpServers, ep_udp_server_process(u) PROVE Promised'
  <2>1. /\ pc' = "dispatch" /\ Purge
        /\ UNCHANGED <<server_t_queue, server_u_queue, watcher_queue, ioVars, interest>>
    BY <1>3 DEF ep_udp_server_process, Dispatching, kernelVars
  <2> QED
    BY <2>1, PurgeReaches, PromisedFrame DEF ioVars, Queued
<1>4. ASSUME NEW f \in Fds, StrayEvent(f) PROVE Promised'
  <2>1. /\ pc' = "dispatch" /\ Purge
        /\ UNCHANGED <<server_t_queue, server_u_queue, watcher_queue, ioVars, interest>>
    BY <1>4 DEF StrayEvent, Dispatching, kernelVars
  <2> QED
    BY <2>1, PurgeReaches, PromisedFrame DEF ioVars, Queued
<1> QED
  BY <1>1, <1>2, <1>3, <1>4, PromisedPoll DEF Dispatch

\* When the loop sleeps, every server and every connection in service is
\* watched, unless there are more descriptors than LOOP_EPOOL_MAX.
THEOREM EverybodyWatched == Spec => []AllWatched
<1>1. Init => Promised
  BY DEF Init, Promised, Reachable, Live, Dispatchable
<1>2. /\ TypeOK /\ IInv /\ NeventsExact /\ LOOP_EPOOL_MAX >= Cardinality(Fds)
      /\ Promised /\ [Next]_vars
      => Promised'
  <2> SUFFICES ASSUME TypeOK, IInv, NeventsExact, LOOP_EPOOL_MAX >= Cardinality(Fds),
                      Promised, [Next]_vars
               PROVE  Promised'
    OBVIOUS
  <2>1. CASE UNCHANGED vars
    BY <2>1 DEF vars, Promised, Reachable, Live, Dispatchable, Queued,
                loopVars, queueVars, ioVars, kernelVars, peerVars
  <2> QED
    BY <2>1, PromisedStart, PromisedWatch, PromisedPoll, PromisedDispatch DEF Next, LoopStep
<1>3. Promised => AllWatched
  BY DEF Promised, AllWatched, Queued
<1>4. CASE LOOP_EPOOL_MAX >= Cardinality(Fds)
  BY <1>1, <1>2, <1>3, <1>4, Always, TypeCorrect, CountKept, PTL DEF Spec
<1>5. CASE ~(LOOP_EPOOL_MAX >= Cardinality(Fds))
  <2>1. AllWatched
    BY <1>5 DEF AllWatched
  <2> QED
    BY <2>1, PTL
<1> QED
  BY <1>4, <1>5


-----------------------------------------------------------------------------
(* No open connection is forgotten, but by a freed and overwritten entry.    *)

\* NoOrphan, and that a server that was not started serves nobody.
Kept ==
    /\ NoOrphan
    /\ \A s \in TcpServers \ server_t_queue : slave_queue[s] = {}

\* A step that opens no connection, forgets no slave in service and keeps the
\* DEL entries that will close something.
LEMMA KeptFrame ==
    ASSUME NoOrphan,
           \A f \in Fds : owner'[f] \in Conns => owner[f] \in Conns,
           \A x \in Live : fd_status[x] = "open" =>
             x \in Live' /\ fd_status'[x] = "open" /\ fd'[x] = fd[x],
           leaked \subseteq leaked',
           \A h \in Queued : fd_status[h] = "close" /\ fd[h] \in interest /\ fd[h] \notin leaked' =>
             /\ h \in Queued' /\ fd_status'[h] = "close" /\ fd'[h] = fd[h]
             /\ fd[h] \in interest'
    PROVE  NoOrphan'
  BY DEF NoOrphan, Dispatchable

\* The scan frees nobody in service, and gives no slave to another server.
LEMMA PurgeServes ==
    ASSUME TypeOK, Purge
    PROVE  /\ \A x \in Live : fd_status[x] = "open" => x \in Live'
           /\ \A s \in TcpServers : slave_queue[s] = {} => slave_queue'[s] = {}
  BY DEF Purge, Unfreed, Live, TypeOK

\* A step of the dispatch that marks nobody and accepts nobody.
LEMMA KeptScan ==
    ASSUME TypeOK, Kept, Purge \/ slave_queue' = slave_queue,
           UNCHANGED <<server_t_queue, watcher_queue, ioVars, owner, interest, leaked>>
    PROVE  Kept'
<1>1. /\ \A x \in Live : fd_status[x] = "open" => x \in Live'
      /\ \A s \in TcpServers : slave_queue[s] = {} => slave_queue'[s] = {}
  BY PurgeServes DEF Live
<1>2. Queued' = Queued
  BY DEF Queued
<1>3. NoOrphan'
  BY <1>1, <1>2, KeptFrame DEF Kept, ioVars
<1> QED
  BY <1>1, <1>3 DEF Kept

LEMMA KeptStart == ASSUME TypeOK, IInv, Kept, Start PROVE Kept'
<1>1. ASSUME NEW s \in TcpServers \cup UdpServers, StartMaster(s),
             s \notin server_t_queue \cup server_u_queue, slave_queue' = slave_queue
      PROVE  NoOrphan'
  <2>1. PICK f \in Fds : owner' = [owner EXCEPT ![f] = s] /\ fd' = [fd EXCEPT ![s] = f]
    BY <1>1 DEF StartMaster, net_socket
  <2>2. watcher_queue' = Enqueue(s) /\ UNCHANGED <<fd_status, interest, leaked>>
    BY <1>1 DEF StartMaster
  <2>3. s \in Handles /\ s \notin Slaves /\ s \notin Conns
    BY DistinctAssumption DEF Handles
  <2>4. s \notin Queued /\ Queued' = Queued \cup {s}
    BY <1>1, <2>2, <2>3, QueueAppend DEF IInv, Entries
  <2>5. \A g \in Fds : owner'[g] \in Conns => owner[g] \in Conns
    BY <2>1, <2>3 DEF TypeOK
  <2>6. Live' = Live /\ Live \subseteq Slaves
    BY <1>1 DEF Live, TypeOK
  <2>7. \A h \in Live \cup Queued : fd'[h] = fd[h]
    BY <2>1, <2>3, <2>4, <2>6 DEF TypeOK
  <2> QED
    BY <2>2, <2>4, <2>5, <2>6, <2>7, KeptFrame DEF Kept
<1>2. ASSUME NEW s \in TcpServers, tp_server_start(s) PROVE Kept'
  <2>1. /\ s \notin server_t_queue /\ server_t_queue' = server_t_queue \cup {s}
        /\ slave_queue' = [slave_queue EXCEPT ![s] = {}] /\ StartMaster(s)
    BY <1>2 DEF tp_server_start
  <2>2. s \notin server_u_queue
    BY DistinctAssumption DEF TypeOK
  <2>3. slave_queue' = slave_queue
    BY <2>1 DEF Kept, TypeOK
  <2> QED
    BY <1>1, <2>1, <2>2, <2>3 DEF Kept
<1>3. ASSUME NEW u \in UdpServers, up_server_start(u) PROVE Kept'
  <2>1. /\ u \notin server_u_queue /\ StartMaster(u)
        /\ UNCHANGED <<server_t_queue, slave_queue>>
    BY <1>3 DEF up_server_start
  <2>2. u \notin server_t_queue
    BY DistinctAssumption DEF TypeOK
  <2> QED
    BY <1>1, <2>1, <2>2 DEF Kept
<1>4. ASSUME NEW s \in TcpServers \cup UdpServers, StartFails(s) PROVE Kept'
  <2>1. PICK f \in Fds : owner' = [owner EXCEPT ![f] = s]
    BY <1>4 DEF StartFails, net_socket
  <2>2. UNCHANGED <<queueVars, ioVars, interest>>
    BY <1>4 DEF StartFails
  <2>3. \A g \in Fds : owner'[g] \in Conns => owner[g] \in Conns
    BY <2>1, DistinctAssumption DEF TypeOK, Handles
  <2>4. Live' = Live /\ Queued' = Queued
    BY <2>2 DEF Live, Queued, queueVars
  <2>5. NoOrphan'
    BY <2>2, <2>3, <2>4, KeptFrame DEF Kept, ioVars, queueVars
  <2> QED
    BY <2>2, <2>5 DEF Kept, queueVars
<1> QED
  BY <1>2, <1>3, <1>4 DEF Start

\* An entry that is done with has closed its descriptor, or had none to close.
LEMMA KeptWatch ==
    ASSUME TypeOK, IInv, NeventsExact, Kept, ep_ip_watcher_oper
    PROVE  Kept'
<1> DEFINE h == Head(watcher_queue)
           f == fd[h]
<1>1. /\ watcher_queue # <<>> /\ watcher_queue' = Tail(watcher_queue)
      /\ UNCHANGED <<server_t_queue, slave_queue, fd, fd_status, operate>>
      /\ WatchAdd \/ WatchDel \/ WatchGarbage
  BY DEF ep_ip_watcher_oper, ioVars
<1>2. h \in Queued /\ h \in Holders /\ \A g \in Queued : g = h \/ g \in Queued'
  BY <1>1, QueueTail, QueueRest DEF Holders
<1>3. Live' = Live
  BY <1>1 DEF Live
<1>4. CASE WatchAdd
  <2>1. operate[h] = "add" /\ f \notin interest
    BY <1>2, <1>4 DEF WatchAdd, IInv, Entries
  <2>2. owner' = owner /\ leaked' = leaked /\ interest \subseteq interest'
    BY <1>4 DEF WatchAdd
  <2>3. NoOrphan'
    BY <1>1, <1>2, <1>3, <2>1, <2>2, KeptFrame DEF Kept
  <2> QED
    BY <1>1, <2>3 DEF Kept
<1>5. CASE WatchDel /\ nevents > 0 /\ f \in interest
  <2>1. operate[h] = "del" /\ interest' = interest \ {f}
    BY <1>5 DEF WatchDel
  <2>2. h \in Slaves /\ fd_status[h] = "close"
    BY <1>2, <2>1 DEF IInv, Entries
  <2>3. owner' = [owner EXCEPT ![f] = NoSock] /\ leaked' = leaked
    BY <1>5, <2>2 DEF WatchDel, Closes, CloseFd
  <2>4. ASSUME NEW g \in Fds, owner'[g] \in Conns PROVE owner[g] \in Conns /\ g # f
    BY <1>5, <2>3, <2>4, DistinctAssumption DEF TypeOK, Sockets
  <2>5. ASSUME NEW k \in Queued, fd[k] # f, fd[k] \in interest
        PROVE  k \in Queued' /\ fd[k] \in interest'
    BY <1>2, <2>1, <2>5
  <2>6. NoOrphan'
    BY <1>1, <1>3, <2>3, <2>4, <2>5 DEF Kept, NoOrphan, Dispatchable
  <2> QED
    BY <1>1, <2>6 DEF Kept
<1>6. CASE WatchDel /\ ~(nevents > 0 /\ f \in interest)
  <2>1. UNCHANGED <<owner, interest, leaked>>
    BY <1>6 DEF WatchDel
  <2>2. f \notin interest
    <3>1. IsFiniteSet(interest)
      BY FdsAssumption, FS_Subset DEF TypeOK
    <3>2. Cardinality(interest) \in Nat /\ (Cardinality(interest) = 0 <=> interest = {})
      BY <3>1, FS_CardinalityType, FS_EmptySet
    <3> QED
      BY <1>6, <3>2 DEF NeventsExact
  <2>3. NoOrphan'
    BY <1>1, <1>2, <1>3, <2>1, <2>2, KeptFrame DEF Kept
  <2> QED
    BY <1>1, <2>3 DEF Kept
<1>7. CASE WatchGarbage
  <2>1. UNCHANGED <<owner, interest>> /\ leaked' = leaked \cup {f}
    BY <1>7 DEF WatchGarbage
  <2>2. NoOrphan'
    BY <1>1, <1>2, <1>3, <2>1, KeptFrame DEF Kept
  <2> QED
    BY <1>1, <2>2 DEF Kept
<1> QED
  BY <1>1, <1>4, <1>5, <1>6, <1>7

LEMMA KeptPoll ==
    ASSUME TypeOK, Kept, EnterPoll \/ Poll \/ EpollWait \/ EpollTimeout \/ EndDispatch \/ PeerStep
    PROVE  Kept'
<1>1. UNCHANGED <<queueVars, ioVars, owner, interest>>
  BY DEF EnterPoll, Poll, EpollWait, EpollTimeout, EndDispatch, kernelVars,
         PeerStep, Connect, PeerSends, PeerCloses, PeerResets, SendDgram
<1> QED
  BY <1>1, KeptScan DEF queueVars

\* The new connection has a slave of its own.
LEMMA KeptAccept ==
    ASSUME TypeOK, IInv, Kept, NEW s \in server_t_queue, AcceptOne(s),
           UNCHANGED <<server_t_queue, interest, leaked>>
    PROVE  Kept'
<1>1. PICK x \in FreeBlocks, f \in Fds :
        /\ owner' = [owner EXCEPT ![f] = Head(backlog[s])]
        /\ fd' = [fd EXCEPT ![x] = f]
        /\ fd_status' = [fd_status EXCEPT ![x] = "open"]
        /\ watcher_queue' = Enqueue(x)
        /\ slave_queue' = [t \in TcpServers |->
                             Unfreed(slave_queue[t]) \cup (IF t = s THEN {x} ELSE {})]
  BY DEF AcceptOne
<1>2. x \in Slaves /\ x \in Handles /\ x \notin Live /\ x \notin Queued
  BY DEF FreeBlocks, Handles
<1>3. Queued' = Queued \cup {x}
  BY <1>1, <1>2, QueueAppend
<1>4. s \in TcpServers
  BY DEF TypeOK
<1>5. x \in Live' /\ \A y \in Live : fd_status[y] = "open" => y \in Live'
  BY <1>1, <1>4 DEF Live, Unfreed
<1>6. x \in Slaves /\ fd'[x] = f /\ fd_status'[x] = "open"
  BY <1>1, <1>2 DEF TypeOK
<1>7. Live \subseteq Handles /\ Queued \subseteq Handles
  BY DEF Live, Queued, TypeOK, Handles
<1>8. \A y \in Live \cup Queued : fd'[y] = fd[y] /\ fd_status'[y] = fd_status[y]
  BY <1>1, <1>2, <1>7 DEF TypeOK
<1>9. \A g \in Fds : g # f => owner'[g] = owner[g]
  BY <1>1 DEF TypeOK
<1>10. NoOrphan'
  <2> SUFFICES ASSUME NEW g \in Fds \ leaked, owner'[g] \in Conns
               PROVE  \/ \E y \in Live' : fd_status'[y] = "open" /\ fd'[y] = g
                      \/ \E h \in Queued' : fd'[h] = g /\ fd_status'[h] = "close" /\ g \in interest'
    BY DEF NoOrphan, Dispatchable
  <2>1. CASE g = f
    BY <1>5, <1>6, <2>1
  <2>2. CASE g # f
    BY <1>3, <1>5, <1>8, <1>9, <2>2 DEF Kept, NoOrphan, Dispatchable
  <2> QED
    BY <2>1, <2>2
<1>11. \A t \in TcpServers \ server_t_queue : slave_queue'[t] = {}
  BY <1>1 DEF Kept, Unfreed
<1> QED
  BY <1>10, <1>11 DEF Kept

LEMMA KeptSlave ==
    ASSUME TypeOK, IInv, Kept, NEW x \in Slaves, ep_tcp_server_slave_process(x)
    PROVE  Kept'
<1>1. /\ Purge /\ UNCHANGED <<server_t_queue, owner, interest, leaked>>
      /\ MarkClosed(x) \/ \E n : ReadData(x, n)
  BY DEF ep_tcp_server_slave_process, kernelVars
<1>2. CASE \E n : ReadData(x, n)
  BY <1>1, <1>2, KeptScan DEF ReadData
<1>3. CASE MarkClosed(x)
  <2>1. /\ fd_status' = [fd_status EXCEPT ![x] = "close"]
        /\ watcher_queue' = Enqueue(x) /\ fd' = fd
    BY <1>3 DEF MarkClosed
  <2>2. x \in Handles /\ fd[x] \in interest
    BY SlaveEvent DEF IInv, Events, Handles
  <2>3. Queued' = Queued \cup {x}
    BY <2>1, <2>2, QueueAppend
  <2>4. Live \subseteq Handles /\ Queued \subseteq Handles
    BY DEF Live, Queued, TypeOK, Handles
  <2>5. fd_status'[x] = "close" /\ \A h \in Live \cup Queued : h # x => fd_status'[h] = fd_status[h]
    BY <2>1, <2>2, <2>4 DEF TypeOK
  <2>6. NoOrphan'
    <3> SUFFICES ASSUME NEW g \in Fds \ leaked, owner'[g] \in Conns
                 PROVE  \/ \E y \in Live' : fd_status'[y] = "open" /\ fd'[y] = g
                        \/ \E h \in Queued' : fd'[h] = g /\ fd_status'[h] = "close" /\ g \in interest'
      BY <1>1 DEF NoOrphan, Dispatchable
    <3>1. CASE g = fd[x]
      BY <1>1, <2>1, <2>2, <2>3, <2>5, <3>1
    <3>2. CASE g # fd[x]
      BY <1>1, <2>1, <2>3, <2>5, <3>2, PurgeServes DEF Kept, NoOrphan, Dispatchable
    <3> QED
      BY <3>1, <3>2
  <2> QED
    BY <1>1, <2>6, PurgeServes DEF Kept
<1> QED
  BY <1>1, <1>2, <1>3

LEMMA KeptDispatch == ASSUME TypeOK, IInv, Kept, Dispatch PROVE Kept'
<1>1. ASSUME NEW s \in TcpServers, ep_tcp_server_process(s) PROVE Kept'
  <2>1. s \in server_t_queue /\ UNCHANGED <<server_t_queue, interest, leaked>>
    BY <1>1 DEF ep_tcp_server_process
  <2>2. CASE AcceptNoMemory \/ AcceptNoDescriptor
    BY <2>1, <2>2, KeptScan DEF AcceptNoMemory, AcceptNoDescriptor
  <2> QED
    BY <1>1, <2>1, <2>2, KeptAccept DEF ep_tcp_server_process
<1>2. ASSUME NEW u \in UdpServers, ep_udp_server_process(u) PROVE Kept'
  BY <1>2, KeptScan DEF ep_udp_server_process, kernelVars
<1>3. ASSUME NEW f \in Fds, StrayEvent(f) PROVE Kept'
  BY <1>3, KeptScan DEF StrayEvent, kernelVars
<1> QED
  BY <1>1, <1>2, <1>3, KeptSlave, KeptPoll DEF Dispatch

\* No descriptor leaks, whatever freed memory holds: a connection the process
\* holds open is served or has a queued entry that will close it, but for those
\* whose entry was worked off in memory that was freed and overwritten.
THEOREM NoneOrphaned == Spec => []NoOrphan
<1>1. Init => Kept
  BY DistinctAssumption DEF Init, Kept, NoOrphan, Sockets
<1>2. TypeOK /\ IInv /\ NeventsExact /\ Kept /\ [Next]_vars => Kept'
  <2> SUFFICES ASSUME TypeOK, IInv, NeventsExact, Kept, [Next]_vars PROVE Kept'
    OBVIOUS
  <2>1. CASE UNCHANGED vars
    BY <2>1, KeptScan DEF vars, loopVars, queueVars, kernelVars
  <2> QED
    BY <2>1, KeptStart, KeptWatch, KeptPoll, KeptDispatch DEF Next, LoopStep
<1>3. Kept => NoOrphan
  BY DEF Kept
<1> QED
  BY <1>1, <1>2, <1>3, Always, TypeCorrect, CountKept, PTL DEF Spec

=============================================================================
