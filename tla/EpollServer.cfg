SPECIFICATION Spec
CONSTANTS
  TcpServers = {t1}
  UdpServers = {u1}
  Slaves = {a, b}
  Conns = {c1, c2}
  Fds <- SomeFds
  NoSock = NoSock
  LOOP_EPOOL_MAX = 3
  TCP_CONN_MAX = 2
  BufLen = 2
  MaxRx = 2
  MaxDgrams = 2
  WithDebug = TRUE
  FreedIntact = {TRUE, FALSE}
SYMMETRY SlavesAndConns
CHECK_DEADLOCK FALSE
INVARIANTS TypeOK NeventsExact HandlesOwnFds NoLostBytes NoLostDatagram NoOrphan
PROPERTY OnlyFinishedClosed
