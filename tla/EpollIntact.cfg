SPECIFICATION FairSpec
CONSTANTS
  TcpServers = {t1}
  UdpServers = {}
  Slaves = {a, b}
  Conns = {c1, c2}
  Fds = {3, 4, 5}
  NoSock = NoSock
  LOOP_EPOOL_MAX = 3
  TCP_CONN_MAX = 2
  BufLen = 2
  MaxRx = 2
  MaxDgrams = 1
  WithDebug = FALSE
  FreedIntact = {TRUE}
INVARIANT AllWatched
PROPERTIES ClosedIsReleased DataIsRead AcceptedOneByOne EofNoticed
