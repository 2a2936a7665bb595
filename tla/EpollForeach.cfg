SPECIFICATION Spec
CONSTANTS
  TcpServers = {t1}
  UdpServers = {}
  Slaves = {a, b}
  Conns = {c1, c2}
  Fds <- SomeFds
  NoSock = NoSock
  LOOP_EPOOL_MAX = 4
  TCP_CONN_MAX = 2
  BufLen = 1
  MaxRx = 1
  MaxDgrams = 1
  WithDebug = FALSE
  FreedIntact = {TRUE}
PROPERTY ForeachListStable
