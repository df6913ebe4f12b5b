\* One connection, a request longer than read_buffer, two workers.
SPECIFICATION Spec
CONSTANTS
  Fds = {f1}
  NoFd = NoFd
  StdinFd = StdinFd
  Workers = {w1, w2}
  Main = Main
  MaxRequests = 1
  MaxFd = 1
  ReadSize = 2
  WriteSize = 1
  MaxRcv = 1
  MaxBacklog = 1
  RequestsFit = FALSE
  OneClient = TRUE
SYMMETRY Symmetry
INVARIANTS OneThread
\* OneClient: once the one client is served and gone nothing happens any more.
CHECK_DEADLOCK FALSE
