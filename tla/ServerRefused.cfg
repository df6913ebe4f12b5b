\* Three connections, a queue of m_max_requests = 1, and one worker.
SPECIFICATION Spec
CONSTANTS
  Fds = {f1, f2, f3}
  NoFd = NoFd
  StdinFd = StdinFd
  Workers = {w1}
  Main = Main
  MaxRequests = 1
  MaxFd = 2
  ReadSize = 1
  WriteSize = 1
  MaxRcv = 1
  MaxBacklog = 1
  RequestsFit = TRUE
  OneClient = FALSE
SYMMETRY Symmetry
INVARIANTS NotAbandoned
