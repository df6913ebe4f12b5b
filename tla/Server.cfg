\* Two descriptors, used again and again, and one worker: the reactor, the worker
\* and the clients race, and every exchange ends.
SPECIFICATION Spec
CONSTANTS
  Fds = {f1, f2}
  NoFd = NoFd
  StdinFd = StdinFd
  Workers = {w1}
  Main = Main
  MaxRequests = 2
  MaxFd = 1
  ReadSize = 1
  WriteSize = 1
  MaxRcv = 1
  MaxBacklog = 1
  RequestsFit = TRUE
  OneClient = FALSE
INVARIANTS OneHolder PhaseMatches
PROPERTIES HangupCloses ImplementsOwnership
