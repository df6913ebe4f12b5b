\* Threads may read their argument late.
SPECIFICATION Spec
CONSTANTS
  Fds = {f1, f2}
  NoFd = NoFd
  Threads = {t1, t2, t3}
  MaxRcv = 2
  ReadsAtOnce = FALSE
SYMMETRY Symmetry
INVARIANTS OneThread
CHECK_DEADLOCK FALSE
