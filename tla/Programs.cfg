\* Signals of three kinds in every line of the program, the pair holding three;
\* lt(), et() and the echo server with two connections and more to read than a
\* reading takes; and a thread for each event of two connections, each of which
\* has read its argument before the next one is created.
SPECIFICATION RunSpec
CONSTANTS
  Kinds <- SomeKinds
  Capacity = 3
  ReadSize = 2
  Fds = {f1, f2}
  NoFd = NoFd
  Programs <- AllPrograms
  Chunk = 2
  MaxText = 3
  MaxUdp = 2
  Threads = {t1, t2}
  MaxRcv = 2
  ReadsAtOnce = TRUE
INVARIANTS TypesOK StopsOnlyForInterrupt EventsStandForInput WorkersTypeOK OneThread
PROPERTIES InterruptEnds ClosedOnlyWhenGone InputIsServed DataIsRead
\* A program ends after SIGINT, and by SIGPIPE; clients need not send anything, and
\* a connection whose event was lost is not served.
CHECK_DEADLOCK FALSE
