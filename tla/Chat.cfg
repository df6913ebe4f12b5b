\* Two users who arrive, talk, close and reset in any order, and others who are turned away.
SPECIFICATION Spec
CONSTANTS
  Fds = {f1, f2}
  NoFd = NoFd
  UserLimit = 2
  MaxText = 2
  MaxBacklog = 2
INVARIANTS TypeOK UsersAreConnections NoStrandedConnection NobodyDisarmed
PROPERTIES ClientsAreServed
\* The loop of recv() at the end of a stream may not end, and SIGPIPE ends the program.
CHECK_DEADLOCK FALSE
