\* The constants of the run pool: callers race for the last place in the queue.
SPECIFICATION Spec
CONSTANTS
  Workers = {w1, w2}
  Callers = {c1, c2}
  Requests = {r1, r2}
  NullRequest = NullRequest
  NoThread = NoThread
  MaxRequests = 1
SYMMETRY Symmetry
INVARIANTS QueueWithinMax
CHECK_DEADLOCK FALSE
