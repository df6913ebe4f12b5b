\* Two workers, two callers and two requests race for a queue of at most two requests.
SPECIFICATION Spec
CONSTANTS
  Workers = {w1, w2}
  Callers = {c1, c2}
  Requests = {r1, r2}
  NullRequest = NullRequest
  NoThread = NoThread
  MaxRequests = 1
INVARIANTS TypeOK SemaphoreAccount NoFutileWakeup
PROPERTIES ImplementsTaskQueue
\* Once the destructor ran, the workers have ended, sleep in sem_wait(), or have
\* used what is gone.
CHECK_DEADLOCK FALSE
