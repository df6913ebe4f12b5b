---------------------------- MODULE ConnOwnership ----------------------------
(****************************************************************************)
(* What EPOLLONESHOT is used for in src/src/http_server: an http_conn is      *)
(* worked on by one party at a time.  An open connection is watched by the    *)
(* kernel, in the hands of the reactor (main()), a task of the pool's queue,  *)
(* or processed by one worker, and it is handed from one to the next.  It is  *)
(* lost only when the queue is full: main.cpp does not look at what append()  *)
(* returns, and nobody has the connection any more.                           *)
(****************************************************************************)
EXTENDS Integers, FiniteSets

CONSTANTS Fds, Workers,
          MaxRequests   \* m_max_requests of the pool

VARIABLE holder

Owners == {"nobody", "kernel", "reactor", "queue", "lost"} \cup Workers

Init == holder = [f \in Fds |-> "nobody"]

Give(f, from, to) == /\ holder[f] = from
                     /\ holder' = [holder EXCEPT ![f] = to]

\* epoll_wait() reports a batch of connections at once and disarms them.
Report == \E batch \in SUBSET {f \in Fds : holder[f] = "kernel"} :
            holder' = [f \in Fds |-> IF f \in batch THEN "reactor" ELSE holder[f]]

\* accept() and init(), then the end of init().
Admit(f) == Give(f, "nobody", "reactor")

\* append() refuses a task while more than m_max_requests of them wait.
QueueFull == Cardinality({g \in Fds : holder[g] = "queue"}) > MaxRequests
Lose(f)   == QueueFull /\ Give(f, "reactor", "lost")

\* The hand-overs that need no client.
Serve(f) == \/ Give(f, "reactor", "kernel")
            \/ Give(f, "reactor", "nobody")
            \/ Give(f, "reactor", "queue")
            \/ \E w \in Workers : \/ /\ \A g \in Fds : holder[g] # w
                                     /\ Give(f, "queue", w)
                                  \/ Give(f, w, "kernel")

Next == Report \/ \E f \in Fds : Admit(f) \/ Serve(f) \/ Lose(f)

\* No connection stays with the reactor, the queue or a worker.
AtRest(f) == holder[f] \in {"kernel", "nobody", "lost"}
Served    == \A f \in Fds : ~AtRest(f) ~> AtRest(f)

Spec == Init /\ [][Next]_holder /\ Served
==============================================================================
