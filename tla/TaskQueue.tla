------------------------------ MODULE TaskQueue ------------------------------
(****************************************************************************)
(* What thread_pool<T> promises to the code that calls append(): accepted   *)
(* tasks are handed out in the order in which they were accepted, each to    *)
(* exactly one worker, and as long as the pool is not being destroyed no     *)
(* accepted task waits for ever.  ThreadPool shows that the lock and the     *)
(* semaphore of src/src/http_server/thread_pool.hpp keep this promise.       *)
(****************************************************************************)
EXTENDS Naturals, Sequences

CONSTANTS Workers,      \* the threads of the pool
          Requests,     \* the T objects that append() may be given
          NullRequest,  \* the NULL pointer, not one of Requests
          MaxQueued     \* the longest queue there can be

VARIABLES queue,    \* accepted tasks, oldest first
          running,  \* the task each worker holds, NullRequest when it has none
          stopped   \* the pool is being destroyed

vars == <<queue, running, stopped>>

Init == /\ queue = <<>>
        /\ running = [w \in Workers |-> NullRequest]
        /\ stopped = FALSE

\* append(r) returned true.  A refused append() leaves no trace here.
Accept(r) == /\ ~stopped
             /\ Len(queue) < MaxQueued
             /\ queue' = Append(queue, r)
             /\ UNCHANGED <<running, stopped>>

\* Worker w takes the oldest task; a NULL task leaves it with nothing to do.
Take(w) == /\ queue # <<>>
           /\ running[w] = NullRequest
           /\ running' = [running EXCEPT ![w] = Head(queue)]
           /\ queue' = Tail(queue)
           /\ UNCHANGED stopped

Finish(w) == /\ running[w] # NullRequest
             /\ running' = [running EXCEPT ![w] = NullRequest]
             /\ UNCHANGED <<queue, stopped>>

Stop == /\ ~stopped
        /\ stopped' = TRUE
        /\ UNCHANGED <<queue, running>>

Next == \/ \E r \in Requests \cup {NullRequest} : Accept(r)
        \/ \E w \in Workers : Take(w) \/ Finish(w)
        \/ Stop

(****************************************************************************)
(* Until the pool is stopped the oldest task is taken if a worker stays      *)
(* free, and a worker that has a task finishes it.  Nothing is promised of a *)
(* pool that is being destroyed.                                             *)
(****************************************************************************)
Fairness == /\ WF_vars(~stopped /\ \E w \in Workers : Take(w))
            /\ \A w \in Workers : WF_vars(~stopped /\ Finish(w))

Spec == Init /\ [][Next]_vars /\ Fairness
==============================================================================
