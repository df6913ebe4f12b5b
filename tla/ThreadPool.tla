----------------------------- MODULE ThreadPool ------------------------------
(****************************************************************************)
(* thread_pool<T> (src/src/http_server/thread_pool.hpp) with the semaphore   *)
(* and the mutex of locker.hpp: callers run append(), workers run run(), the *)
(* owner's destructor sets m_stop and then destroys the members.  A step is  *)
(* one access to the shared state: m_stop, m_queuestat, m_queuelocker, or    *)
(* m_workqueue under the lock.                                               *)
(*                                                                          *)
(* wpc[w], the place of worker w in run():                                   *)
(*   "stop"  reads m_stop          "wait"    in m_queuestat.wait()           *)
(*   "lock"  in lock()             "empty"   holds the lock, tests empty()   *)
(*   "pop"   front(), pop_front()  "unlock"  in unlock()                     *)
(*   "process"  runs request->process()      "exited"  left the loop         *)
(*   "undefined"  used a member that no longer existed: nothing is said of   *)
(*                what follows                                               *)
(* apc[c], the place of caller c in append():                                *)
(*   "idle"  outside   "lock"  in lock()   "size"  holds the lock, tests size*)
(*   "push"  push_back   "unlock"  in unlock() after the push                *)
(*   "post"  in m_queuestat.post()     "refuse"  in unlock() when full       *)
(****************************************************************************)
EXTENDS Naturals, Sequences, FiniteSets

CONSTANTS Workers,      \* the threads created by the constructor
          Callers,      \* the threads that call append()
          Requests,     \* the T objects
          NullRequest,  \* the NULL pointer
          NoThread,     \* nobody holds the mutex
          MaxRequests   \* m_max_requests

ASSUME PoolAssumption == /\ IsFiniteSet(Workers) /\ Workers # {}
                         /\ IsFiniteSet(Callers)
                         /\ Workers \cap Callers = {}
                         /\ NoThread \notin Workers \cup Callers
                         /\ NullRequest \notin Requests
                         /\ MaxRequests \in Nat \ {0}

Pointers == Requests \cup {NullRequest}

VARIABLES m_workqueue,    \* the list of requests
          m_queuestat,    \* the value of the semaphore
          m_queuelocker,  \* the thread that holds the mutex
          m_stop,
          destroyed,      \* how many of DestroyOrder the destructor has destroyed
          wpc, request,   \* each worker's place in run() and its local request
          apc, arg        \* each caller's place in append() and its argument

workerVars == <<wpc, request>>
callerVars == <<apc, arg>>
shared     == <<m_workqueue, m_queuestat, m_queuelocker, m_stop>>
vars       == <<shared, destroyed, workerVars, callerVars>>

WPlaces == {"stop", "wait", "lock", "empty", "pop", "unlock", "process", "exited",
            "undefined"}
APlaces == {"idle", "lock", "size", "push", "unlock", "post", "refuse"}

\* The members that threads use, in the order of their destructors: the reverse of
\* their declarations, and at last the memory of the object, where m_stop is.
DestroyOrder == <<"m_queuestat", "m_queuelocker", "m_workqueue", "memory">>
Alive(member) == \A i \in 1..destroyed : DestroyOrder[i] # member

\* The member that the next step of run() uses; the request is not one of them.
Uses == [stop |-> "memory", wait |-> "m_queuestat", lock |-> "m_queuelocker",
         empty |-> "m_workqueue", pop |-> "m_workqueue", unlock |-> "m_queuelocker",
         process |-> "request"]

TypeOK == /\ m_workqueue \in Seq(Pointers)
          /\ m_queuestat \in Nat
          /\ m_queuelocker \in Workers \cup Callers \cup {NoThread}
          /\ m_stop \in BOOLEAN
          /\ destroyed \in 0..Len(DestroyOrder)
          /\ wpc \in [Workers -> WPlaces]
          /\ request \in [Workers -> Pointers]
          /\ apc \in [Callers -> APlaces]
          /\ arg \in [Callers -> Pointers]

Init == /\ m_workqueue = <<>>
        /\ m_queuestat = 0
        /\ m_queuelocker = NoThread
        /\ m_stop = FALSE
        /\ destroyed = 0
        /\ wpc = [w \in Workers |-> "stop"]
        /\ request = [w \in Workers |-> NullRequest]
        /\ apc = [c \in Callers |-> "idle"]
        /\ arg = [c \in Callers |-> NullRequest]

-----------------------------------------------------------------------------
(* The semaphore and the mutex *)

\* Mutants of Wait: a wait that does not block, and one that does not count.
WaitNonblocking == m_queuestat' = m_queuestat - 1
WaitUncounted   == m_queuestat > 0 /\ UNCHANGED m_queuestat

Wait == /\ m_queuestat > 0
        /\ m_queuestat' = m_queuestat - 1
Post == m_queuestat' = m_queuestat + 1

Lock(t) == /\ m_queuelocker = NoThread
           /\ m_queuelocker' = t

Unlock == m_queuelocker' = NoThread

-----------------------------------------------------------------------------
(* append() *)

CGoto(c, from, to) == /\ apc[c] = from
                      /\ apc' = [apc EXCEPT ![c] = to]
                      /\ UNCHANGED <<destroyed, workerVars>>

\* The destructor has not run yet: nobody uses a pool that is destroyed.
CallAppend(c, r) == /\ ~m_stop
                    /\ CGoto(c, "idle", "lock")
                    /\ arg' = [arg EXCEPT ![c] = r]
                    /\ UNCHANGED shared

AppendLock(c) == /\ CGoto(c, "lock", "size")
                 /\ Lock(c)
                 /\ UNCHANGED <<m_workqueue, m_queuestat, m_stop, arg>>

\* m_workqueue.size() > m_max_requests
Full == Len(m_workqueue) > MaxRequests

AppendSize(c) == /\ CGoto(c, "size", IF Full THEN "refuse" ELSE "push")
                 /\ UNCHANGED <<shared, arg>>

\* Mutant of PushBack: push_front.
PushFront(r) == <<r>> \o m_workqueue

PushBack(r) == Append(m_workqueue, r)

AppendPush(c) == /\ CGoto(c, "push", "unlock")
                 /\ m_workqueue' = PushBack(arg[c])
                 /\ UNCHANGED <<m_queuestat, m_queuelocker, m_stop, arg>>

AppendUnlock(c) == /\ CGoto(c, "unlock", "post")
                   /\ Unlock
                   /\ UNCHANGED <<m_workqueue, m_queuestat, m_stop, arg>>

AppendPost(c) == /\ CGoto(c, "post", "idle")
                 /\ Post
                 /\ arg' = [arg EXCEPT ![c] = NullRequest]
                 /\ UNCHANGED <<m_workqueue, m_queuelocker, m_stop>>

\* Mutant of AppendRefuse: the refusal runs into the post().
RefuseAndPost(c) == /\ CGoto(c, "refuse", "post")
                    /\ Unlock
                    /\ UNCHANGED <<m_workqueue, m_queuestat, m_stop, arg>>

AppendRefuse(c) == /\ CGoto(c, "refuse", "idle")
                   /\ Unlock
                   /\ arg' = [arg EXCEPT ![c] = NullRequest]
                   /\ UNCHANGED <<m_workqueue, m_queuestat, m_stop>>

AppendStep(c) == \/ AppendLock(c)
                 \/ AppendSize(c)
                 \/ AppendPush(c)
                 \/ AppendUnlock(c)
                 \/ AppendPost(c)
                 \/ AppendRefuse(c)

-----------------------------------------------------------------------------
(* run() *)

WGoto(w, from, to) == /\ wpc[w] = from
                      /\ Alive(Uses[from])
                      /\ wpc' = [wpc EXCEPT ![w] = to]
                      /\ UNCHANGED <<destroyed, callerVars>>

RunStop(w) == /\ WGoto(w, "stop", IF m_stop THEN "exited" ELSE "wait")
              /\ UNCHANGED <<shared, request>>

RunWait(w) == /\ WGoto(w, "wait", "lock")
              /\ Wait
              /\ UNCHANGED <<m_workqueue, m_queuelocker, m_stop, request>>

RunLock(w) == /\ WGoto(w, "lock", "empty")
              /\ Lock(w)
              /\ UNCHANGED <<m_workqueue, m_queuestat, m_stop, request>>

\* An empty queue unlocks and goes on with the loop, as a NULL request does.
RunEmpty(w) == /\ WGoto(w, "empty", IF m_workqueue = <<>> THEN "unlock" ELSE "pop")
               /\ UNCHANGED <<shared, request>>

RunPop(w) == /\ WGoto(w, "pop", "unlock")
             /\ request' = [request EXCEPT ![w] = Head(m_workqueue)]
             /\ m_workqueue' = Tail(m_workqueue)
             /\ UNCHANGED <<m_queuestat, m_queuelocker, m_stop>>

RunUnlock(w) == /\ WGoto(w, "unlock", IF request[w] = NullRequest THEN "stop" ELSE "process")
                /\ Unlock
                /\ UNCHANGED <<m_workqueue, m_queuestat, m_stop, request>>

RunProcess(w) == /\ WGoto(w, "process", "stop")
                 /\ request' = [request EXCEPT ![w] = NullRequest]
                 /\ UNCHANGED shared

RunStep(w) == \/ RunStop(w)
              \/ RunWait(w)
              \/ RunLock(w)
              \/ RunEmpty(w)
              \/ RunPop(w)
              \/ RunUnlock(w)
              \/ RunProcess(w)

-----------------------------------------------------------------------------
(* ~thread_pool(), run by a thread that is not in append() *)

\* Its body.
Destroy == /\ ~m_stop
           /\ \A c \in Callers : apc[c] = "idle"
           /\ m_stop' = TRUE
           /\ UNCHANGED <<m_workqueue, m_queuestat, m_queuelocker, destroyed,
                          workerVars, callerVars>>

\* What the compiler adds: ~sem(), ~locker(), the destructor of the list, and the
\* delete.  The threads are detached and nobody waits for them.
DestroyMember == /\ m_stop /\ destroyed < Len(DestroyOrder)
                 /\ destroyed' = destroyed + 1
                 /\ UNCHANGED <<shared, workerVars, callerVars>>

\* A thread uses what is gone.  One that sleeps in sem_wait() may also stay there.
RunUndefined(w) == /\ wpc[w] \in DOMAIN Uses /\ ~Alive(Uses[wpc[w]])
                   /\ wpc' = [wpc EXCEPT ![w] = "undefined"]
                   /\ UNCHANGED <<shared, destroyed, request, callerVars>>

Next == \/ \E c \in Callers, r \in Pointers : CallAppend(c, r)
        \/ \E c \in Callers : AppendStep(c)
        \/ \E w \in Workers : RunStep(w) \/ RunUndefined(w)
        \/ Destroy
        \/ DestroyMember

(****************************************************************************)
(* Threads are scheduled (WF), sem_wait() wakes some waiter while the value  *)
(* is positive (WF on the disjunction, it does not say which), and a thread  *)
(* waiting for the mutex gets it if it is released again and again (SF).     *)
(* process() returns.  Nothing forces a call of append() or the destructor.  *)
(****************************************************************************)
Fairness == /\ \A c \in Callers : /\ SF_vars(AppendLock(c))
                                  /\ WF_vars(AppendStep(c))
            /\ \A w \in Workers : /\ SF_vars(RunLock(w))
                                  /\ WF_vars(RunStep(w) /\ wpc[w] # "wait")
            /\ WF_vars(\E w \in Workers : RunWait(w))

Spec == Init /\ [][Next]_vars /\ Fairness

-----------------------------------------------------------------------------
(* Properties *)

Woken  == {w \in Workers : wpc[w] \in {"lock", "empty", "pop"}}
Pushed == {c \in Callers : apc[c] \in {"unlock", "post"}}

\* No thread has used a member after its destructor.
Defined == \A w \in Workers : wpc[w] # "undefined"

(* The queue and the semaphore, which append() updates on the two sides of   *)
(* unlock() and run() in the other order, never drift apart: the queue holds *)
(* one request per unit of the semaphore, per worker that was woken and has  *)
(* not popped, and per caller that has pushed and not posted.                *)
SemaphoreAccount ==
  Defined => Len(m_workqueue) = m_queuestat + Cardinality(Woken) + Cardinality(Pushed)

(* A worker that sem_wait() let through finds a request, whichever workers   *)
(* popped meanwhile: the empty() branch of run() is never taken.             *)
NoFutileWakeup ==
  Defined => \A w \in Workers : wpc[w] \in {"empty", "pop"} => m_workqueue # <<>>

(* What the comment on m_max_requests says (thread_pool.hpp:30): it is the   *)
(* largest number of requests that the queue may hold.                       *)
QueueWithinMax == Len(m_workqueue) <= MaxRequests

(* The pool implements TaskQueue: requests are handed out in the order of    *)
(* their push, each to one worker, and until the pool is destroyed none      *)
(* waits for ever.                                                           *)
Abstract == INSTANCE TaskQueue WITH queue <- m_workqueue,
                                    running <- request,
                                    stopped <- m_stop,
                                    MaxQueued <- MaxRequests + 1
ImplementsTaskQueue == Abstract!Spec
==============================================================================
