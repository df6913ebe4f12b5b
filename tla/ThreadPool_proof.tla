-------------------------- MODULE ThreadPool_proof ---------------------------
(****************************************************************************)
(* Proofs about ThreadPool for every number of workers, callers and requests *)
(* and every m_max_requests.  The inductive invariant IInv adds to the       *)
(* properties who holds the mutex (LockInv), when a worker's local request   *)
(* is set (RequestInv), what a caller knows after its test of the size       *)
(* (PushInv), and that the destructor runs outside append() (DestroyInv).    *)
(* A worker that is "undefined" keeps what it had; the account of the        *)
(* semaphore is claimed as long as there is none.                            *)
(****************************************************************************)
EXTENDS ThreadPool, TLAPS, FiniteSetTheorems, SequenceTheorems

LockInv ==
  /\ \A w \in Workers : wpc[w] \in {"empty", "pop", "unlock"} => m_queuelocker = w
  /\ \A w \in Workers : m_queuelocker = w => wpc[w] \in {"empty", "pop", "unlock", "undefined"}
  /\ \A c \in Callers : apc[c] \in {"size", "push", "unlock", "refuse"} <=> m_queuelocker = c

RequestInv == \A w \in Workers : /\ wpc[w] = "process" => request[w] # NullRequest
                                 /\ wpc[w] \notin {"unlock", "process", "undefined"} => request[w] = NullRequest

PushInv == \A c \in Callers : apc[c] = "push" => Len(m_workqueue) <= MaxRequests

DestroyInv == m_stop => \A c \in Callers : apc[c] = "idle"

\* The queue takes one request more than m_max_requests, as append() compares with `>`.
QueueBound == Len(m_workqueue) <= MaxRequests + 1

\* "empty" finds a request by SemaphoreAccount; "pop" kept it under the lock.
PopInv == \A w \in Workers : wpc[w] = "pop" => m_workqueue # <<>>

IInv == /\ TypeOK
        /\ LockInv
        /\ RequestInv
        /\ PushInv
        /\ DestroyInv
        /\ PopInv
        /\ QueueBound
        /\ SemaphoreAccount

-----------------------------------------------------------------------------

\* Woken and Pushed are finite sets of threads, and so are their successors.
LEMMA CountsAreNumbers ==
  ASSUME IInv
  PROVE  /\ IsFiniteSet(Woken) /\ Cardinality(Woken) \in Nat
         /\ IsFiniteSet(Pushed) /\ Cardinality(Pushed) \in Nat
<1>1. Woken \in SUBSET Workers /\ Pushed \in SUBSET Callers
  BY DEF Woken, Pushed
<1>2. IsFiniteSet(Woken) /\ IsFiniteSet(Pushed)
  BY <1>1, FS_Subset, PoolAssumption
<1> QED
  BY <1>2, FS_CardinalityType

\* A woken worker has a unit of the account, so there is a request for it.
LEMMA WokenFindsRequest ==
  ASSUME IInv, Defined, NEW w \in Woken
  PROVE  Len(m_workqueue) > 0
<1>1. Cardinality(Woken) \in Nat /\ Cardinality(Pushed) \in Nat /\ IsFiniteSet(Woken)
  BY CountsAreNumbers
<1>2. Cardinality(Woken) # 0
  BY <1>1, FS_EmptySet
<1> QED
  BY <1>1, <1>2 DEF IInv, TypeOK, SemaphoreAccount

\* Four destructors, the delete included.
LEMMA DestroyLength == Len(DestroyOrder) = 4
  BY DEF DestroyOrder

\* What is undefined stays so.
LEMMA DefinedBefore ==
  ASSUME IInv, [Next]_vars, Defined' PROVE Defined
<1> SUFFICES ASSUME NEW w \in Workers, wpc[w] = "undefined" PROVE wpc'[w] = "undefined"
  BY DEF Defined
<1>1. ASSUME NEW v \in Workers, RunStep(v) PROVE wpc'[w] = "undefined"
  <2>1. wpc[v] # "undefined" /\ \E to : wpc' = [wpc EXCEPT ![v] = to]
    BY <1>1 DEF RunStep, RunStop, RunWait, RunLock, RunEmpty, RunPop, RunUnlock, RunProcess,
                WGoto
  <2> QED BY <2>1 DEF IInv, TypeOK
<1>2. ASSUME NEW v \in Workers, RunUndefined(v) PROVE wpc'[w] = "undefined"
  BY <1>2 DEF RunUndefined, IInv, TypeOK
<1>3. CASE \/ \E c \in Callers, r \in Pointers : CallAppend(c, r)
           \/ \E c \in Callers : AppendStep(c)
  BY <1>3 DEF CallAppend, AppendStep, AppendLock, AppendSize, AppendPush, AppendUnlock,
              AppendPost, AppendRefuse, CGoto, workerVars
<1>4. CASE Destroy \/ DestroyMember \/ UNCHANGED vars
  BY <1>4 DEF Destroy, DestroyMember, vars, workerVars
<1> QED BY <1>1, <1>2, <1>3, <1>4 DEF Next

-----------------------------------------------------------------------------
\* The semaphore account over one step, the only part that counts threads.

\* No step of a caller touches Woken; its push and its post trade one unit.
LEMMA CallerKeepsAccount ==
  ASSUME IInv, NEW c \in Callers,
         AppendStep(c) \/ \E r \in Pointers : CallAppend(c, r)
  PROVE  SemaphoreAccount'
<1>0. SUFFICES ASSUME Defined'
               PROVE  (Len(m_workqueue) = m_queuestat + Cardinality(Woken) + Cardinality(Pushed))'
  BY DEF SemaphoreAccount
<1>n. Next
  BY DEF Next
<1>d. Defined
  BY <1>n, <1>0, DefinedBefore
<1>e. Len(m_workqueue) = m_queuestat + Cardinality(Woken) + Cardinality(Pushed)
  BY <1>d DEF IInv, SemaphoreAccount
<1>. USE DEF IInv, TypeOK
<1>1. Woken' = Woken
  BY DEF AppendStep, CallAppend, AppendLock, AppendSize, AppendPush, AppendUnlock,
         AppendPost, AppendRefuse, CGoto, workerVars, Woken
<1>2. /\ IsFiniteSet(Pushed) /\ Cardinality(Pushed) \in Nat
      /\ Cardinality(Woken) \in Nat
  BY CountsAreNumbers
<1>3. CASE AppendPush(c)
  <2>1. Pushed' = Pushed \cup {c} /\ c \notin Pushed
    BY <1>3 DEF AppendPush, CGoto, Pushed
  <2>2. Cardinality(Pushed') = Cardinality(Pushed) + 1
    BY <2>1, <1>2, FS_AddElement
  <2>3. Len(m_workqueue') = Len(m_workqueue) + 1 /\ m_queuestat' = m_queuestat
    BY <1>3, AppendProperties DEF AppendPush, PushBack
  <2> QED
    BY <1>1, <1>2, <2>2, <2>3, LenProperties, <1>e
<1>4. CASE AppendPost(c)
  <2>1. Pushed' = Pushed \ {c} /\ c \in Pushed
    BY <1>4 DEF AppendPost, CGoto, Pushed
  <2>2. Cardinality(Pushed') = Cardinality(Pushed) - 1
    BY <2>1, <1>2, FS_RemoveElement
  <2>3. m_workqueue' = m_workqueue /\ m_queuestat' = m_queuestat + 1
    BY <1>4 DEF AppendPost, Post
  <2> QED
    BY <1>1, <1>2, <2>2, <2>3, LenProperties, <1>e
<1>5. CASE \/ AppendLock(c) \/ AppendSize(c) \/ AppendUnlock(c) \/ AppendRefuse(c)
           \/ \E r \in Pointers : CallAppend(c, r)
  <2>1. Pushed' = Pushed /\ m_workqueue' = m_workqueue /\ m_queuestat' = m_queuestat
    BY <1>5 DEF AppendLock, AppendSize, AppendUnlock, AppendRefuse, CallAppend, CGoto,
                Pushed, shared
  <2> QED
    BY <1>1, <2>1, <1>e
<1> QED
  BY <1>3, <1>4, <1>5 DEF AppendStep

\* No step of a worker touches Pushed; its wait and its pop trade one unit.
\* The step from "empty" stays in Woken because the queue is not empty.
LEMMA WorkerKeepsAccount ==
  ASSUME IInv, NEW w \in Workers, RunStep(w)
  PROVE  SemaphoreAccount'
<1>0. SUFFICES ASSUME Defined'
               PROVE  (Len(m_workqueue) = m_queuestat + Cardinality(Woken) + Cardinality(Pushed))'
  BY DEF SemaphoreAccount
<1>n. Next
  BY DEF Next
<1>d. Defined
  BY <1>n, <1>0, DefinedBefore
<1>e. Len(m_workqueue) = m_queuestat + Cardinality(Woken) + Cardinality(Pushed)
  BY <1>d DEF IInv, SemaphoreAccount
<1>. USE DEF IInv, TypeOK
<1>1. Pushed' = Pushed
  BY DEF RunStep, RunStop, RunWait, RunLock, RunEmpty, RunPop, RunUnlock, RunProcess,
         WGoto, callerVars, Pushed
<1>2. /\ IsFiniteSet(Woken) /\ Cardinality(Woken) \in Nat
      /\ Cardinality(Pushed) \in Nat
  BY CountsAreNumbers
<1>3. CASE RunWait(w)
  <2>1. Woken' = Woken \cup {w} /\ w \notin Woken
    BY <1>3 DEF RunWait, WGoto, Woken
  <2>2. Cardinality(Woken') = Cardinality(Woken) + 1
    BY <2>1, <1>2, FS_AddElement
  <2>3. m_workqueue' = m_workqueue /\ m_queuestat' = m_queuestat - 1
    BY <1>3 DEF RunWait, Wait
  <2> QED
    BY <1>1, <1>2, <2>2, <2>3, LenProperties, <1>e
<1>4. CASE RunPop(w)
  <2>1. Woken' = Woken \ {w} /\ w \in Woken
    BY <1>4 DEF RunPop, WGoto, Woken
  <2>2. Cardinality(Woken') = Cardinality(Woken) - 1
    BY <2>1, <1>2, FS_RemoveElement
  <2>3. m_workqueue # <<>>
    BY <1>4 DEF RunPop, WGoto, PopInv
  <2>4. Len(m_workqueue') = Len(m_workqueue) - 1 /\ m_queuestat' = m_queuestat
    BY <1>4, <2>3, HeadTailProperties DEF RunPop
  <2> QED
    BY <1>1, <1>2, <2>2, <2>4, LenProperties, <1>e
<1>5. CASE RunEmpty(w)
  <2>1. w \in Woken
    BY <1>5 DEF RunEmpty, WGoto, Woken
  <2>2. m_workqueue # <<>>
    BY <2>1, <1>d, WokenFindsRequest, EmptySeq
  <2>3. Woken' = Woken /\ m_workqueue' = m_workqueue /\ m_queuestat' = m_queuestat
    BY <1>5, <2>2 DEF RunEmpty, WGoto, Woken, shared
  <2> QED
    BY <1>1, <2>3, <1>e
<1>6. CASE RunStop(w) \/ RunLock(w) \/ RunUnlock(w) \/ RunProcess(w)
  <2>1. Woken' = Woken /\ m_workqueue' = m_workqueue /\ m_queuestat' = m_queuestat
    BY <1>6 DEF RunStop, RunLock, RunUnlock, RunProcess, WGoto, Woken, shared
  <2> QED
    BY <1>1, <2>1, <1>e
<1> QED
  BY <1>3, <1>4, <1>5, <1>6 DEF RunStep

-----------------------------------------------------------------------------

\* The pool starts in IInv.
LEMMA InitIInv == Init => IInv
<1> SUFFICES ASSUME Init PROVE IInv
  OBVIOUS
<1>0. destroyed \in 0..Len(DestroyOrder)
  <2> DEFINE n == Len(DestroyOrder)
  <2>1. n \in Nat
    BY DestroyLength
  <2> HIDE DEF n
  <2>2. 0 \in 0..n
    BY <2>1
  <2> QED BY <2>2 DEF Init, n
<1>1. TypeOK
  BY EmptySeq, <1>0 DEF Init, TypeOK, Pointers, WPlaces, APlaces
<1>2. LockInv
  BY PoolAssumption DEF Init, LockInv
<1>3. RequestInv /\ PushInv /\ DestroyInv /\ PopInv
  BY DEF Init, RequestInv, PushInv, DestroyInv, PopInv
<1>4. QueueBound
  BY PoolAssumption DEF Init, QueueBound
<1>5. Woken = {} /\ Pushed = {}
  BY DEF Init, Woken, Pushed
<1>6. SemaphoreAccount
  BY <1>5, FS_EmptySet DEF Init, SemaphoreAccount
<1> QED
  BY <1>1, <1>2, <1>3, <1>4, <1>6 DEF IInv

\* Every step of a caller of append() keeps IInv.
LEMMA CallerKeepsIInv ==
  ASSUME IInv, NEW c \in Callers,
         AppendStep(c) \/ \E r \in Pointers : CallAppend(c, r)
  PROVE  IInv'
<1>. USE PoolAssumption DEF IInv, TypeOK, APlaces, CGoto, workerVars
<1>0. Len(m_workqueue) \in Nat
  BY LenProperties
<1>a. SemaphoreAccount'
  BY CallerKeepsAccount
<1>1. ASSUME NEW r \in Pointers, CallAppend(c, r)
      PROVE  IInv'
  BY <1>1, <1>a
  DEF CallAppend, shared, LockInv, RequestInv, PushInv, DestroyInv, PopInv, QueueBound
<1>2. CASE AppendLock(c)
  BY <1>2, <1>a
  DEF AppendLock, Lock, LockInv, RequestInv, PushInv, DestroyInv, PopInv, QueueBound
<1>3. CASE AppendSize(c)
  BY <1>0, <1>3, <1>a
  DEF AppendSize, Full, shared, LockInv, RequestInv, PushInv, DestroyInv, PopInv, QueueBound
<1>4. CASE AppendPush(c)
  <2>1. m_workqueue' \in Seq(Pointers) /\ m_workqueue' # <<>>
        /\ Len(m_workqueue') = Len(m_workqueue) + 1
    BY <1>4, AppendProperties DEF AppendPush, PushBack
  <2>2. QueueBound'
    BY <1>0, <1>4, <2>1 DEF AppendPush, PushInv, QueueBound
  <2>3. LockInv' /\ RequestInv' /\ DestroyInv'
    BY <1>4 DEF AppendPush, LockInv, RequestInv, DestroyInv
  <2>4. PushInv'
    BY <1>4 DEF AppendPush, LockInv, PushInv
  <2>5. PopInv'
    BY <2>1 DEF PopInv
  <2>6. TypeOK'
    BY <1>4, <2>1 DEF AppendPush, PushBack
  <2> QED
    BY <1>4, <2>2, <2>3, <2>4, <2>5, <2>6, <1>a
<1>5. CASE AppendUnlock(c)
  BY <1>5, <1>a
  DEF AppendUnlock, Unlock, LockInv, RequestInv, PushInv, DestroyInv, PopInv, QueueBound
<1>6. CASE AppendPost(c)
  BY <1>6, <1>a
  DEF AppendPost, Post, Pointers, LockInv, RequestInv, PushInv, DestroyInv, PopInv, QueueBound
<1>7. CASE AppendRefuse(c)
  BY <1>7, <1>a
  DEF AppendRefuse, Unlock, Pointers, LockInv, RequestInv, PushInv, DestroyInv, PopInv, QueueBound
<1> QED
  BY <1>1, <1>2, <1>3, <1>4, <1>5, <1>6, <1>7 DEF AppendStep

\* Every step of a worker in run() keeps IInv.
LEMMA WorkerKeepsIInv ==
  ASSUME IInv, NEW w \in Workers, RunStep(w)
  PROVE  IInv'
<1>. USE PoolAssumption DEF IInv, TypeOK, WPlaces, WGoto, callerVars
<1>a. SemaphoreAccount'
  BY WorkerKeepsAccount
<1>1. CASE RunStop(w)
  BY <1>1, <1>a
  DEF RunStop, shared, LockInv, RequestInv, PushInv, DestroyInv, PopInv, QueueBound
<1>2. CASE RunWait(w)
  BY <1>2, <1>a
  DEF RunWait, Wait, LockInv, RequestInv, PushInv, DestroyInv, PopInv, QueueBound
<1>3. CASE RunLock(w)
  BY <1>3, <1>a
  DEF RunLock, Lock, LockInv, RequestInv, PushInv, DestroyInv, PopInv, QueueBound
<1>4. CASE RunEmpty(w)
  BY <1>4, <1>a
  DEF RunEmpty, shared, LockInv, RequestInv, PushInv, DestroyInv, PopInv, QueueBound
<1>5. CASE RunPop(w)
  <2>1. m_workqueue # <<>>
    BY <1>5 DEF RunPop, PopInv
  <2>2. /\ Head(m_workqueue) \in Pointers
        /\ Tail(m_workqueue) \in Seq(Pointers)
        /\ Len(Tail(m_workqueue)) = Len(m_workqueue) - 1
        /\ Len(m_workqueue) \in Nat
    BY <2>1, HeadTailProperties, LenProperties
  <2>3. TypeOK'
    BY <1>5, <2>2 DEF RunPop
  <2>4. LockInv' /\ RequestInv' /\ DestroyInv'
    BY <1>5 DEF RunPop, LockInv, RequestInv, DestroyInv
  <2>5. PushInv' /\ QueueBound'
    BY <1>5, <2>2 DEF RunPop, PushInv, QueueBound
  <2>6. PopInv'
    BY <1>5 DEF RunPop, LockInv, PopInv
  <2> QED
    BY <1>5, <2>3, <2>4, <2>5, <2>6, <1>a
<1>6. CASE RunUnlock(w)
  BY <1>6, <1>a
  DEF RunUnlock, Unlock, LockInv, RequestInv, PushInv, DestroyInv, PopInv, QueueBound
<1>7. CASE RunProcess(w)
  BY <1>7, <1>a
  DEF RunProcess, shared, Pointers, LockInv, RequestInv, PushInv, DestroyInv, PopInv, QueueBound
<1> QED
  BY <1>1, <1>2, <1>3, <1>4, <1>5, <1>6, <1>7 DEF RunStep

\* A worker that uses what is gone changes only its place.
LEMMA UndefinedKeepsIInv ==
  ASSUME IInv, NEW w \in Workers, RunUndefined(w)
  PROVE  IInv'
<1>1. ~Defined'
  BY DEF RunUndefined, Defined, IInv, TypeOK
<1>2. wpc' = [wpc EXCEPT ![w] = "undefined"] /\ UNCHANGED <<shared, destroyed, request, callerVars>>
  BY DEF RunUndefined
<1>3. TypeOK'
  BY <1>2 DEF IInv, TypeOK, shared, callerVars, WPlaces
<1>4. LockInv' /\ RequestInv' /\ PushInv' /\ DestroyInv' /\ PopInv' /\ QueueBound'
  BY <1>2 DEF IInv, TypeOK, shared, callerVars, LockInv, RequestInv, PushInv, DestroyInv, PopInv,
              QueueBound
<1> QED BY <1>1, <1>3, <1>4 DEF IInv, SemaphoreAccount

\* The destructor, and a step that changes nothing, keep IInv.
LEMMA OtherKeepsIInv ==
  ASSUME IInv, Destroy \/ DestroyMember \/ UNCHANGED vars
  PROVE  IInv'
<1>1. UNCHANGED <<m_workqueue, m_queuestat, m_queuelocker, workerVars, callerVars>>
  BY DEF Destroy, DestroyMember, vars, shared
<1>2. /\ m_stop' \in BOOLEAN
      /\ m_stop' => \A c \in Callers : apc[c] = "idle"
  <2>1. CASE Destroy
    BY <2>1 DEF Destroy
  <2>2. CASE DestroyMember \/ UNCHANGED vars
    <3>1. m_stop' = m_stop
      BY <2>2 DEF DestroyMember, vars, shared
    <3> QED BY <3>1 DEF IInv, TypeOK, DestroyInv
  <2> QED BY <2>1, <2>2
<1>5. destroyed' \in 0..Len(DestroyOrder)
  <2> DEFINE n == Len(DestroyOrder)
  <2>1. n \in Nat
    BY DestroyLength
  <2>2. destroyed \in 0..n
    BY DEF IInv, TypeOK
  <2>3. destroyed' = destroyed \/ (destroyed < n /\ destroyed' = destroyed + 1)
    BY DEF Destroy, DestroyMember, vars
  <2> HIDE DEF n
  <2>4. destroyed' \in 0..n
    BY <2>1, <2>2, <2>3
  <2> QED BY <2>4 DEF n
<1>3. TypeOK' /\ DestroyInv'
  BY <1>1, <1>2, <1>5 DEF IInv, TypeOK, DestroyInv, workerVars, callerVars
<1>4. /\ LockInv' /\ RequestInv' /\ PushInv' /\ PopInv' /\ QueueBound'
      /\ SemaphoreAccount'
  BY <1>1 DEF IInv, workerVars, callerVars, LockInv, RequestInv, PushInv, PopInv, QueueBound,
              SemaphoreAccount, Defined, Woken, Pushed
<1> QED BY <1>3, <1>4 DEF IInv

\* Every step keeps IInv.
LEMMA NextIInv == IInv /\ [Next]_vars => IInv'
  BY CallerKeepsIInv, WorkerKeepsIInv, UndefinedKeepsIInv, OtherKeepsIInv DEF Next

\* IInv holds in every state that the pool reaches.
THEOREM PoolInvariant == Spec => []IInv
<1> QED
  BY InitIInv, NextIInv, PTL DEF Spec

\* The variables stay in their types.
THEOREM PoolTypeOK == Spec => []TypeOK
<1>1. IInv => TypeOK
  BY DEF IInv
<1> QED
  BY <1>1, PoolInvariant, PTL

\* The queue and the semaphore agree, whatever the interleaving of append() and run(),
\* until a thread uses what the destructor has destroyed.
THEOREM PoolSemaphoreAccount == Spec => []SemaphoreAccount
<1>1. IInv => SemaphoreAccount
  BY DEF IInv
<1> QED
  BY <1>1, PoolInvariant, PTL

\* No worker is woken in vain: until then the empty() branch of run() is not taken.
THEOREM PoolNoFutileWakeup == Spec => []NoFutileWakeup
<1>1. IInv => NoFutileWakeup
  <2> SUFFICES ASSUME IInv, Defined, NEW w \in Workers, wpc[w] \in {"empty", "pop"}
               PROVE  m_workqueue # <<>>
    BY DEF NoFutileWakeup
  <2>1. w \in Woken
    BY DEF Woken
  <2> QED
    BY <2>1, WokenFindsRequest, EmptySeq
<1> QED
  BY <1>1, PoolInvariant, PTL

\* The queue holds at most one request more than m_max_requests, whatever the callers:
\* that one more is what `>` at thread_pool.hpp:70 adds to the comment at line 30.
THEOREM PoolQueueBound == Spec => []QueueBound
<1>1. IInv => QueueBound
  BY DEF IInv
<1> QED
  BY <1>1, PoolInvariant, PTL

-----------------------------------------------------------------------------
(* The safety part of ImplementsTaskQueue *)

\* Every step of the pool is a step of the abstract queue, or changes nothing of it.
LEMMA StepImplements == IInv /\ [Next]_vars => [Abstract!Next]_Abstract!vars
<1> SUFFICES ASSUME IInv, [Next]_vars PROVE [Abstract!Next]_Abstract!vars
  OBVIOUS
<1>. USE PoolAssumption DEF IInv, TypeOK, Pointers
<1>1. ASSUME NEW c \in Callers, AppendPush(c)
      PROVE  Abstract!Accept(arg[c])
  <2>1. Len(m_workqueue) \in Nat /\ Len(m_workqueue) <= MaxRequests
    BY <1>1, LenProperties DEF AppendPush, CGoto, PushInv
  <2>2. ~m_stop
    BY <1>1 DEF AppendPush, CGoto, DestroyInv
  <2> QED
    BY <1>1, <2>1, <2>2 DEF AppendPush, PushBack, CGoto, workerVars, Abstract!Accept
<1>2. ASSUME NEW c \in Callers, AppendStep(c), ~AppendPush(c)
      PROVE  UNCHANGED Abstract!vars
  BY <1>2 DEF AppendStep, AppendLock, AppendSize, AppendUnlock, AppendPost, AppendRefuse,
     CGoto, workerVars, shared, Abstract!vars
<1>3. ASSUME NEW c \in Callers, NEW r \in Pointers, CallAppend(c, r)
      PROVE  UNCHANGED Abstract!vars
  BY <1>3 DEF CallAppend, CGoto, workerVars, shared, Abstract!vars
<1>4. ASSUME NEW w \in Workers, RunPop(w)
      PROVE  Abstract!Take(w)
  BY <1>4 DEF RunPop, WGoto, PopInv, RequestInv, Abstract!Take
<1>5. ASSUME NEW w \in Workers, RunProcess(w)
      PROVE  Abstract!Finish(w)
  BY <1>5 DEF RunProcess, WGoto, shared, RequestInv, Abstract!Finish
<1>6. ASSUME NEW w \in Workers, RunStep(w), ~RunPop(w), ~RunProcess(w)
      PROVE  UNCHANGED Abstract!vars
  BY <1>6 DEF RunStep, RunStop, RunWait, RunLock, RunEmpty, RunUnlock, shared, Abstract!vars
<1>7. ASSUME Destroy PROVE Abstract!Stop
  BY <1>7 DEF Destroy, workerVars, Abstract!Stop
<1>8. ASSUME \/ DestroyMember \/ UNCHANGED vars \/ \E w \in Workers : RunUndefined(w)
      PROVE  UNCHANGED Abstract!vars
  BY <1>8 DEF DestroyMember, RunUndefined, vars, shared, workerVars, Abstract!vars
<1>9. \A c \in Callers : arg[c] \in Requests \cup {NullRequest}
  OBVIOUS
<1> QED
  BY <1>1, <1>2, <1>3, <1>4, <1>5, <1>6, <1>7, <1>8, <1>9 DEF Next, Abstract!Next

\* Every behaviour of the pool hands out its requests in FIFO order, each to one
\* worker that was free: it is a behaviour of TaskQueue, its fairness left aside.
THEOREM PoolImplementsTaskQueue == Spec => Abstract!Init /\ [][Abstract!Next]_Abstract!vars
<1>1. Init => Abstract!Init
  BY DEF Init, Abstract!Init
<1> QED
  BY <1>1, PoolInvariant, StepImplements, PTL DEF Spec
==============================================================================
