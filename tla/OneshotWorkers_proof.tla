---------------------------- MODULE OneshotWorkers_proof ---------------------------
(* Theorems about OneshotWorkers, for any connections and threads: if a thread has  *)
(* read its argument before the next one is created, no two handle one socket.      *)
EXTENDS OneshotWorkers, FiniteSetTheorems, TLAPS

\* A connection is either armed, or in the batch, or the argument of the new thread, or
\* some thread has it.
Armed(f)    == armed[f]
InBatch(f)  == events[f]
Argument(f) == sockfd = f /\ \E t \in Threads : place[t] = "new"
Held(f)     == \E t \in Threads : holds[t] = f

OneParty(f) == /\ Armed(f)    => ~InBatch(f) /\ ~Argument(f) /\ ~Held(f)
               /\ InBatch(f)  => ~Argument(f) /\ ~Held(f)
               /\ Argument(f) => ~Held(f)
               /\ Armed(f) \/ InBatch(f) \/ Argument(f) \/ Held(f) => f \in open

\* Only a thread in its loop has a connection, and one thread at most is new.
ThreadsInv == /\ \A t \in Threads : holds[t] # NoFd <=> place[t] \in {"recv", "sleep"}
              /\ \A s, t \in Threads : place[s] = "new" /\ place[t] = "new" => s = t
              /\ \A t \in Threads : place[t] = "new" => sockfd # NoFd

\* An edge, and an event of listenfd, stand for a connection each.
ListenInv == /\ edge \/ acceptEvent => backlog >= 1
             /\ edge /\ acceptEvent => backlog >= 2
             /\ acceptEvent => looping

IInv == /\ TypeOK
        /\ \A f \in Fds : OneParty(f)
        /\ ThreadsInv
        /\ ListenInv
        /\ OneThread

USE DEF OneshotAssumption

\* Nothing has come yet.
LEMMA InitHolds == OneshotAssumption /\ Init => IInv
<1> SUFFICES ASSUME OneshotAssumption, Init PROVE IInv
  OBVIOUS
<1>1. TypeOK
  <2>1. Cardinality(Fds) \in Nat
    BY FS_CardinalityType
  <2>2. /\ rcvq \in [Fds -> 0..MaxRcv] /\ gone \in [Fds -> {"no", "closed", "reset"}]
        /\ armed \in [Fds -> BOOLEAN] /\ events \in [Fds -> BOOLEAN]
    BY DEF Init
  <2>3. /\ place \in [Threads -> {"none", "new", "recv", "sleep"}]
        /\ holds \in [Threads -> Fds \cup {NoFd}]
    BY DEF Init
  <2>4. backlog \in 0..Cardinality(Fds)
    BY <2>1 DEF Init
  <2>5. /\ edge \in BOOLEAN /\ acceptEvent \in BOOLEAN /\ looping \in BOOLEAN
        /\ open \subseteq Fds /\ sockfd \in Fds \cup {NoFd}
    BY DEF Init
  <2> QED BY <2>2, <2>3, <2>4, <2>5 DEF TypeOK
<1>2. \A f \in Fds : OneParty(f)
  BY DEF Init, OneParty, Armed, InBatch, Argument, Held
<1>3. ThreadsInv /\ ListenInv /\ OneThread
  BY DEF Init, ThreadsInv, ListenInv, OneThread
<1> QED BY <1>1, <1>2, <1>3 DEF IInv

\* A client connects, sends or leaves: no party changes.
LEMMA ClientKeeps ==
  ASSUME OneshotAssumption, IInv, Connect \/ \E f \in Fds : Send(f) \/ Leave(f) PROVE IInv'
<1> USE DEF IInv, ClientStep
<1>1. (\A f \in Fds : OneParty(f))' /\ ThreadsInv' /\ OneThread'
  BY DEF Connect, Send, Leave, OneParty, Armed, InBatch, Argument, Held, ThreadsInv, OneThread
<1>2. CASE Connect
  <2>1. Cardinality(open) \in Nat /\ Cardinality(Fds) \in Nat
    BY FS_CardinalityType, FS_Subset DEF TypeOK
  <2>2. backlog' = backlog + 1 /\ backlog' \in 0..Cardinality(Fds)
    BY <1>2, <2>1 DEF Connect, TypeOK
  <2>3. TypeOK'
    BY <1>2, <2>2 DEF Connect, TypeOK, client
  <2>4. ListenInv'
    BY <1>2, <2>2 DEF Connect, TypeOK, ListenInv
  <2> QED BY <1>1, <2>3, <2>4
<1>3. ASSUME NEW f \in Fds, Send(f) \/ Leave(f) PROVE IInv'
  <2>1. ListenInv'
    BY <1>3 DEF Send, Leave, ListenInv, listen
  <2>2. TypeOK'
    BY <1>3 DEF Send, Leave, TypeOK, listen
  <2> QED BY <1>1, <2>1, <2>2
<1> QED BY <1>2, <1>3

LEMMA WaitKeeps == ASSUME OneshotAssumption, IInv, EpollWait \/ BatchDone PROVE IInv'
<1> USE DEF IInv
<1>1. UNCHANGED <<open, sockfd, place, holds, client, backlog>>
  BY DEF EpollWait, BatchDone, listen
<1>2. ThreadsInv' /\ OneThread'
  BY <1>1 DEF ThreadsInv, OneThread
<1>3. CASE EpollWait
  <2>1. \A f \in Fds : (f \in Ready => armed[f]) /\ (armed'[f] => armed[f] /\ f \notin Ready)
    BY <1>3 DEF EpollWait, Ready, Disarmed
  <2>2. \A f \in Fds : events'[f] <=> f \in Ready
    BY <1>3 DEF EpollWait
  <2>3. (\A f \in Fds : OneParty(f))'
    BY <1>1, <2>1, <2>2 DEF OneParty, Armed, InBatch, Argument, Held
  <2>4. armed' \in [Fds -> BOOLEAN] /\ events' \in [Fds -> BOOLEAN]
    BY <1>3 DEF EpollWait, Disarmed, TypeOK
  <2>5. TypeOK'
    BY <1>1, <1>3, <2>4 DEF EpollWait, TypeOK, client
  <2>6. ListenInv'
    BY <1>1, <1>3 DEF EpollWait, ListenInv, TypeOK
  <2> QED BY <1>2, <2>3, <2>5, <2>6
<1>4. CASE BatchDone
  <2>1. (\A f \in Fds : OneParty(f))' /\ ListenInv'
    BY <1>1, <1>4 DEF BatchDone, OneParty, Armed, InBatch, Argument, Held, ListenInv, listen
  <2>2. TypeOK'
    BY <1>1, <1>4 DEF BatchDone, TypeOK, listen, client
  <2> QED BY <1>2, <2>1, <2>2
<1> QED BY <1>3, <1>4

\* A descriptor that is not open is nobody's.
LEMMA AcceptKeeps == ASSUME OneshotAssumption, IInv, NEW f \in Fds, Accept(f) PROVE IInv'
<1> USE DEF IInv
<1>1. /\ open' = open \cup {f} /\ f \notin open /\ armed' = [armed EXCEPT ![f] = TRUE]
      /\ UNCHANGED <<events, sockfd, place, holds, edge, looping>>
      /\ backlog' = backlog - 1 /\ acceptEvent /\ acceptEvent' = FALSE
  BY DEF Accept, AddFd
<1>2. \A g \in Fds : armed'[g] => armed[g] \/ g = f
  BY <1>1 DEF TypeOK
<1>3. ASSUME NEW g \in Fds PROVE OneParty(g)'
  <2>1. /\ (InBatch(g)' <=> InBatch(g)) /\ (Argument(g)' <=> Argument(g))
        /\ (Held(g)' <=> Held(g))
        /\ Armed(g)' => Armed(g) \/ g = f
        /\ g \in open' <=> g \in open \/ g = f
    BY <1>1, <1>2 DEF Armed, InBatch, Argument, Held
  <2>2. OneParty(f) /\ OneParty(g)
    OBVIOUS
  <2> QED BY <1>1, <2>1, <2>2 DEF OneParty
<1>4. ThreadsInv' /\ OneThread'
  BY <1>1 DEF ThreadsInv, OneThread
<1>5. ListenInv'
  BY <1>1 DEF ListenInv, TypeOK
<1>6. backlog' \in 0..Cardinality(Fds)
  <2>1. Cardinality(Fds) \in Nat
    BY FS_CardinalityType
  <2> QED BY <1>1, <2>1 DEF ListenInv, TypeOK
<1>7. TypeOK'
  <2>1. /\ rcvq' \in [Fds -> 0..MaxRcv] /\ gone' \in [Fds -> {"no", "closed", "reset"}]
        /\ armed' \in [Fds -> BOOLEAN]
    BY <1>1 DEF Accept, TypeOK
  <2>2. open' \subseteq Fds /\ acceptEvent' \in BOOLEAN
    BY <1>1 DEF TypeOK
  <2> QED BY <1>1, <1>6, <2>1, <2>2 DEF TypeOK
<1> QED BY <1>3, <1>4, <1>5, <1>7

\* The one step that needs the assumption: no other thread has its argument to read.
LEMMA StartKeeps ==
  ASSUME OneshotAssumption, IInv, ReadsAtOnce, NEW f \in Fds, NEW t \in Threads, StartThread(f, t) PROVE IInv'
<1> USE DEF IInv
<1>1. /\ events[f] /\ events' = [events EXCEPT ![f] = FALSE]
      /\ place[t] = "none" /\ place' = [place EXCEPT ![t] = "new"]
      /\ sockfd' = f /\ \A u \in Threads : place[u] # "new"
      /\ UNCHANGED <<listen, client, open, armed, looping, holds>>
  BY DEF StartThread
<1>2. \A g \in Fds : events'[g] => events[g] /\ g # f
  BY <1>1 DEF TypeOK
<1>3. \A u \in Threads : place'[u] = IF u = t THEN "new" ELSE place[u]
  BY <1>1 DEF TypeOK
<1>4. (\A g \in Fds : OneParty(g))'
  BY <1>1, <1>2, <1>3 DEF OneParty, Armed, InBatch, Argument, Held
<1>5. ThreadsInv' /\ OneThread'
  BY <1>1, <1>3 DEF ThreadsInv, OneThread
<1>6. ListenInv'
  BY <1>1 DEF ListenInv, listen
<1>7. TypeOK'
  BY <1>1 DEF TypeOK, listen, client
<1> QED BY <1>4, <1>5, <1>6, <1>7

-----------------------------------------------------------------------------
(* worker() *)

\* The new thread takes over the connection in its argument.
LEMMA ReadArgumentKeeps == ASSUME OneshotAssumption, IInv, NEW t \in Threads, ReadArgument(t) PROVE IInv'
<1> USE DEF IInv
<1>1. /\ place[t] = "new" /\ place' = [place EXCEPT ![t] = "recv"]
      /\ holds' = [holds EXCEPT ![t] = sockfd]
      /\ UNCHANGED <<client, open, armed, listen, events, sockfd, looping>>
  BY DEF ReadArgument, Goto, WorkerStep
<1>2. sockfd \in Fds /\ holds[t] = NoFd
  BY <1>1 DEF ThreadsInv, TypeOK
<1>3. /\ \A u \in Threads : place'[u] = IF u = t THEN "recv" ELSE place[u]
      /\ \A u \in Threads : holds'[u] = IF u = t THEN sockfd ELSE holds[u]
  BY <1>1 DEF TypeOK
<1>4. \A u \in Threads : place'[u] # "new" /\ holds[u] # sockfd
  BY <1>1, <1>2, <1>3 DEF ThreadsInv, OneParty, Argument, Held
<1>5. (\A f \in Fds : OneParty(f))'
  BY <1>1, <1>2, <1>3, <1>4 DEF OneParty, Armed, InBatch, Argument, Held
<1>6. ThreadsInv' /\ OneThread' /\ ListenInv'
  BY <1>1, <1>2, <1>3, <1>4 DEF ThreadsInv, OneThread, ListenInv, listen
<1>7. TypeOK'
  BY <1>1, <1>2 DEF TypeOK, listen, client
<1> QED BY <1>5, <1>6, <1>7

\* A thread that keeps its connection: some data, or the end of its sleep.
LEMMA HolderKeeps ==
  ASSUME OneshotAssumption, IInv, NEW t \in Threads, Wake(t) \/ \E f \in Fds : RecvData(t, f) PROVE IInv'
<1> USE DEF IInv
<1>1. /\ place[t] \in {"recv", "sleep"} /\ holds' = holds
      /\ \A u \in Threads : place'[u] = place[u] \/ (u = t /\ place'[u] \in {"recv", "sleep"})
      /\ place' \in [Threads -> {"none", "new", "recv", "sleep"}]
      /\ UNCHANGED <<gone, open, armed, listen, events, sockfd, looping>>
  BY DEF Wake, RecvData, Recv, Goto, WorkerStep, TypeOK, client
<1>2. (\A f \in Fds : OneParty(f))'
  BY <1>1 DEF OneParty, Armed, InBatch, Argument, Held
<1>3. ThreadsInv' /\ OneThread' /\ ListenInv'
  BY <1>1 DEF ThreadsInv, OneThread, ListenInv, listen
<1>4. rcvq' \in [Fds -> 0..MaxRcv]
  BY DEF Wake, RecvData, Received, TypeOK, client
<1>5. TypeOK'
  BY <1>1, <1>4 DEF TypeOK, listen
<1> QED BY <1>2, <1>3, <1>5

\* A thread that ends gives its connection back, closes it, or leaves it to nobody.
LEMMA EndKeeps ==
  ASSUME OneshotAssumption, IInv, NEW t \in Threads,
         RecvFails(t) \/ \E f \in Fds : RecvAgain(t, f) \/ RecvEof(t, f)
  PROVE  IInv'
<1> USE DEF IInv
<1>1. /\ place[t] = "recv" /\ place' = [place EXCEPT ![t] = "none"]
      /\ holds' = [holds EXCEPT ![t] = NoFd]
      /\ UNCHANGED <<client, listen, events, sockfd, looping>>
  BY DEF RecvFails, RecvAgain, RecvEof, Recv, Goto, WorkerStep
<1>2. PICK f \in Fds : holds[t] = f
  BY <1>1 DEF ThreadsInv, TypeOK
<1>3. /\ \A u \in Threads : place'[u] = IF u = t THEN "none" ELSE place[u]
      /\ \A u \in Threads : holds'[u] = IF u = t THEN NoFd ELSE holds[u]
  BY <1>1 DEF TypeOK
<1>4. \A u \in Threads : holds'[u] # f
  BY <1>2, <1>3 DEF OneThread
<1>5. \/ UNCHANGED <<open, armed>>
      \/ open' = open /\ armed' = [armed EXCEPT ![f] = TRUE]
      \/ open' = open \ {f} /\ armed' = [armed EXCEPT ![f] = FALSE]
  BY <1>2 DEF RecvFails, RecvAgain, RecvEof, Recv, ResetOneshot
<1>6. armed' \in [Fds -> BOOLEAN] /\ \A g \in Fds : g # f => armed'[g] = armed[g]
  BY <1>5 DEF TypeOK
<1>7. f \in open /\ ~InBatch(f) /\ ~Argument(f)
  BY <1>2 DEF OneParty, Held
<1>8. ASSUME NEW g \in Fds PROVE OneParty(g)'
  <2>1. CASE g = f
    <3>1. ~InBatch(g)' /\ ~Argument(g)' /\ ~Held(g)'
      BY <1>1, <1>3, <1>4, <1>7, <2>1 DEF InBatch, Argument, Held
    <3>2. armed'[g] => g \in open'
      BY <1>5, <1>7, <2>1, <1>2 DEF OneParty, Armed, Held, TypeOK
    <3> QED BY <3>1, <3>2 DEF OneParty, Armed
  <2>2. CASE g # f
    <3>1. /\ Armed(g)' <=> Armed(g)
          /\ InBatch(g)' <=> InBatch(g)
          /\ Argument(g)' => Argument(g)
          /\ Held(g)' => Held(g)
          /\ g \in open' <=> g \in open
      BY <1>1, <1>3, <1>5, <1>6, <2>2 DEF Armed, InBatch, Argument, Held
    <3> QED BY <3>1 DEF OneParty
  <2> QED BY <2>1, <2>2
<1>9. ThreadsInv' /\ OneThread' /\ ListenInv'
  BY <1>1, <1>3 DEF ThreadsInv, OneThread, ListenInv, listen
<1>10. TypeOK'
  BY <1>1, <1>5, <1>6 DEF TypeOK, listen, client
<1> QED BY <1>8, <1>9, <1>10

LEMMA StutterKeeps == ASSUME OneshotAssumption, IInv, UNCHANGED vars PROVE IInv'
  BY DEF IInv, vars, listen, client, TypeOK, OneParty, Armed, InBatch, Argument, Held,
         ThreadsInv, ListenInv, OneThread

-----------------------------------------------------------------------------

\* With ReadsAtOnce the invariant is inductive.
LEMMA NextKeeps ==
  ASSUME OneshotAssumption, ReadsAtOnce PROVE IInv /\ [Next]_vars => IInv'
BY ClientKeeps, WaitKeeps, AcceptKeeps, StartKeeps, ReadArgumentKeeps, HolderKeeps,
   EndKeeps, StutterKeeps DEF Next, MainStep, Worker

THEOREM OneshotInvariant ==
  ASSUME OneshotAssumption, ReadsAtOnce PROVE Spec => []IInv
BY NextKeeps, InitHolds, PTL DEF Spec

\* If each thread has read its argument before the next is created, no two threads are
\* ever in the loop of one socket.
THEOREM OneshotOneThread ==
  ASSUME OneshotAssumption, ReadsAtOnce PROVE Spec => []OneThread
<1>1. IInv => OneThread
  BY DEF IInv
<1> QED BY <1>1, OneshotInvariant, PTL

\* And accept() is called for a connection that waits.
THEOREM OneshotTypeOK ==
  ASSUME OneshotAssumption, ReadsAtOnce PROVE Spec => []TypeOK
<1>1. IInv => TypeOK
  BY DEF IInv
<1> QED BY <1>1, OneshotInvariant, PTL
==============================================================================
