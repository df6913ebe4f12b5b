-------------------------- MODULE HttpServer_proof ---------------------------
(****************************************************************************)
(* Proofs about HttpServer for every set of descriptors and workers, every    *)
(* pool limit and every buffer size.  The types hold whatever the clients     *)
(* send; the rest needs RequestsFit: no client sends a request that fills     *)
(* read_buffer.  (Without it OneHolder is false: run two_threads.)            *)
(****************************************************************************)
EXTENDS HttpServer, TLAPS, FiniteSetTheorems, SequenceTheorems

MainPlaces   == {"wait", "loop", "init", "append", "close", "forget", "count"}
WorkerPlaces == {"idle", "parse", "page", "file", "modin", "modout"}

\* A thread has a connection exactly in the places that work on one, and a
\* worker never closes one: its response always fits.
PlaceInv ==
  /\ pc[Main] \in MainPlaces /\ (cur[Main] = NoFd <=> pc[Main] \in {"wait", "loop"})
  /\ \A w \in Workers : pc[w] \in WorkerPlaces /\ (cur[w] = NoFd <=> pc[w] = "idle")

BatchInv ==
  /\ pc[Main] = "wait" => ~acceptEvent /\ \A f \in Fds : events[f] = "none"
  /\ acceptEvent => backlog > 0
  /\ \A f \in Fds : events[f] = "in" => rcvq[f] > 0

\* Nobody holds a closed connection, but for the end of its close_conn().
OpenInv ==
  \A f \in Fds : /\ f \notin open => /\ armed[f] = "off" /\ events[f] = "none"
                                     /\ ~QueueHas(f) /\ ~WorkersHave(f)
                                     /\ cur[Main] = f => pc[Main] \in {"forget", "count"}
                 /\ f \in open => m_sockfd[f] = f
                 /\ InInit(f) => armed[f] = "in"
                 /\ cur[Main] = f /\ pc[Main] \in {"forget", "count"} => f \notin open

\* PhaseMatches with what it needs of the places in between: a request that is
\* not complete has left room in read_buffer.
Waiting(f) == \/ armed[f] = "in" /\ ~InInit(f)
              \/ events[f] = "in"
              \/ \E w \in Workers : cur[w] = f /\ pc[w] = "modin"
Clean(q)   == q.iv = 0 /\ q.write = 0 /\ ~q.mapped
Phase(f) ==
  /\ Requesting(f) \/ Waiting(f) => Clean(req[f])
  /\ Waiting(f) => req[f].read < ReadSize /\ req[f].checked = req[f].read
  /\ Responding(f) => /\ req[f].iv > 0 /\ (req[f].iv = 2 => req[f].mapped)
                      /\ req[f].checked = req[f].read
PhaseInv == \A f \in Fds : Phase(f)

CountInv ==
  /\ m_user_count = Cardinality(open) - 1 + (IF pc[Main] \in {"forget", "count"} THEN 1 ELSE 0)
                                          - (IF pc[Main] = "init" THEN 1 ELSE 0)
  /\ pc[Main] \in {"init", "count"} => reg[Main] = m_user_count

\* A worker in add_response() has its request parsed and its file mapped.
BuildInv ==
  \A w \in Workers : pc[w] \in {"page", "file"} =>
    req[cur[w]].checked = req[cur[w]].read /\ (pc[w] = "file" => req[cur[w]].mapped)

\* The write_index that it has tested is a number.
RegType ==
  \A w \in Workers : /\ pc[w] = "parse" => cur[w] \in Fds
                     /\ pc[w] \in {"page", "file"} => reg[w] \in Nat

IInv == /\ TypeOK
        /\ PlaceInv
        /\ BatchInv
        /\ OpenInv
        /\ OneHolder
        /\ PhaseInv
        /\ CountInv
        /\ AdmissionBound

-----------------------------------------------------------------------------
(* Lemmas *)

\* The open connections are counted by a number.
LEMMA OpenIsFinite ==
  ASSUME IInv
  PROVE  IsFiniteSet(open) /\ Cardinality(open) \in Nat
  BY ServerAssumption, FS_Subset, FS_CardinalityType DEF IInv, TypeOK

\* The object of a new connection has its type.
LEMMA NewReqType == NewReq \in HttpReq
  BY ServerAssumption DEF NewReq, HttpReq

\* The fields of an object are in their types.
LEMMA ReqFields ==
  ASSUME NEW q \in HttpReq
  PROVE  /\ q.read \in 0..ReadSize /\ q.checked \in 0..ReadSize
         /\ q.write \in Nat /\ q.iv \in 0..2
         /\ q.mapped \in BOOLEAN /\ q.connect \in BOOLEAN
  BY DEF HttpReq

\* An update of a field keeps the type and the other fields.
LEMMA ReqUpdates ==
  ASSUME NEW q \in HttpReq
  PROVE  /\ \A n \in 0..ReadSize : [q EXCEPT !.read = n] \in HttpReq
         /\ \A n \in 0..ReadSize : /\ [q EXCEPT !.checked = n] \in HttpReq
                                   /\ [q EXCEPT !.checked = n].checked = n
                                   /\ [q EXCEPT !.checked = n].read = q.read
                                   /\ Clean([q EXCEPT !.checked = n]) <=> Clean(q)
         /\ \A n \in 0..2 : /\ [q EXCEPT !.iv = n] \in HttpReq
                            /\ [q EXCEPT !.iv = n].iv = n
                            /\ [q EXCEPT !.iv = n].mapped = q.mapped
                            /\ [q EXCEPT !.iv = n].read = q.read
                            /\ [q EXCEPT !.iv = n].checked = q.checked
  BY DEF HttpReq, Clean

\* What http_parse() and process_write() make of an object.
LEMMA ParsedFields ==
  ASSUME NEW q \in HttpReq, NEW next, NEW keep \in BOOLEAN
  PROVE  /\ Parsed(q, next, keep) \in HttpReq
         /\ Parsed(q, next, keep).checked = Parsed(q, next, keep).read
         /\ next = "file" => Parsed(q, next, keep).mapped
<1>1. (q.mapped \/ next \in {"file", "cut"}) \in BOOLEAN
  OBVIOUS
<1> QED
  BY <1>1 DEF HttpReq, Parsed

LEMMA RespondedFields ==
  ASSUME NEW q \in HttpReq, NEW at, NEW from, from # "cut" => at \in Nat
  PROVE  /\ Responded(q, at, from) \in HttpReq
         /\ Responded(q, at, from).iv = IF from = "page" THEN 1 ELSE 2
         /\ Responded(q, at, from).checked = q.checked
         /\ Responded(q, at, from).read = q.read
         /\ Responded(q, at, from).mapped = q.mapped
<1>1. /\ q.write \in Nat /\ from # "cut" => at + 1 \in Nat
      /\ 1 \in 0..2 /\ 2 \in 0..2
  BY DEF HttpReq
<1> QED
  BY <1>1 DEF HttpReq, Responded

\* A connection whose object and phase an action leaves alone.
LEMMA PhaseStays ==
  ASSUME IInv, NEW g \in Fds, req'[g] = req[g],
         Requesting(g)' => Requesting(g),
         Waiting(g)' => Waiting(g),
         Responding(g)' => Responding(g)
  PROVE  Phase(g)'
  BY DEF IInv, PhaseInv, Phase

\* push_back() of a connection that is not in the queue.
LEMMA AppendToQueue ==
  ASSUME NEW q \in Seq(Fds), NEW f \in Fds,
         \A i \in 1..Len(q) : q[i] # f,
         \A i, j \in 1..Len(q) : q[i] = q[j] => i = j
  PROVE  /\ Append(q, f) \in Seq(Fds)
         /\ \A i \in 1..Len(Append(q, f)) : Append(q, f)[i] = f \/ \E j \in 1..Len(q) : q[j] = Append(q, f)[i]
         /\ \A i, j \in 1..Len(Append(q, f)) : Append(q, f)[i] = Append(q, f)[j] => i = j
<1>1. /\ Append(q, f) \in Seq(Fds)
      /\ Len(Append(q, f)) = Len(q) + 1
      /\ \A i \in 1..Len(q) : Append(q, f)[i] = q[i]
      /\ Append(q, f)[Len(q) + 1] = f
      /\ Len(q) \in Nat
  BY AppendProperties, LenProperties
<1>2. \A i \in 1..(Len(q) + 1) : i = Len(q) + 1 \/ i \in 1..Len(q)
  BY <1>1
<1> QED
  BY <1>1, <1>2

\* pop_front() of a queue without duplicates.
LEMMA TailOfQueue ==
  ASSUME NEW q \in Seq(Fds), q # <<>>,
         \A i, j \in 1..Len(q) : q[i] = q[j] => i = j
  PROVE  /\ Head(q) \in Fds /\ Tail(q) \in Seq(Fds)
         /\ \E i \in 1..Len(q) : q[i] = Head(q)
         /\ \A i \in 1..Len(Tail(q)) : /\ Tail(q)[i] # Head(q)
                                       /\ \E j \in 1..Len(q) : q[j] = Tail(q)[i]
         /\ \A i, j \in 1..Len(Tail(q)) : Tail(q)[i] = Tail(q)[j] => i = j
<1>1. /\ Head(q) \in Fds /\ Tail(q) \in Seq(Fds)
      /\ Len(Tail(q)) = Len(q) - 1
      /\ \A i \in 1..Len(Tail(q)) : Tail(q)[i] = q[i + 1]
      /\ Len(q) \in Nat \ {0}
      /\ Head(q) = q[1]
  BY HeadTailProperties, EmptySeq
<1>2. \A i \in 1..Len(Tail(q)) : i + 1 \in 1..Len(q) /\ i + 1 # 1
  BY <1>1
<1>3. 1 \in 1..Len(q)
  BY <1>1
<1> QED
  BY <1>1, <1>2, <1>3

-----------------------------------------------------------------------------
(* Every action keeps IInv. *)

\* Connect keeps every part of IInv.
LEMMA ConnectKeeps ==
  ASSUME IInv, RequestsFit, Connect
  PROVE  IInv'
<1>. USE ServerAssumption DEF IInv, Connect, ClientStep, client, epoll, batch, conn, place, count
<1>0. \A g \in Fds : QueueHas(g)' <=> QueueHas(g)
  BY DEF QueueHas
<1>1. TypeOK'
  BY <1>0 DEF TypeOK, Threads, Places
<1>2. PlaceInv'
  BY <1>0 DEF TypeOK, Threads, PlaceInv, MainPlaces, WorkerPlaces
<1>3. BatchInv'
  BY <1>0 DEF TypeOK, Threads, PlaceInv, BatchInv, OneHolder, ReactorHas
<1>4. OpenInv'
  BY <1>0 DEF TypeOK, Threads, PlaceInv, BatchInv, OpenInv, OneHolder, KernelHas, ReactorHas, InInit, WorkersHave, WorkerHas
<1>5. OneHolder'
  BY <1>0 DEF TypeOK, Threads, PlaceInv, BatchInv, OpenInv, OneHolder, KernelHas, ReactorHas, InInit, WorkersHave, WorkerHas
<1>6. PhaseInv'
  BY <1>0 DEF TypeOK, Threads, PlaceInv, BatchInv, OpenInv, OneHolder, KernelHas, ReactorHas, InInit, WorkersHave, WorkerHas, PhaseInv, Phase, Waiting, Clean, Requesting, Responding, Parsing, Answering
<1>7. CountInv'
  BY <1>0 DEF TypeOK, Threads, PlaceInv, CountInv
<1>8. AdmissionBound'
  BY <1>0 DEF AdmissionBound
<1> QED
  BY <1>1, <1>2, <1>3, <1>4, <1>5, <1>6, <1>7, <1>8

\* Send keeps every part of IInv.
LEMMA SendKeeps ==
  ASSUME IInv, RequestsFit, NEW f \in Fds, Send(f)
  PROVE  IInv'
<1>. USE ServerAssumption DEF IInv, Send, ClientStep, client, epoll, batch, conn, place, count
<1>0. \A g \in Fds : QueueHas(g)' <=> QueueHas(g)
  BY DEF QueueHas
<1>1. TypeOK'
  <2>1. rcvq[f] + 1 \in 0..MaxRcv
    BY DEF TypeOK
  <2> QED
    BY <2>1 DEF TypeOK
<1>2. PlaceInv'
  BY <1>0 DEF TypeOK, Threads, PlaceInv, MainPlaces, WorkerPlaces
<1>3. BatchInv'
  BY <1>0 DEF TypeOK, Threads, PlaceInv, BatchInv, OneHolder, ReactorHas
<1>4. OpenInv'
  BY <1>0 DEF TypeOK, Threads, PlaceInv, BatchInv, OpenInv, OneHolder, KernelHas, ReactorHas, InInit, WorkersHave, WorkerHas
<1>5. OneHolder'
  BY <1>0 DEF TypeOK, Threads, PlaceInv, BatchInv, OpenInv, OneHolder, KernelHas, ReactorHas, InInit, WorkersHave, WorkerHas
<1>6. PhaseInv'
  BY <1>0 DEF PhaseInv, Phase, Waiting, Clean, Requesting, Responding, Parsing, Answering, InInit
<1>7. CountInv'
  BY <1>0 DEF TypeOK, Threads, PlaceInv, CountInv
<1>8. AdmissionBound'
  BY <1>0 DEF AdmissionBound
<1> QED
  BY <1>1, <1>2, <1>3, <1>4, <1>5, <1>6, <1>7, <1>8

\* Drain keeps every part of IInv.
LEMMA DrainKeeps ==
  ASSUME IInv, RequestsFit, NEW f \in Fds, Drain(f)
  PROVE  IInv'
<1>. USE ServerAssumption DEF IInv, Drain, ClientStep, client, epoll, batch, conn, place, count
<1>0. \A g \in Fds : QueueHas(g)' <=> QueueHas(g)
  BY DEF QueueHas
<1>1. TypeOK'
  BY <1>0 DEF TypeOK, Threads, Places
<1>2. PlaceInv'
  BY <1>0 DEF TypeOK, Threads, PlaceInv, MainPlaces, WorkerPlaces
<1>3. BatchInv'
  BY <1>0 DEF TypeOK, Threads, PlaceInv, BatchInv, OneHolder, ReactorHas
<1>4. OpenInv'
  BY <1>0 DEF TypeOK, Threads, PlaceInv, BatchInv, OpenInv, OneHolder, KernelHas, ReactorHas, InInit, WorkersHave, WorkerHas
<1>5. OneHolder'
  BY <1>0 DEF TypeOK, Threads, PlaceInv, BatchInv, OpenInv, OneHolder, KernelHas, ReactorHas, InInit, WorkersHave, WorkerHas
<1>6. PhaseInv'
  BY <1>0 DEF TypeOK, Threads, PlaceInv, BatchInv, OpenInv, OneHolder, KernelHas, ReactorHas, InInit, WorkersHave, WorkerHas, PhaseInv, Phase, Waiting, Clean, Requesting, Responding, Parsing, Answering
<1>7. CountInv'
  BY <1>0 DEF TypeOK, Threads, PlaceInv, CountInv
<1>8. AdmissionBound'
  BY <1>0 DEF AdmissionBound
<1> QED
  BY <1>1, <1>2, <1>3, <1>4, <1>5, <1>6, <1>7, <1>8

\* HangUp keeps every part of IInv.
LEMMA HangUpKeeps ==
  ASSUME IInv, RequestsFit, NEW f \in Fds, HangUp(f)
  PROVE  IInv'
<1>. USE ServerAssumption DEF IInv, HangUp, ClientStep, client, epoll, batch, conn, place, count
<1>0. \A g \in Fds : QueueHas(g)' <=> QueueHas(g)
  BY DEF QueueHas
<1>1. TypeOK'
  BY <1>0 DEF TypeOK, Threads, Places
<1>2. PlaceInv'
  BY <1>0 DEF TypeOK, Threads, PlaceInv, MainPlaces, WorkerPlaces
<1>3. BatchInv'
  BY <1>0 DEF TypeOK, Threads, PlaceInv, BatchInv, OneHolder, ReactorHas
<1>4. OpenInv'
  BY <1>0 DEF TypeOK, Threads, PlaceInv, BatchInv, OpenInv, OneHolder, KernelHas, ReactorHas, InInit, WorkersHave, WorkerHas
<1>5. OneHolder'
  BY <1>0 DEF TypeOK, Threads, PlaceInv, BatchInv, OpenInv, OneHolder, KernelHas, ReactorHas, InInit, WorkersHave, WorkerHas
<1>6. PhaseInv'
  BY <1>0 DEF TypeOK, Threads, PlaceInv, BatchInv, OpenInv, OneHolder, KernelHas, ReactorHas, InInit, WorkersHave, WorkerHas, PhaseInv, Phase, Waiting, Clean, Requesting, Responding, Parsing, Answering
<1>7. CountInv'
  BY <1>0 DEF TypeOK, Threads, PlaceInv, CountInv
<1>8. AdmissionBound'
  BY <1>0 DEF AdmissionBound
<1> QED
  BY <1>1, <1>2, <1>3, <1>4, <1>5, <1>6, <1>7, <1>8

\* EpollWait keeps every part of IInv.
LEMMA EpollWaitKeeps ==
  ASSUME IInv, RequestsFit, EpollWait
  PROVE  IInv'
<1>. USE ServerAssumption DEF IInv, EpollWait, Goto, Disarmed, Ready, Reported, client, epoll, batch, conn, place, count
<1>0. \A g \in Fds : QueueHas(g)' <=> QueueHas(g)
  BY DEF QueueHas
<1>1. TypeOK'
  BY <1>0 DEF TypeOK, Threads, Places
<1>2. PlaceInv'
  BY <1>0 DEF TypeOK, Threads, PlaceInv, MainPlaces, WorkerPlaces
<1>3. BatchInv'
  BY <1>0 DEF TypeOK, Threads, PlaceInv, BatchInv, OneHolder, ReactorHas
<1>4. OpenInv'
  BY <1>0 DEF TypeOK, Threads, PlaceInv, BatchInv, OpenInv, OneHolder, KernelHas, ReactorHas, InInit, WorkersHave, WorkerHas
<1>5. OneHolder'
  BY <1>0 DEF TypeOK, Threads, PlaceInv, BatchInv, OpenInv, OneHolder, KernelHas, ReactorHas, InInit, WorkersHave, WorkerHas
<1>6. PhaseInv'
  BY <1>0 DEF TypeOK, Threads, PlaceInv, BatchInv, OpenInv, OneHolder, KernelHas, ReactorHas, InInit, WorkersHave, WorkerHas, PhaseInv, Phase, Waiting, Clean, Requesting, Responding, Parsing, Answering
<1>7. CountInv'
  BY <1>0 DEF TypeOK, Threads, PlaceInv, CountInv
<1>8. AdmissionBound'
  BY <1>0 DEF AdmissionBound
<1> QED
  BY <1>1, <1>2, <1>3, <1>4, <1>5, <1>6, <1>7, <1>8

\* BatchDone keeps every part of IInv.
LEMMA BatchDoneKeeps ==
  ASSUME IInv, RequestsFit, BatchDone
  PROVE  IInv'
<1>. USE ServerAssumption DEF IInv, BatchDone, Goto, client, epoll, batch, conn, place, count
<1>0. \A g \in Fds : QueueHas(g)' <=> QueueHas(g)
  BY DEF QueueHas
<1>1. TypeOK'
  BY <1>0 DEF TypeOK, Threads, Places
<1>2. PlaceInv'
  BY <1>0 DEF TypeOK, Threads, PlaceInv, MainPlaces, WorkerPlaces
<1>3. BatchInv'
  BY <1>0 DEF TypeOK, Threads, PlaceInv, BatchInv, OneHolder, ReactorHas
<1>4. OpenInv'
  BY <1>0 DEF TypeOK, Threads, PlaceInv, BatchInv, OpenInv, OneHolder, KernelHas, ReactorHas, InInit, WorkersHave, WorkerHas
<1>5. OneHolder'
  BY <1>0 DEF TypeOK, Threads, PlaceInv, BatchInv, OpenInv, OneHolder, KernelHas, ReactorHas, InInit, WorkersHave, WorkerHas
<1>6. PhaseInv'
  BY <1>0 DEF TypeOK, Threads, PlaceInv, BatchInv, OpenInv, OneHolder, KernelHas, ReactorHas, InInit, WorkersHave, WorkerHas, PhaseInv, Phase, Waiting, Clean, Requesting, Responding, Parsing, Answering
<1>7. CountInv'
  BY <1>0 DEF TypeOK, Threads, PlaceInv, CountInv
<1>8. AdmissionBound'
  BY <1>0 DEF AdmissionBound
<1> QED
  BY <1>1, <1>2, <1>3, <1>4, <1>5, <1>6, <1>7, <1>8

\* AcceptFails keeps every part of IInv.
LEMMA AcceptFailsKeeps ==
  ASSUME IInv, RequestsFit, AcceptFails
  PROVE  IInv'
<1>. USE ServerAssumption DEF IInv, AcceptFails, TakeAccept, client, epoll, batch, conn, place, count
<1>0. \A g \in Fds : QueueHas(g)' <=> QueueHas(g)
  BY DEF QueueHas
<1>1. TypeOK'
  BY <1>0 DEF TypeOK, Threads, Places
<1>2. PlaceInv'
  BY <1>0 DEF TypeOK, Threads, PlaceInv, MainPlaces, WorkerPlaces
<1>3. BatchInv'
  BY <1>0 DEF TypeOK, Threads, PlaceInv, BatchInv, OneHolder, ReactorHas
<1>4. OpenInv'
  BY <1>0 DEF TypeOK, Threads, PlaceInv, BatchInv, OpenInv, OneHolder, KernelHas, ReactorHas, InInit, WorkersHave, WorkerHas
<1>5. OneHolder'
  BY <1>0 DEF TypeOK, Threads, PlaceInv, BatchInv, OpenInv, OneHolder, KernelHas, ReactorHas, InInit, WorkersHave, WorkerHas
<1>6. PhaseInv'
  BY <1>0 DEF TypeOK, Threads, PlaceInv, BatchInv, OpenInv, OneHolder, KernelHas, ReactorHas, InInit, WorkersHave, WorkerHas, PhaseInv, Phase, Waiting, Clean, Requesting, Responding, Parsing, Answering
<1>7. CountInv'
  BY <1>0 DEF TypeOK, Threads, PlaceInv, CountInv
<1>8. AdmissionBound'
  BY <1>0 DEF AdmissionBound
<1> QED
  BY <1>1, <1>2, <1>3, <1>4, <1>5, <1>6, <1>7, <1>8

\* AcceptBusy keeps every part of IInv.
LEMMA AcceptBusyKeeps ==
  ASSUME IInv, RequestsFit, AcceptBusy
  PROVE  IInv'
<1>. USE ServerAssumption DEF IInv, AcceptBusy, TakeAccept, client, epoll, batch, conn, place, count
<1>0. \A g \in Fds : QueueHas(g)' <=> QueueHas(g)
  BY DEF QueueHas
<1>1. TypeOK'
  <2>1. backlog - 1 \in 0..MaxBacklog
    BY DEF TypeOK, BatchInv
  <2> QED
    BY <2>1 DEF TypeOK
<1>2. PlaceInv'
  BY <1>0 DEF TypeOK, Threads, PlaceInv, MainPlaces, WorkerPlaces
<1>3. BatchInv'
  BY <1>0 DEF TypeOK, Threads, PlaceInv, BatchInv, OneHolder, ReactorHas
<1>4. OpenInv'
  BY <1>0 DEF TypeOK, Threads, PlaceInv, BatchInv, OpenInv, OneHolder, KernelHas, ReactorHas, InInit, WorkersHave, WorkerHas
<1>5. OneHolder'
  BY <1>0 DEF TypeOK, Threads, PlaceInv, BatchInv, OpenInv, OneHolder, KernelHas, ReactorHas, InInit, WorkersHave, WorkerHas
<1>6. PhaseInv'
  BY <1>0 DEF TypeOK, Threads, PlaceInv, BatchInv, OpenInv, OneHolder, KernelHas, ReactorHas, InInit, WorkersHave, WorkerHas, PhaseInv, Phase, Waiting, Clean, Requesting, Responding, Parsing, Answering
<1>7. CountInv'
  BY <1>0 DEF TypeOK, Threads, PlaceInv, CountInv
<1>8. AdmissionBound'
  BY <1>0 DEF AdmissionBound
<1> QED
  BY <1>1, <1>2, <1>3, <1>4, <1>5, <1>6, <1>7, <1>8

\* AcceptConn keeps every part of IInv.
LEMMA AcceptConnKeeps ==
  ASSUME IInv, RequestsFit, NEW f \in Fds, AcceptConn(f)
  PROVE  IInv'
<1>. USE ServerAssumption DEF IInv, AcceptConn, TakeAccept, AddFd, Goto, client, epoll, batch, conn, place, count
<1>0. \A g \in Fds : QueueHas(g)' <=> QueueHas(g)
  BY DEF QueueHas
<1>1. TypeOK'
  <2>1. backlog - 1 \in 0..MaxBacklog
    BY DEF TypeOK, BatchInv
  <2>2. Main \in Threads
    BY DEF Threads
  <2> QED
    BY <2>1, <2>2 DEF TypeOK, Places
<1>2. PlaceInv'
  BY <1>0 DEF TypeOK, Threads, PlaceInv, MainPlaces, WorkerPlaces
<1>3. BatchInv'
  BY DEF TypeOK, Threads, PlaceInv, BatchInv, OpenInv
<1>4. OpenInv'
  BY <1>0 DEF TypeOK, Threads, PlaceInv, BatchInv, OpenInv, OneHolder, KernelHas, ReactorHas, InInit, WorkersHave, WorkerHas
<1>5. OneHolder'
  BY <1>0 DEF TypeOK, Threads, PlaceInv, BatchInv, OpenInv, OneHolder, KernelHas, ReactorHas, InInit, WorkersHave, WorkerHas
<1>6. PhaseInv'
  BY <1>0 DEF TypeOK, Threads, PlaceInv, BatchInv, OpenInv, OneHolder, KernelHas, ReactorHas, InInit, WorkersHave, WorkerHas, PhaseInv, Phase, Waiting, Clean, Requesting, Responding, Parsing, Answering
<1>7. CountInv'
  <2>1. Cardinality(open') = Cardinality(open) + 1 /\ Cardinality(open) \in Nat
    BY OpenIsFinite, FS_AddElement
  <2>2. pc[Main] = "loop" /\ pc'[Main] = "init" /\ reg'[Main] = m_user_count
    BY DEF TypeOK, Threads
  <2> QED
    BY <2>1, <2>2 DEF CountInv
<1>8. AdmissionBound'
  <2>1. Cardinality(open') = Cardinality(open) + 1 /\ Cardinality(open) \in Nat
    BY OpenIsFinite, FS_AddElement
  <2>2. m_user_count = Cardinality(open) - 1
    BY <2>1 DEF CountInv, TypeOK
  <2>3. m_user_count < MaxFd
    BY <2>1, <2>2 DEF Busy
  <2> QED
    BY <2>1, <2>2, <2>3 DEF AdmissionBound
<1> QED
  BY <1>1, <1>2, <1>3, <1>4, <1>5, <1>6, <1>7, <1>8

\* InitConn keeps every part of IInv.
LEMMA InitConnKeeps ==
  ASSUME IInv, RequestsFit, InitConn
  PROVE  IInv'
<1>. USE ServerAssumption DEF IInv, InitConn, HttpReset, Goto, client, epoll, batch, conn, place, count
<1>0. \A g \in Fds : QueueHas(g)' <=> QueueHas(g)
  BY DEF QueueHas
<1>1. TypeOK'
  <2>1. cur[Main] \in Fds /\ Main \in Threads
    BY DEF TypeOK, PlaceInv, Threads
  <2> QED
    BY <2>1, NewReqType DEF TypeOK, Places
<1>2. PlaceInv'
  BY <1>0 DEF TypeOK, Threads, PlaceInv, MainPlaces, WorkerPlaces
<1>3. BatchInv'
  BY <1>0 DEF TypeOK, Threads, PlaceInv, BatchInv, OneHolder, ReactorHas
<1>4. OpenInv'
  BY <1>0 DEF TypeOK, Threads, PlaceInv, BatchInv, OpenInv, OneHolder, KernelHas, ReactorHas, InInit, WorkersHave, WorkerHas
<1>5. OneHolder'
  BY <1>0 DEF TypeOK, Threads, PlaceInv, BatchInv, OpenInv, OneHolder, KernelHas, ReactorHas, InInit, WorkersHave, WorkerHas
<1>6. PhaseInv'
  <2> SUFFICES ASSUME NEW g \in Fds PROVE Phase(g)'
    BY DEF PhaseInv
  <2>1. cur[Main] \in Fds
    BY DEF TypeOK, Threads, PlaceInv
  <2>2. CASE g = cur[Main]
    <3>1. req'[g] = NewReq
      BY <2>1, <2>2 DEF TypeOK
    <3>2. armed[g] = "in" /\ events[g] = "none" /\ ~WorkersHave(g)
      BY <2>1, <2>2 DEF OpenInv, InInit, OneHolder, ReactorHas
    <3>3. ~Responding(g)'
      BY <3>2, <2>2 DEF Threads, Responding, Answering, WorkersHave, WorkerHas
    <3> QED
      BY <3>1, <3>3, NewReqType, ReqFields DEF Phase, Clean, NewReq
  <2>3. CASE g # cur[Main]
    <3>1. req'[g] = req[g]
      BY <2>1, <2>3 DEF TypeOK
    <3>2. /\ Requesting(g)' => Requesting(g)
          /\ Waiting(g)' => Waiting(g)
          /\ Responding(g)' => Responding(g)
      BY <1>0, <2>3 DEF TypeOK, Threads, Requesting, Waiting, Responding, Parsing, Answering, InInit
    <3> QED
      BY <3>1, <3>2, PhaseStays
  <2> QED
    BY <2>2, <2>3
<1>7. CountInv'
  <2>1. Cardinality(open) \in Nat
    BY OpenIsFinite
  <2>2. pc'[Main] = "loop" /\ m_user_count' = m_user_count + 1
    BY DEF TypeOK, Threads, CountInv
  <2> QED
    BY <2>1, <2>2 DEF CountInv
<1>8. AdmissionBound'
  BY <1>0 DEF AdmissionBound
<1> QED
  BY <1>1, <1>2, <1>3, <1>4, <1>5, <1>6, <1>7, <1>8

\* HandleHup keeps every part of IInv.
LEMMA HandleHupKeeps ==
  ASSUME IInv, RequestsFit, NEW f \in Fds, HandleHup(f)
  PROVE  IInv'
<1>. USE ServerAssumption DEF IInv, HandleHup, TakeEvent, Goto, client, epoll, batch, conn, place, count
<1>0. \A g \in Fds : QueueHas(g)' <=> QueueHas(g)
  BY DEF QueueHas
<1>1. TypeOK'
  BY <1>0 DEF TypeOK, Threads, Places
<1>2. PlaceInv'
  BY <1>0 DEF TypeOK, Threads, PlaceInv, MainPlaces, WorkerPlaces
<1>3. BatchInv'
  BY <1>0 DEF TypeOK, Threads, PlaceInv, BatchInv, OneHolder, ReactorHas
<1>4. OpenInv'
  BY <1>0 DEF TypeOK, Threads, PlaceInv, BatchInv, OpenInv, OneHolder, KernelHas, ReactorHas, InInit, WorkersHave, WorkerHas
<1>5. OneHolder'
  BY <1>0 DEF TypeOK, Threads, PlaceInv, BatchInv, OpenInv, OneHolder, KernelHas, ReactorHas, InInit, WorkersHave, WorkerHas
<1>6. PhaseInv'
  BY <1>0 DEF TypeOK, Threads, PlaceInv, BatchInv, OpenInv, OneHolder, KernelHas, ReactorHas, InInit, WorkersHave, WorkerHas, PhaseInv, Phase, Waiting, Clean, Requesting, Responding, Parsing, Answering
<1>7. CountInv'
  BY <1>0 DEF TypeOK, Threads, PlaceInv, CountInv
<1>8. AdmissionBound'
  BY <1>0 DEF AdmissionBound
<1> QED
  BY <1>1, <1>2, <1>3, <1>4, <1>5, <1>6, <1>7, <1>8

\* ReadData keeps every part of IInv.
LEMMA ReadDataKeeps ==
  ASSUME IInv, RequestsFit, NEW f \in Fds, ReadData(f)
  PROVE  IInv'
<1>. USE ServerAssumption DEF IInv, ReadData, TakeEvent, Goto, client, epoll, batch, conn, place, count
<1>0. \A g \in Fds : QueueHas(g)' <=> QueueHas(g)
  BY DEF QueueHas
<1>1. TypeOK'
  <2>1. req[f] \in HttpReq /\ rcvq[f] \in 0..MaxRcv
    BY DEF TypeOK
  <2>2. /\ req[f].read + Received(f) \in 0..ReadSize
        /\ rcvq[f] - Received(f) \in 0..MaxRcv
    BY <2>1, ReqFields DEF Received, BufferFull
  <2>3. req' = [req EXCEPT ![f] = [req[f] EXCEPT !.read = req[f].read + Received(f)]]
    BY DEF TypeOK
  <2>a. [req[f] EXCEPT !.read = req[f].read + Received(f)] \in HttpReq
    BY <2>1, <2>2, ReqUpdates
  <2>4. req' \in [Fds -> HttpReq]
    BY <2>3, <2>a DEF TypeOK
  <2>5. rcvq' \in [Fds -> 0..MaxRcv]
    BY <2>2 DEF TypeOK
  <2>6. Main \in Threads
    BY DEF Threads
  <2> QED
    BY <2>4, <2>5, <2>6 DEF TypeOK, Places
<1>2. PlaceInv'
  BY <1>0 DEF TypeOK, Threads, PlaceInv, MainPlaces, WorkerPlaces
<1>3. BatchInv'
  BY <1>0 DEF TypeOK, Threads, PlaceInv, BatchInv, OneHolder, ReactorHas
<1>4. OpenInv'
  BY <1>0 DEF TypeOK, Threads, PlaceInv, BatchInv, OpenInv, OneHolder, KernelHas, ReactorHas, InInit, WorkersHave, WorkerHas
<1>5. OneHolder'
  BY <1>0 DEF TypeOK, Threads, PlaceInv, OneHolder, KernelHas, ReactorHas, InInit, WorkersHave, WorkerHas
<1>6. PhaseInv'
  BY <1>0 DEF TypeOK, Threads, PlaceInv, BatchInv, OpenInv, OneHolder, KernelHas, ReactorHas, InInit, WorkersHave, WorkerHas, PhaseInv, Phase, Waiting, Clean, Requesting, Responding, Parsing, Answering
<1>7. CountInv'
  BY <1>0 DEF TypeOK, Threads, PlaceInv, CountInv
<1>8. AdmissionBound'
  BY <1>0 DEF AdmissionBound
<1> QED
  BY <1>1, <1>2, <1>3, <1>4, <1>5, <1>6, <1>7, <1>8

\* ReadFails keeps every part of IInv.
LEMMA ReadFailsKeeps ==
  ASSUME IInv, RequestsFit, NEW f \in Fds, ReadFails(f)
  PROVE  IInv'
<1>. USE ServerAssumption DEF IInv, ReadFails, TakeEvent, Goto, client, epoll, batch, conn, place, count
<1>0. \A g \in Fds : QueueHas(g)' <=> QueueHas(g)
  BY DEF QueueHas
<1>1. TypeOK'
  BY <1>0 DEF TypeOK, Threads, Places
<1>2. PlaceInv'
  BY <1>0 DEF TypeOK, Threads, PlaceInv, MainPlaces, WorkerPlaces
<1>3. BatchInv'
  BY <1>0 DEF TypeOK, Threads, PlaceInv, BatchInv, OneHolder, ReactorHas
<1>4. OpenInv'
  BY <1>0 DEF TypeOK, Threads, PlaceInv, BatchInv, OpenInv, OneHolder, KernelHas, ReactorHas, InInit, WorkersHave, WorkerHas
<1>5. OneHolder'
  BY <1>0 DEF TypeOK, Threads, PlaceInv, BatchInv, OpenInv, OneHolder, KernelHas, ReactorHas, InInit, WorkersHave, WorkerHas
<1>6. PhaseInv'
  BY <1>0 DEF TypeOK, Threads, PlaceInv, BatchInv, OpenInv, OneHolder, KernelHas, ReactorHas, InInit, WorkersHave, WorkerHas, PhaseInv, Phase, Waiting, Clean, Requesting, Responding, Parsing, Answering
<1>7. CountInv'
  BY <1>0 DEF TypeOK, Threads, PlaceInv, CountInv
<1>8. AdmissionBound'
  BY <1>0 DEF AdmissionBound
<1> QED
  BY <1>1, <1>2, <1>3, <1>4, <1>5, <1>6, <1>7, <1>8

\* AppendTask keeps every part of IInv.
LEMMA AppendTaskKeeps ==
  ASSUME IInv, RequestsFit, AppendTask
  PROVE  IInv'
<1>. USE ServerAssumption DEF IInv, AppendTask, Goto, client, epoll, batch, conn, place, count
<1>0. /\ cur[Main] \in Fds /\ ~QueueHas(cur[Main])
      /\ \A g \in Fds : QueueHas(g)' => QueueHas(g) \/ g = cur[Main]
      /\ m_workqueue' \in Seq(Fds)
      /\ \A i, j \in 1..Len(m_workqueue') : m_workqueue'[i] = m_workqueue'[j] => i = j
  <2>1. cur[Main] \in Fds /\ ~QueueHas(cur[Main])
    BY DEF TypeOK, Threads, PlaceInv, OneHolder, ReactorHas
  <2>2. CASE m_workqueue' = m_workqueue
    BY <2>1, <2>2 DEF TypeOK, OneHolder, QueueHas
  <2>3. CASE m_workqueue' = Append(m_workqueue, cur[Main])
    BY <2>1, <2>3, AppendToQueue DEF TypeOK, OneHolder, QueueHas
  <2> QED
    BY <2>2, <2>3
<1>1. TypeOK'
  BY <1>0 DEF TypeOK, Threads, Places
<1>2. PlaceInv'
  BY <1>0 DEF TypeOK, Threads, PlaceInv, MainPlaces, WorkerPlaces
<1>3. BatchInv'
  BY <1>0 DEF TypeOK, Threads, PlaceInv, BatchInv, OneHolder, ReactorHas
<1>4. OpenInv'
  BY <1>0 DEF TypeOK, Threads, PlaceInv, BatchInv, OpenInv, OneHolder, KernelHas, ReactorHas, InInit, WorkersHave, WorkerHas
<1>5. OneHolder'
  <2>1. ~KernelHas(cur[Main]) /\ ~WorkersHave(cur[Main]) /\ events[cur[Main]] = "none"
    BY <1>0 DEF OneHolder, ReactorHas
  <2>2. \A i, j \in 1..Len(m_workqueue') : m_workqueue'[i] = m_workqueue'[j] => i = j
    BY <1>0
  <2>3. \A g \in Fds : /\ KernelHas(g)' <=> KernelHas(g)
                       /\ WorkersHave(g)' <=> WorkersHave(g)
                       /\ ReactorHas(g)' <=> events[g] # "none"
    BY DEF TypeOK, Threads, KernelHas, WorkersHave, WorkerHas, ReactorHas, InInit
  <2> QED
    BY <1>0, <2>1, <2>2, <2>3 DEF TypeOK, Threads, OneHolder, ReactorHas
<1>6. PhaseInv'
  <2> SUFFICES ASSUME NEW g \in Fds PROVE Phase(g)'
    BY DEF PhaseInv
  <2>1. /\ Requesting(g)' => Requesting(g)
        /\ Waiting(g)' => Waiting(g)
        /\ Responding(g)' => Responding(g)
    BY <1>0 DEF TypeOK, Threads, Requesting, Waiting, Responding, Parsing, Answering, InInit
  <2> QED
    BY <2>1, PhaseStays
<1>7. CountInv'
  BY <1>0 DEF TypeOK, Threads, PlaceInv, CountInv
<1>8. AdmissionBound'
  BY <1>0 DEF AdmissionBound
<1> QED
  BY <1>1, <1>2, <1>3, <1>4, <1>5, <1>6, <1>7, <1>8

\* WriteAll keeps every part of IInv.
LEMMA WriteAllKeeps ==
  ASSUME IInv, RequestsFit, NEW f \in Fds, WriteAll(f)
  PROVE  IInv'
<1>. USE ServerAssumption DEF IInv
<1>u. /\ UNCHANGED <<backlog, hup, open, acceptEvent, m_workqueue, count, rcvq, full, errno, m_sockfd>>
      /\ events' = [events EXCEPT ![f] = "none"] /\ events[f] = "out" /\ pc[Main] = "loop"
  BY DEF WriteAll, TakeEvent
<1>0. \A g \in Fds : QueueHas(g)' <=> QueueHas(g)
  BY <1>u DEF QueueHas
<1>o. /\ f \in open /\ m_sockfd[f] = f /\ cur[Main] = NoFd /\ f # NoFd
      /\ ~QueueHas(f) /\ ~WorkersHave(f) /\ armed[f] = "off" /\ events'[f] = "none"
  BY <1>u DEF TypeOK, Threads, PlaceInv, OpenInv, OneHolder, KernelHas, ReactorHas, InInit
<1>p. \/ /\ req' = [req EXCEPT ![f] = NewReq] /\ armed' = [armed EXCEPT ![f] = "in"]
         /\ pc' = pc /\ cur' = cur
      \/ /\ req' = [req EXCEPT ![f] = [req[f] EXCEPT !.iv = 0]] /\ armed' = armed
         /\ pc' = [pc EXCEPT ![Main] = "close"] /\ cur' = [cur EXCEPT ![Main] = f]
  BY <1>o DEF WriteAll, HttpReset, ModFd, Stay, place, Goto, Usable, TypeOK
<1>q. /\ pc'[Main] \in {"loop", "close"}
      /\ \A w \in Workers : pc'[w] = pc[w] /\ cur'[w] = cur[w]
  BY <1>u, <1>p, <1>o DEF TypeOK, Threads
<1> USE DEF count
<1>1. TypeOK'
  <2>1. req[f] \in HttpReq /\ Main \in Threads /\ 0 \in 0..2
    BY DEF TypeOK, Threads
  <2>2. NewReq \in HttpReq /\ [req[f] EXCEPT !.iv = 0] \in HttpReq
    BY <2>1, NewReqType, ReqUpdates
  <2>3. req' \in [Fds -> HttpReq]
    BY <1>p, <2>2 DEF TypeOK
  <2>4. pc' \in [Threads -> Places] /\ cur' \in [Threads -> Fds \cup {NoFd}]
    <3>1. "close" \in Places
      BY DEF Places
    <3>2. \/ pc' = pc /\ cur' = cur
          \/ pc' = [pc EXCEPT ![Main] = "close"] /\ cur' = [cur EXCEPT ![Main] = f]
      BY <1>p, Zenon
    <3>3. /\ pc \in [Threads -> Places] /\ cur \in [Threads -> Fds \cup {NoFd}]
          /\ Main \in Threads
      BY DEF TypeOK, Threads
    <3>4. CASE pc' = pc /\ cur' = cur
      BY <3>3, <3>4, Zenon
    <3>5. CASE pc' = [pc EXCEPT ![Main] = "close"] /\ cur' = [cur EXCEPT ![Main] = f]
      <4> HIDE ServerAssumption DEF IInv
      <4> QED
        BY <3>1, <3>3, <3>5
    <3> QED
      BY <3>2, <3>4, <3>5, Zenon
  <2>5. armed' \in [Fds -> {"off", "in", "out"}]
    BY <1>p DEF TypeOK
  <2>6. /\ backlog' \in 0..MaxBacklog /\ acceptEvent' \in BOOLEAN /\ errno' \in {"EAGAIN", "other"}
        /\ open' \in SUBSET Fds /\ rcvq' \in [Fds -> 0..MaxRcv] /\ hup' \in [Fds -> BOOLEAN]
        /\ full' \in [Fds -> BOOLEAN] /\ m_sockfd' \in [Fds -> Fds \cup {NoFd, StdinFd}]
        /\ m_workqueue' \in Seq(Fds) /\ m_user_count' \in Int /\ reg' \in [Threads -> Int]
    BY <1>u, Zenon DEF TypeOK
  <2>7. events' \in [Fds -> {"none", "in", "out", "hup"}]
    BY <1>u DEF TypeOK
  <2> QED
    BY <2>3, <2>4, <2>5, <2>6, <2>7 DEF TypeOK
<1>2. PlaceInv'
  BY <1>0, <1>u, <1>p, <1>o DEF TypeOK, Threads, PlaceInv, MainPlaces, WorkerPlaces
<1>3. BatchInv'
  BY <1>0, <1>u, <1>p, <1>o DEF TypeOK, Threads, PlaceInv, BatchInv, OneHolder, ReactorHas
<1>4. OpenInv'
  BY <1>0, <1>u, <1>p, <1>o DEF TypeOK, Threads, PlaceInv, BatchInv, OpenInv, OneHolder, KernelHas, ReactorHas, InInit, WorkersHave, WorkerHas
<1>5. OneHolder'
  <2>1. \A g \in Fds : WorkersHave(g)' <=> WorkersHave(g)
    BY <1>p DEF TypeOK, Threads, WorkersHave, WorkerHas
  <2>2. \A g \in Fds : g # f => /\ KernelHas(g)' <=> KernelHas(g)
                                /\ ReactorHas(g)' <=> ReactorHas(g)
    BY <1>o, <1>u, <1>p DEF TypeOK, Threads, KernelHas, ReactorHas, InInit
  <2>3. ~(KernelHas(f)' /\ ReactorHas(f)')
    BY <1>o, <1>u, <1>p DEF TypeOK, Threads, KernelHas, ReactorHas, InInit
  <2>4. \A g \in Fds : events'[g] # "none" => cur'[Main] # g
    BY <1>o, <1>u, <1>p DEF TypeOK, Threads
  <2>5. \A u, v \in Workers : cur'[u] = cur'[v] /\ cur'[u] # NoFd => u = v
    BY <1>p DEF TypeOK, Threads, OneHolder
  <2> QED
    BY <1>0, <1>o, <1>u, <2>1, <2>2, <2>3, <2>4, <2>5 DEF OneHolder
<1>6. PhaseInv'
  <2> SUFFICES ASSUME NEW g \in Fds PROVE Phase(g)'
    BY DEF PhaseInv
  <2>1. CASE g # f
    <3>1. req'[g] = req[g] /\ armed'[g] = armed[g] /\ events'[g] = events[g]
      BY <1>p, <1>u, <2>1 DEF TypeOK
    <3>2. /\ Requesting(g)' => Requesting(g)
          /\ Waiting(g)' => Waiting(g)
          /\ Responding(g)' => Responding(g)
      BY <1>0, <1>q, <1>u, <3>1
      DEF Requesting, Waiting, Responding, Parsing, Answering, InInit
    <3> QED
      BY <3>1, <3>2, PhaseStays
  <2>2. CASE g = f
    <3>1. \A w \in Workers : cur'[w] # f
      BY <1>o, <1>p DEF TypeOK, Threads, WorkersHave, WorkerHas
    <3>2. ~Responding(f)'
      BY <1>o, <1>p, <3>1 DEF TypeOK, Responding, Answering
    <3>3. CASE req' = [req EXCEPT ![f] = NewReq]
      <4>1. req'[f] = NewReq
        BY <3>3 DEF TypeOK
      <4> QED
        BY <2>2, <3>2, <4>1 DEF Phase, Clean, NewReq
    <3>4. CASE pc' = [pc EXCEPT ![Main] = "close"] /\ armed' = armed
      <4>1. ~Requesting(f)' /\ ~Waiting(f)'
        BY <1>0, <1>o, <3>1, <3>4 DEF TypeOK, Threads, Requesting, Waiting, Parsing
      <4> QED
        BY <2>2, <3>2, <4>1 DEF Phase
    <3> QED
      BY <1>p, <3>3, <3>4
  <2> QED
    BY <2>1, <2>2
<1>7. CountInv'
  BY <1>0, <1>u, <1>p, <1>o DEF TypeOK, Threads, PlaceInv, CountInv
<1>8. AdmissionBound'
  BY <1>0, <1>u, <1>p, <1>o DEF AdmissionBound
<1> QED
  BY <1>1, <1>2, <1>3, <1>4, <1>5, <1>6, <1>7, <1>8

\* WriteBlocked keeps every part of IInv.
LEMMA WriteBlockedKeeps ==
  ASSUME IInv, RequestsFit, NEW f \in Fds, WriteBlocked(f)
  PROVE  IInv'
<1>. USE ServerAssumption DEF IInv
<1>u. /\ UNCHANGED <<backlog, hup, open, acceptEvent, m_workqueue, count, rcvq, m_sockfd, place>>
      /\ events' = [events EXCEPT ![f] = "none"] /\ events[f] = "out" /\ pc[Main] = "loop"
      /\ full' = [full EXCEPT ![f] = TRUE] /\ errno' = "EAGAIN"
  BY DEF WriteBlocked, TakeEvent, Stay
<1>0. \A g \in Fds : QueueHas(g)' <=> QueueHas(g)
  BY <1>u DEF QueueHas
<1>o. /\ f \in open /\ m_sockfd[f] = f /\ cur[Main] = NoFd /\ f # NoFd
      /\ ~QueueHas(f) /\ ~WorkersHave(f) /\ armed[f] = "off" /\ events'[f] = "none"
      /\ req[f] \in HttpReq
  BY <1>u DEF TypeOK, Threads, PlaceInv, OpenInv, OneHolder, KernelHas, ReactorHas, InInit
<1>p. armed' = [armed EXCEPT ![f] = "out"]
  BY <1>o DEF WriteBlocked, ModFd, Usable
<1>q. PICK left \in 1..req[f].iv : req' = [req EXCEPT ![f] = [req[f] EXCEPT !.iv = left]]
  BY DEF WriteBlocked, TypeOK
<1>r. left \in 0..2
  BY <1>o, <1>q, ReqFields
<1> USE <1>u DEF place, count
<1>1. TypeOK'
  <2>1. [req[f] EXCEPT !.iv = left] \in HttpReq
    BY <1>o, <1>r, ReqUpdates
  <2>2. req' \in [Fds -> HttpReq]
    BY <1>q, <2>1 DEF TypeOK
  <2> QED
    BY <1>p, <2>2 DEF TypeOK, count
<1>2. PlaceInv'
  BY <1>0, <1>p, <1>o DEF TypeOK, Threads, PlaceInv, MainPlaces, WorkerPlaces
<1>3. BatchInv'
  BY <1>0, <1>p, <1>o DEF TypeOK, Threads, PlaceInv, BatchInv, OneHolder, ReactorHas
<1>4. OpenInv'
  BY <1>0, <1>o, <1>p DEF TypeOK, OpenInv, InInit, WorkersHave, WorkerHas
<1>5. OneHolder'
  BY <1>0, <1>p, <1>o DEF TypeOK, Threads, PlaceInv, BatchInv, OpenInv, OneHolder, KernelHas, ReactorHas, InInit, WorkersHave, WorkerHas
<1>6. PhaseInv'
  <2> SUFFICES ASSUME NEW g \in Fds PROVE Phase(g)'
    BY DEF PhaseInv
  <2>1. CASE g # f
    <3>1. req'[g] = req[g] /\ armed'[g] = armed[g] /\ events'[g] = events[g]
      BY <1>p, <1>q, <2>1 DEF TypeOK
    <3>2. /\ Requesting(g)' => Requesting(g)
          /\ Waiting(g)' => Waiting(g)
          /\ Responding(g)' => Responding(g)
      BY <1>0, <3>1 DEF Requesting, Waiting, Responding, Parsing, Answering, InInit
    <3> QED
      BY <3>1, <3>2, PhaseStays
  <2>2. CASE g = f
    <3>1. ~Requesting(f)' /\ ~Waiting(f)'
      BY <1>o, <1>p, <1>0 DEF TypeOK, Requesting, Waiting, Parsing, WorkersHave, WorkerHas
    <3>2. Responding(f)
      BY DEF Responding
    <3>3. /\ req'[f].iv = left /\ left > 0 /\ left <= req[f].iv /\ req[f].iv \in 0..2
          /\ req'[f].mapped = req[f].mapped
          /\ req'[f].checked = req[f].checked /\ req'[f].read = req[f].read
      <4>1. req'[f] = [req[f] EXCEPT !.iv = left]
        BY <1>q DEF TypeOK
      <4>2. /\ [req[f] EXCEPT !.iv = left].iv = left
            /\ [req[f] EXCEPT !.iv = left].mapped = req[f].mapped
            /\ [req[f] EXCEPT !.iv = left].read = req[f].read
            /\ [req[f] EXCEPT !.iv = left].checked = req[f].checked
        BY <1>o, <1>r, ReqUpdates
      <4>3. left > 0 /\ left <= req[f].iv /\ req[f].iv \in 0..2
        BY <1>o, <1>q, ReqFields
      <4> QED
        BY <4>1, <4>2, <4>3
    <3> QED
      BY <2>2, <3>1, <3>2, <3>3 DEF PhaseInv, Phase
  <2> QED
    BY <2>1, <2>2
<1>7. CountInv'
  BY <1>0, <1>p, <1>o DEF TypeOK, Threads, PlaceInv, CountInv
<1>8. AdmissionBound'
  BY <1>0, <1>p, <1>o DEF AdmissionBound
<1> QED
  BY <1>1, <1>2, <1>3, <1>4, <1>5, <1>6, <1>7, <1>8

\* WriteFails keeps every part of IInv.
LEMMA WriteFailsKeeps ==
  ASSUME IInv, RequestsFit, NEW f \in Fds, WriteFails(f)
  PROVE  IInv'
<1>. USE ServerAssumption DEF IInv, WriteFails, TakeEvent, Goto, client, epoll, batch, conn, place, count, Usable
<1>0. \A g \in Fds : QueueHas(g)' <=> QueueHas(g)
  BY DEF QueueHas
<1>1. TypeOK'
  BY <1>0 DEF TypeOK, Threads, Places
<1>2. PlaceInv'
  BY <1>0 DEF TypeOK, Threads, PlaceInv, MainPlaces, WorkerPlaces
<1>3. BatchInv'
  BY <1>0 DEF TypeOK, Threads, PlaceInv, BatchInv, OneHolder, ReactorHas
<1>4. OpenInv'
  BY <1>0 DEF TypeOK, Threads, PlaceInv, BatchInv, OpenInv, OneHolder, KernelHas, ReactorHas, InInit, WorkersHave, WorkerHas
<1>5. OneHolder'
  BY <1>0 DEF TypeOK, Threads, PlaceInv, BatchInv, OpenInv, OneHolder, KernelHas, ReactorHas, InInit, WorkersHave, WorkerHas
<1>6. PhaseInv'
  BY <1>0 DEF TypeOK, Threads, PlaceInv, BatchInv, OpenInv, OneHolder, KernelHas, ReactorHas, InInit, WorkersHave, WorkerHas, PhaseInv, Phase, Waiting, Clean, Requesting, Responding, Parsing, Answering
<1>7. CountInv'
  BY <1>0 DEF TypeOK, Threads, PlaceInv, CountInv
<1>8. AdmissionBound'
  BY <1>0 DEF AdmissionBound
<1> QED
  BY <1>1, <1>2, <1>3, <1>4, <1>5, <1>6, <1>7, <1>8

\* Take keeps every part of IInv.
LEMMA TakeKeeps ==
  ASSUME IInv, RequestsFit, NEW w \in Workers, Take(w)
  PROVE  IInv'
<1>. USE ServerAssumption DEF IInv
<1> DEFINE f == Head(m_workqueue)
<1>o. /\ f \in Fds /\ QueueHas(f) /\ m_workqueue' \in Seq(Fds)
      /\ \A g \in Fds : QueueHas(g)' => QueueHas(g) /\ g # f
      /\ \A i, j \in 1..Len(m_workqueue') : m_workqueue'[i] = m_workqueue'[j] => i = j
  BY TailOfQueue DEF TypeOK, OneHolder, QueueHas, Take, Popped
<1>u. UNCHANGED <<client, epoll, batch, conn, count>>
  BY DEF Take
<1>p. /\ pc[w] = "idle" /\ pc'[w] = "parse" /\ cur'[w] = f /\ f # NoFd /\ w # Main
      /\ \A t \in Threads : t # w => pc'[t] = pc[t] /\ cur'[t] = cur[t]
      /\ pc' \in [Threads -> Places] /\ cur' \in [Threads -> Fds \cup {NoFd}]
  BY <1>o DEF TypeOK, Threads, Places, Take, Goto
<1> HIDE DEF f
<1> USE <1>u DEF client, epoll, batch, conn, count
<1>1. TypeOK'
  BY <1>o, <1>p DEF TypeOK
<1>2. PlaceInv'
  BY <1>p DEF Threads, PlaceInv, WorkerPlaces
<1>3. BatchInv'
  BY <1>p DEF Threads, BatchInv
<1>4. OpenInv'
  BY <1>o, <1>p DEF Threads, OpenInv, InInit, WorkersHave, WorkerHas
<1>5. OneHolder'
  <2>1. \A g \in Fds : WorkersHave(g)' => WorkersHave(g) \/ g = f
    BY <1>p DEF Threads, WorkersHave, WorkerHas
  <2>2. ~KernelHas(f) /\ ~ReactorHas(f) /\ ~WorkersHave(f)
    BY <1>o DEF OneHolder
  <2>3. \A g \in Fds : (KernelHas(g)' <=> KernelHas(g)) /\ (ReactorHas(g)' <=> ReactorHas(g))
    BY <1>p DEF Threads, KernelHas, ReactorHas, InInit
  <2>4. \A v \in Workers : v # w => cur'[v] # f
    BY <1>p, <2>2 DEF Threads, WorkersHave, WorkerHas
  <2>5. \A u, v \in Workers : cur'[u] = cur'[v] /\ cur'[u] # NoFd => u = v
    BY <1>p, <2>4 DEF Threads, OneHolder
  <2>6. \A g \in Fds : events'[g] # "none" => cur'[Main] # g
    BY <1>p DEF Threads, OneHolder
  <2> QED
    BY <1>o, <2>1, <2>2, <2>3, <2>5, <2>6 DEF OneHolder
<1>6. PhaseInv'
  <2> SUFFICES ASSUME NEW g \in Fds PROVE Phase(g)'
    BY DEF PhaseInv
  <2>1. /\ Requesting(g)' => Requesting(g)
        /\ Waiting(g)' => Waiting(g)
        /\ Responding(g)' => Responding(g)
    BY <1>o, <1>p DEF Threads, Requesting, Waiting, Responding, Parsing, Answering, InInit
  <2> QED
    BY <2>1, PhaseStays
<1>7. CountInv'
  BY <1>p DEF Threads, CountInv
<1>8. AdmissionBound'
  BY  DEF AdmissionBound
<1> QED
  BY <1>1, <1>2, <1>3, <1>4, <1>5, <1>6, <1>7, <1>8

\* ParseIncomplete keeps every part of IInv.
LEMMA ParseIncompleteKeeps ==
  ASSUME IInv, RequestsFit, NEW w \in Workers, ParseIncomplete(w)
  PROVE  IInv'
<1>. USE ServerAssumption DEF IInv, ParseIncomplete, Goto, BufferFull, client, epoll, batch, conn, place, count
<1>0. \A g \in Fds : QueueHas(g)' <=> QueueHas(g)
  BY DEF QueueHas
<1> DEFINE f == cur[w]
<1>o. /\ f \in Fds /\ f # NoFd /\ f \in open /\ m_sockfd[f] = f /\ w # Main /\ w \in Threads
      /\ armed[f] = "off" /\ events[f] = "none" /\ cur[Main] # f /\ ~QueueHas(f)
      /\ \A v \in Workers : cur[v] = f => v = w
  BY DEF TypeOK, Threads, PlaceInv, OpenInv, OneHolder, KernelHas, ReactorHas, InInit, WorkersHave, WorkerHas
<1>p. pc'[w] = "modin" /\ cur' = cur /\ \A t \in Threads : t # w => pc'[t] = pc[t]
  BY <1>o DEF TypeOK
<1>q. /\ req'[f] = [req[f] EXCEPT !.checked = req[f].read]
      /\ \A g \in Fds : g # f => req'[g] = req[g]
  BY <1>o DEF TypeOK
<1>1. TypeOK'
  <2>1. req[f] \in HttpReq
    BY <1>o DEF TypeOK
  <2>2. [req[f] EXCEPT !.checked = req[f].read] \in HttpReq
    BY <2>1, ReqFields, ReqUpdates
  <2>3. req' \in [Fds -> HttpReq]
    BY <1>o, <2>2 DEF TypeOK
  <2> QED
    BY <1>o, <2>3 DEF TypeOK, Places
<1>2. PlaceInv'
  BY <1>0 DEF TypeOK, Threads, PlaceInv, MainPlaces, WorkerPlaces
<1>3. BatchInv'
  BY <1>0 DEF TypeOK, Threads, PlaceInv, BatchInv, OneHolder, ReactorHas
<1>4. OpenInv'
  BY <1>0 DEF TypeOK, Threads, PlaceInv, BatchInv, OpenInv, OneHolder, KernelHas, ReactorHas, InInit, WorkersHave, WorkerHas
<1>5. OneHolder'
  BY <1>0 DEF TypeOK, Threads, PlaceInv, BatchInv, OpenInv, OneHolder, KernelHas, ReactorHas, InInit, WorkersHave, WorkerHas
<1>6. PhaseInv'
  <2> SUFFICES ASSUME NEW g \in Fds PROVE Phase(g)'
    BY DEF PhaseInv
  <2>1. CASE g # f
    <3>1. req'[g] = req[g]
      BY <1>o, <1>q, <2>1
    <3>2. /\ Requesting(g)' => Requesting(g)
          /\ Waiting(g)' => Waiting(g)
          /\ Responding(g)' => Responding(g)
      BY <1>0, <1>o, <1>p, <2>1 DEF Threads, Requesting, Waiting, Responding, Parsing, Answering, InInit
    <3> QED
      BY <3>1, <3>2, PhaseStays
  <2>2. CASE g = f
    <3>1. ~Responding(f)'
      BY <1>o, <1>p DEF Responding, Answering
    <3>2. Requesting(f)
      BY <1>o DEF Requesting, Parsing
    <3>3. req[f].read < ReadSize
      BY <1>o DEF TypeOK, HttpReq
    <3> QED
      BY <1>o, <1>q, <2>2, <3>1, <3>2, <3>3 DEF TypeOK, HttpReq, PhaseInv, Phase, Clean
  <2> QED
    BY <2>1, <2>2
<1>7. CountInv'
  BY <1>0 DEF TypeOK, Threads, PlaceInv, CountInv
<1>8. AdmissionBound'
  BY <1>0 DEF AdmissionBound
<1> QED
  BY <1>1, <1>2, <1>3, <1>4, <1>5, <1>6, <1>7, <1>8

\* ParseComplete keeps every part of IInv.
LEMMA ParseCompleteKeeps ==
  ASSUME IInv, RequestsFit, NEW w \in Workers, ParseComplete(w)
  PROVE  IInv'
<1>. USE ServerAssumption DEF IInv
<1>f. PICK f \in Fds : cur[w] = f
  BY DEF TypeOK, Threads, PlaceInv, ParseComplete
<1>o. /\ f # NoFd /\ f \in open /\ m_sockfd[f] = f /\ w # Main /\ w \in Threads
      /\ armed[f] = "off" /\ events[f] = "none" /\ cur[Main] # f /\ ~QueueHas(f)
      /\ \A v \in Workers : cur[v] = f => v = w
      /\ req[f] \in HttpReq
  BY <1>f DEF TypeOK, Threads, PlaceInv, OpenInv, OneHolder, KernelHas, ReactorHas, InInit, WorkersHave, WorkerHas, ParseComplete
<1>r. Clean(req[f]) /\ req[f].write < WriteSize
  BY <1>f, <1>o DEF PhaseInv, Phase, Requesting, Parsing, ParseComplete, Clean
<1>m. RoomInWrite(req[f])
  BY <1>r DEF RoomInWrite
<1>s. PICK next \in {"page", "file"}, keep \in BOOLEAN :
        /\ req' = [req EXCEPT ![f] = Parsed(req[f], next, keep)]
        /\ reg' = [reg EXCEPT ![w] = req[f].write]
        /\ Goto(w, next, f)
  BY <1>f, <1>m DEF ParseComplete
<1>u. UNCHANGED <<client, epoll, batch, m_sockfd, m_workqueue, m_user_count>>
  BY DEF ParseComplete
<1>p. pc' = [pc EXCEPT ![w] = next] /\ cur' = cur
  BY <1>f, <1>o, <1>s DEF TypeOK, Goto
<1>q. /\ Parsed(req[f], next, keep) \in HttpReq
      /\ \A g \in Fds : g # f => req'[g] = req[g]
      /\ req' \in [Fds -> HttpReq]
  BY <1>f, <1>o, <1>s, ParsedFields DEF TypeOK
<1>v. /\ reg' \in [Threads -> Int] /\ reg'[Main] = reg[Main]
      /\ pc' \in [Threads -> Places] /\ pc'[Main] = pc[Main]
  BY <1>o, <1>p, <1>s, ReqFields DEF TypeOK, Places, Threads
<1>0. \A g \in Fds : QueueHas(g)' <=> QueueHas(g)
  BY <1>u DEF QueueHas
<1> USE <1>u DEF client, epoll, batch
<1>1. TypeOK'
  BY <1>p, <1>q, <1>v DEF TypeOK
<1>2. PlaceInv'
  BY <1>f, <1>o, <1>p DEF TypeOK, Threads, PlaceInv, WorkerPlaces
<1>3. BatchInv'
  BY <1>o, <1>p DEF TypeOK, Threads, BatchInv
<1>4. OpenInv'
  BY <1>0, <1>o, <1>p DEF TypeOK, Threads, OpenInv, InInit, WorkersHave, WorkerHas
<1>5. OneHolder'
  <2>1. pc'[Main] = pc[Main]
    BY <1>o, <1>p DEF TypeOK, Threads
  <2> QED
    BY <1>0, <1>p, <2>1 DEF OneHolder, KernelHas, ReactorHas, InInit, WorkersHave, WorkerHas
<1>6. PhaseInv'
  <2> SUFFICES ASSUME NEW g \in Fds PROVE Phase(g)'
    BY DEF PhaseInv
  <2>0. pc'[Main] = pc[Main] /\ pc'[w] \in {"page", "file"} /\ \A v \in Workers : v # w => pc'[v] = pc[v]
    BY <1>o, <1>p DEF TypeOK, Threads
  <2>1. CASE g # f
    <3>1. cur[w] # g /\ req'[g] = req[g]
      BY <1>f, <1>q, <2>1
    <3>2. /\ Requesting(g)' => Requesting(g)
          /\ Waiting(g)' => Waiting(g)
          /\ Responding(g)' => Responding(g)
      BY <1>0, <1>p, <2>0, <3>1 DEF Requesting, Waiting, Responding, Parsing, Answering, InInit
    <3> QED
      BY <3>1, <3>2, PhaseStays
  <2>2. CASE g = f
    <3>1. ~Requesting(f)' /\ ~Waiting(f)' /\ ~Responding(f)'
      BY <1>0, <1>o, <1>p, <2>0 DEF Requesting, Waiting, Responding, Parsing, Answering
    <3> QED
      BY <2>2, <3>1 DEF Phase
  <2> QED
    BY <2>1, <2>2
<1>7. CountInv'
  BY <1>v DEF CountInv
<1>8. AdmissionBound'
  BY DEF AdmissionBound
<1> QED
  BY <1>1, <1>2, <1>3, <1>4, <1>5, <1>6, <1>7, <1>8

\* AddResponse keeps every part of IInv.
LEMMA AddResponseKeeps ==
  ASSUME IInv, RegType, BuildInv, NEW w \in Workers, AddResponse(w)
  PROVE  IInv'
<1>. USE ServerAssumption DEF IInv
<1>f. PICK f \in Fds : cur[w] = f
  BY DEF TypeOK, Threads, PlaceInv, AddResponse
<1>g. pc[w] \in {"page", "file"} /\ reg[w] \in Nat
  BY DEF AddResponse, PlaceInv, WorkerPlaces, RegType
<1>o. /\ f # NoFd /\ f \in open /\ m_sockfd[f] = f /\ w # Main /\ w \in Threads
      /\ armed[f] = "off" /\ events[f] = "none" /\ cur[Main] # f /\ ~QueueHas(f)
      /\ \A v \in Workers : cur[v] = f => v = w
      /\ req[f] \in HttpReq
  BY <1>f, <1>g DEF TypeOK, Threads, PlaceInv, OpenInv, OneHolder, KernelHas, ReactorHas, InInit, WorkersHave, WorkerHas
<1>s. PICK old \in {reg[w], req[f].write} : req' = [req EXCEPT ![f] = Responded(req[f], old, pc[w])]
  BY <1>f DEF AddResponse
<1>t. old \in Nat
  BY <1>g, <1>o, <1>s, ReqFields
<1>u. /\ UNCHANGED <<client, epoll, batch, m_sockfd, m_workqueue, m_user_count>>
      /\ reg' = [reg EXCEPT ![w] = 0]
  BY DEF AddResponse
<1>p. pc' = [pc EXCEPT ![w] = "modout"] /\ cur' = cur
  BY <1>f, <1>o DEF TypeOK, AddResponse, Goto
<1>q. /\ Responded(req[f], old, pc[w]) \in HttpReq
      /\ req'[f] = Responded(req[f], old, pc[w])
      /\ \A g \in Fds : g # f => req'[g] = req[g]
      /\ req' \in [Fds -> HttpReq]
  BY <1>f, <1>o, <1>s, <1>t, RespondedFields DEF TypeOK
<1>v. /\ reg' \in [Threads -> Int] /\ reg'[Main] = reg[Main]
      /\ pc' \in [Threads -> Places] /\ pc'[Main] = pc[Main]
  BY <1>o, <1>p, <1>u DEF TypeOK, Places, Threads
<1>0. \A g \in Fds : QueueHas(g)' <=> QueueHas(g)
  BY <1>u DEF QueueHas
<1> USE <1>u DEF client, epoll, batch
<1>1. TypeOK'
  BY <1>p, <1>q, <1>v DEF TypeOK
<1>2. PlaceInv'
  BY <1>f, <1>o, <1>p DEF TypeOK, Threads, PlaceInv, WorkerPlaces
<1>3. BatchInv'
  BY <1>o, <1>p DEF TypeOK, Threads, BatchInv
<1>4. OpenInv'
  BY <1>0, <1>o, <1>p DEF TypeOK, Threads, OpenInv, InInit, WorkersHave, WorkerHas
<1>5. OneHolder'
  <2>1. pc'[Main] = pc[Main]
    BY <1>o, <1>p DEF TypeOK, Threads
  <2> QED
    BY <1>0, <1>p, <2>1 DEF OneHolder, KernelHas, ReactorHas, InInit, WorkersHave, WorkerHas
<1>6. PhaseInv'
  <2> SUFFICES ASSUME NEW g \in Fds PROVE Phase(g)'
    BY DEF PhaseInv
  <2>0. pc'[Main] = pc[Main] /\ pc'[w] = "modout" /\ \A v \in Workers : v # w => pc'[v] = pc[v]
    BY <1>o, <1>p DEF TypeOK, Threads
  <2>1. CASE g # f
    <3>1. cur[w] # g /\ req'[g] = req[g]
      BY <1>f, <1>q, <2>1
    <3>2. /\ Requesting(g)' => Requesting(g)
          /\ Waiting(g)' => Waiting(g)
          /\ Responding(g)' => Responding(g)
      BY <1>0, <1>p, <2>0, <3>1 DEF Requesting, Waiting, Responding, Parsing, Answering, InInit
    <3> QED
      BY <3>1, <3>2, PhaseStays
  <2>2. CASE g = f
    <3>1. ~Requesting(f)' /\ ~Waiting(f)'
      BY <1>0, <1>o, <1>p, <2>0 DEF Requesting, Waiting, Parsing
    <3>2. /\ req'[f].iv = IF pc[w] = "page" THEN 1 ELSE 2
          /\ req'[f].checked = req[f].checked /\ req'[f].read = req[f].read
          /\ req'[f].mapped = req[f].mapped
      BY <1>o, <1>q, <1>t, RespondedFields
    <3>3. req[f].checked = req[f].read /\ (pc[w] = "file" => req[f].mapped)
      BY <1>f, <1>g DEF BuildInv
    <3> QED
      BY <1>g, <2>2, <3>1, <3>2, <3>3 DEF Phase
  <2> QED
    BY <2>1, <2>2
<1>7. CountInv'
  BY <1>v DEF CountInv
<1>8. AdmissionBound'
  BY DEF AdmissionBound
<1> QED
  BY <1>1, <1>2, <1>3, <1>4, <1>5, <1>6, <1>7, <1>8

\* ModIn keeps every part of IInv.
LEMMA ModInKeeps ==
  ASSUME IInv, RequestsFit, NEW w \in Workers, ModIn(w)
  PROVE  IInv'
<1>. USE ServerAssumption DEF IInv
<1>f. PICK f \in Fds : cur[w] = f
  BY DEF TypeOK, Threads, PlaceInv, ModIn
<1>o. /\ f # NoFd /\ f \in open /\ m_sockfd[f] = f /\ w # Main /\ w \in Threads
      /\ armed[f] = "off" /\ events[f] = "none" /\ cur[Main] # f /\ ~QueueHas(f)
      /\ \A v \in Workers : cur[v] = f => v = w
      /\ req[f] \in HttpReq
  BY <1>f DEF TypeOK, Threads, PlaceInv, OpenInv, OneHolder, KernelHas, ReactorHas, InInit, WorkersHave, WorkerHas, ModIn
<1>u. UNCHANGED <<client, open, batch, conn, m_workqueue, count>>
  BY DEF ModIn
<1>p. /\ pc[w] = "modin" /\ pc' = [pc EXCEPT ![w] = "idle"] /\ cur' = [cur EXCEPT ![w] = NoFd]
      /\ armed' = [armed EXCEPT ![f] = "in"]
  BY <1>f, <1>o DEF ModIn, Goto, ModFd, Usable
<1>0. \A g \in Fds : QueueHas(g)' <=> QueueHas(g)
  BY <1>u DEF QueueHas
<1> USE <1>u DEF client, batch, conn, count
<1>1. TypeOK'
  BY <1>0, <1>o, <1>p DEF TypeOK, Threads, Places
<1>2. PlaceInv'
  BY <1>0, <1>o, <1>p DEF TypeOK, Threads, PlaceInv, MainPlaces, WorkerPlaces
<1>3. BatchInv'
  BY <1>0, <1>o, <1>p DEF TypeOK, Threads, PlaceInv, BatchInv, OneHolder, ReactorHas
<1>4. OpenInv'
  BY <1>0, <1>o, <1>p DEF TypeOK, Threads, PlaceInv, BatchInv, OpenInv, OneHolder, KernelHas, ReactorHas, InInit, WorkersHave, WorkerHas
<1>5. OneHolder'
  BY <1>0, <1>o, <1>p DEF TypeOK, Threads, PlaceInv, BatchInv, OpenInv, OneHolder, KernelHas, ReactorHas, InInit, WorkersHave, WorkerHas
<1>6. PhaseInv'
  <2> SUFFICES ASSUME NEW g \in Fds PROVE Phase(g)'
    BY DEF PhaseInv
  <2>0. /\ pc'[Main] = pc[Main] /\ cur'[Main] = cur[Main]
        /\ pc'[w] = "idle" /\ cur'[w] = NoFd
        /\ \A v \in Workers : v # w => pc'[v] = pc[v] /\ cur'[v] = cur[v]
    BY <1>o, <1>p DEF TypeOK, Threads
  <2>1. CASE g # f
    <3>1. armed'[g] = armed[g]
      BY <1>p, <2>1 DEF TypeOK
    <3>2. /\ Requesting(g)' => Requesting(g)
          /\ Waiting(g)' => Waiting(g)
          /\ Responding(g)' => Responding(g)
      BY <1>0, <2>0, <3>1 DEF Requesting, Waiting, Responding, Parsing, Answering, InInit
    <3> QED
      BY <3>2, PhaseStays
  <2>2. CASE g = f
    <3>1. Waiting(f)
      BY <1>f, <1>o, <1>p DEF Waiting, Responding, Answering
    <3>2. armed'[f] = "in" /\ events'[f] = "none" /\ cur'[Main] # f
          /\ (\A v \in Workers : cur'[v] # f) /\ ~QueueHas(f)'
      BY <1>0, <1>o, <1>p, <2>0 DEF TypeOK
    <3>3. ~Responding(f)'
      BY <3>2 DEF Requesting, Waiting, Responding, Parsing, Answering
    <3> QED
      BY <2>2, <3>1, <3>3 DEF PhaseInv, Phase
  <2> QED
    BY <2>1, <2>2
<1>7. CountInv'
  BY <1>0, <1>o, <1>p DEF TypeOK, Threads, PlaceInv, CountInv
<1>8. AdmissionBound'
  BY <1>0, <1>o, <1>p DEF AdmissionBound
<1> QED
  BY <1>1, <1>2, <1>3, <1>4, <1>5, <1>6, <1>7, <1>8

\* ModOut keeps every part of IInv.
LEMMA ModOutKeeps ==
  ASSUME IInv, RequestsFit, NEW w \in Workers, ModOut(w)
  PROVE  IInv'
<1>. USE ServerAssumption DEF IInv
<1>f. PICK f \in Fds : cur[w] = f
  BY DEF TypeOK, Threads, PlaceInv, ModOut
<1>o. /\ f # NoFd /\ f \in open /\ m_sockfd[f] = f /\ w # Main /\ w \in Threads
      /\ armed[f] = "off" /\ events[f] = "none" /\ cur[Main] # f /\ ~QueueHas(f)
      /\ \A v \in Workers : cur[v] = f => v = w
      /\ req[f] \in HttpReq
  BY <1>f DEF TypeOK, Threads, PlaceInv, OpenInv, OneHolder, KernelHas, ReactorHas, InInit, WorkersHave, WorkerHas, ModOut
<1>u. UNCHANGED <<client, open, batch, conn, m_workqueue, count>>
  BY DEF ModOut
<1>p. /\ pc[w] = "modout" /\ pc' = [pc EXCEPT ![w] = "idle"] /\ cur' = [cur EXCEPT ![w] = NoFd]
      /\ armed' = [armed EXCEPT ![f] = "out"]
  BY <1>f, <1>o DEF ModOut, Goto, ModFd, Usable
<1>0. \A g \in Fds : QueueHas(g)' <=> QueueHas(g)
  BY <1>u DEF QueueHas
<1> USE <1>u DEF client, batch, conn, count
<1>1. TypeOK'
  BY <1>0, <1>o, <1>p DEF TypeOK, Threads, Places
<1>2. PlaceInv'
  BY <1>0, <1>o, <1>p DEF TypeOK, Threads, PlaceInv, MainPlaces, WorkerPlaces
<1>3. BatchInv'
  BY <1>0, <1>o, <1>p DEF TypeOK, Threads, PlaceInv, BatchInv, OneHolder, ReactorHas
<1>4. OpenInv'
  BY <1>0, <1>o, <1>p DEF TypeOK, Threads, PlaceInv, BatchInv, OpenInv, OneHolder, KernelHas, ReactorHas, InInit, WorkersHave, WorkerHas
<1>5. OneHolder'
  BY <1>0, <1>o, <1>p DEF TypeOK, Threads, PlaceInv, BatchInv, OpenInv, OneHolder, KernelHas, ReactorHas, InInit, WorkersHave, WorkerHas
<1>6. PhaseInv'
  <2> SUFFICES ASSUME NEW g \in Fds PROVE Phase(g)'
    BY DEF PhaseInv
  <2>0. /\ pc'[Main] = pc[Main] /\ cur'[Main] = cur[Main]
        /\ pc'[w] = "idle" /\ cur'[w] = NoFd
        /\ \A v \in Workers : v # w => pc'[v] = pc[v] /\ cur'[v] = cur[v]
    BY <1>o, <1>p DEF TypeOK, Threads
  <2>1. CASE g # f
    <3>1. armed'[g] = armed[g]
      BY <1>p, <2>1 DEF TypeOK
    <3>2. /\ Requesting(g)' => Requesting(g)
          /\ Waiting(g)' => Waiting(g)
          /\ Responding(g)' => Responding(g)
      BY <1>0, <2>0, <3>1 DEF Requesting, Waiting, Responding, Parsing, Answering, InInit
    <3> QED
      BY <3>2, PhaseStays
  <2>2. CASE g = f
    <3>1. Responding(f)
      BY <1>f, <1>o, <1>p DEF Waiting, Responding, Answering
    <3>2. armed'[f] = "out" /\ events'[f] = "none" /\ cur'[Main] # f
          /\ (\A v \in Workers : cur'[v] # f) /\ ~QueueHas(f)'
      BY <1>0, <1>o, <1>p, <2>0 DEF TypeOK
    <3>3. ~Requesting(f)' /\ ~Waiting(f)'
      BY <3>2 DEF Requesting, Waiting, Responding, Parsing, Answering
    <3> QED
      BY <2>2, <3>1, <3>3 DEF PhaseInv, Phase
  <2> QED
    BY <2>1, <2>2
<1>7. CountInv'
  BY <1>0, <1>o, <1>p DEF TypeOK, Threads, PlaceInv, CountInv
<1>8. AdmissionBound'
  BY <1>0, <1>o, <1>p DEF AdmissionBound
<1> QED
  BY <1>1, <1>2, <1>3, <1>4, <1>5, <1>6, <1>7, <1>8

\* CloseRemove keeps every part of IInv.
LEMMA CloseRemoveKeeps ==
  ASSUME IInv, RequestsFit, CloseRemove(Main)
  PROVE  IInv'
<1>. USE ServerAssumption DEF IInv, CloseRemove, RemoveFd, AfterClose, Goto, client, epoll, batch, conn, place, count
<1>0. \A g \in Fds : QueueHas(g)' <=> QueueHas(g)
  BY DEF QueueHas
<1> DEFINE f == cur[Main]
<1>o. /\ f \in Fds /\ f # NoFd /\ f \in open /\ m_sockfd[f] = f /\ Main \in Threads
      /\ events[f] = "none" /\ ~QueueHas(f) /\ ~WorkersHave(f)
  BY DEF TypeOK, Threads, PlaceInv, OpenInv, OneHolder, ReactorHas
<1>p. /\ open' = open \ {f} /\ armed' = [armed EXCEPT ![f] = "off"]
      /\ pc' = [pc EXCEPT ![Main] = "forget"] /\ cur' = cur
  BY <1>o, ServerAssumption DEF TypeOK
<1>1. TypeOK'
  <2>1. /\ rcvq' = [rcvq EXCEPT ![f] = 0] /\ hup' = [hup EXCEPT ![f] = FALSE]
        /\ full' = [full EXCEPT ![f] = FALSE]
    BY <1>o, ServerAssumption
  <2>2. 0 \in 0..MaxRcv
    OBVIOUS
  <2>3. /\ rcvq' \in [Fds -> 0..MaxRcv] /\ hup' \in [Fds -> BOOLEAN]
        /\ full' \in [Fds -> BOOLEAN]
    BY <2>1, <2>2 DEF TypeOK
  <2>4. /\ pc' \in [Threads -> Places] /\ armed' \in [Fds -> {"off", "in", "out"}]
        /\ open' \in SUBSET Fds
    BY <1>p DEF TypeOK, Places
  <2>5. UNCHANGED <<backlog, batch, conn, m_workqueue, count, cur>>
    BY <1>p
  <2> QED
    BY <2>3, <2>4, <2>5 DEF TypeOK
<1>2. PlaceInv'
  BY <1>0, <1>o, <1>p DEF TypeOK, Threads, PlaceInv, MainPlaces, WorkerPlaces
<1>3. BatchInv'
  BY <1>0, <1>o, <1>p DEF TypeOK, Threads, PlaceInv, BatchInv, OneHolder, ReactorHas
<1>4. OpenInv'
  BY <1>0, <1>o, <1>p DEF TypeOK, Threads, PlaceInv, BatchInv, OpenInv, OneHolder, KernelHas, ReactorHas, InInit, WorkersHave, WorkerHas
<1>5. OneHolder'
  BY <1>0, <1>o, <1>p DEF TypeOK, Threads, PlaceInv, BatchInv, OpenInv, OneHolder, KernelHas, ReactorHas, InInit, WorkersHave, WorkerHas
<1>6. PhaseInv'
  <2> SUFFICES ASSUME NEW g \in Fds PROVE Phase(g)'
    BY DEF PhaseInv
  <2>1. /\ Requesting(g)' => Requesting(g)
        /\ Waiting(g)' => Waiting(g)
        /\ Responding(g)' => Responding(g)
    BY <1>0, <1>o, <1>p DEF TypeOK, Threads, Requesting, Waiting, Responding, Parsing, Answering, InInit
  <2> QED
    BY <2>1, PhaseStays
<1>7. CountInv'
  <2>1. Cardinality(open') = Cardinality(open) - 1 /\ Cardinality(open) \in Nat
    BY <1>o, <1>p, OpenIsFinite, FS_RemoveElement
  <2>2. pc[Main] = "close" /\ pc'[Main] = "forget"
    BY <1>o, <1>p DEF TypeOK
  <2> QED
    BY <2>1, <2>2 DEF CountInv, TypeOK
<1>8. AdmissionBound'
  <2>1. Cardinality(open') = Cardinality(open) - 1 /\ Cardinality(open) \in Nat
    BY <1>o, <1>p, OpenIsFinite, FS_RemoveElement
  <2> QED
    BY <2>1 DEF AdmissionBound
<1> QED
  BY <1>1, <1>2, <1>3, <1>4, <1>5, <1>6, <1>7, <1>8

\* CloseForget keeps every part of IInv.
LEMMA CloseForgetKeeps ==
  ASSUME IInv, RequestsFit, CloseForget(Main)
  PROVE  IInv'
<1>. USE ServerAssumption DEF IInv, CloseForget, Goto, client, epoll, batch, conn, place, count
<1>0. \A g \in Fds : QueueHas(g)' <=> QueueHas(g)
  BY DEF QueueHas
<1>1. TypeOK'
  BY <1>0 DEF TypeOK, Threads, Places
<1>2. PlaceInv'
  BY <1>0 DEF TypeOK, Threads, PlaceInv, MainPlaces, WorkerPlaces
<1>3. BatchInv'
  BY <1>0 DEF TypeOK, Threads, PlaceInv, BatchInv, OneHolder, ReactorHas
<1>4. OpenInv'
  BY <1>0 DEF TypeOK, Threads, PlaceInv, BatchInv, OpenInv, OneHolder, KernelHas, ReactorHas, InInit, WorkersHave, WorkerHas
<1>5. OneHolder'
  BY <1>0 DEF TypeOK, Threads, PlaceInv, BatchInv, OpenInv, OneHolder, KernelHas, ReactorHas, InInit, WorkersHave, WorkerHas
<1>6. PhaseInv'
  BY <1>0 DEF TypeOK, Threads, PlaceInv, BatchInv, OpenInv, OneHolder, KernelHas, ReactorHas, InInit, WorkersHave, WorkerHas, PhaseInv, Phase, Waiting, Clean, Requesting, Responding, Parsing, Answering
<1>7. CountInv'
  BY <1>0 DEF TypeOK, Threads, PlaceInv, CountInv
<1>8. AdmissionBound'
  BY <1>0 DEF AdmissionBound
<1> QED
  BY <1>1, <1>2, <1>3, <1>4, <1>5, <1>6, <1>7, <1>8

\* CloseCount keeps every part of IInv.
LEMMA CloseCountKeeps ==
  ASSUME IInv, RequestsFit, CloseCount(Main)
  PROVE  IInv'
<1>. USE ServerAssumption DEF IInv, CloseCount, Uncounted, AfterClose, Goto, client, epoll, batch, conn, place, count
<1>0. \A g \in Fds : QueueHas(g)' <=> QueueHas(g)
  BY DEF QueueHas
<1>1. TypeOK'
  BY <1>0 DEF TypeOK, Threads, Places
<1>2. PlaceInv'
  BY <1>0 DEF TypeOK, Threads, PlaceInv, MainPlaces, WorkerPlaces
<1>3. BatchInv'
  BY <1>0 DEF TypeOK, Threads, PlaceInv, BatchInv, OneHolder, ReactorHas
<1>4. OpenInv'
  BY <1>0 DEF TypeOK, Threads, PlaceInv, BatchInv, OpenInv, OneHolder, KernelHas, ReactorHas, InInit, WorkersHave, WorkerHas
<1>5. OneHolder'
  BY <1>0 DEF TypeOK, Threads, PlaceInv, BatchInv, OpenInv, OneHolder, KernelHas, ReactorHas, InInit, WorkersHave, WorkerHas
<1>6. PhaseInv'
  <2> SUFFICES ASSUME NEW g \in Fds PROVE Phase(g)'
    BY DEF PhaseInv
  <2>0. /\ pc'[Main] = "loop" /\ cur'[Main] = NoFd
        /\ \A v \in Workers : pc'[v] = pc[v] /\ cur'[v] = cur[v]
    BY DEF TypeOK, Threads
  <2>1. armed[g] = "in" /\ ~InInit(g)' => ~InInit(g)
    BY DEF InInit
  <2>2. /\ Requesting(g)' => Requesting(g)
        /\ Waiting(g)' => Waiting(g)
        /\ Responding(g)' => Responding(g)
    BY <1>0, <2>0, <2>1 DEF Requesting, Waiting, Responding, Parsing, Answering
  <2> QED
    BY <2>2, PhaseStays
<1>7. CountInv'
  <2>1. Cardinality(open) \in Nat
    BY OpenIsFinite
  <2>2. pc'[Main] = "loop" /\ m_user_count' = m_user_count - 1
    BY DEF TypeOK, Threads, CountInv
  <2> QED
    BY <2>1, <2>2 DEF CountInv
<1>8. AdmissionBound'
  BY <1>0 DEF AdmissionBound
<1> QED
  BY <1>1, <1>2, <1>3, <1>4, <1>5, <1>6, <1>7, <1>8

\* A connection that epoll reported readable has data and room for it.
LEMMA NeverBlocked ==
  ASSUME IInv, NEW f \in Fds
  PROVE  ~ReadBlocked(f)
<1> SUFFICES ASSUME ReadBlocked(f) PROVE FALSE
  OBVIOUS
<1>1. events[f] = "in" /\ f \in Fds
  BY DEF ReadBlocked, TakeEvent
<1>2. rcvq[f] > 0 /\ rcvq[f] \in Nat
  BY <1>1 DEF IInv, TypeOK, BatchInv
<1>3. req[f].read < ReadSize /\ req[f].read \in Nat
  BY <1>1, ReqFields, ServerAssumption DEF IInv, TypeOK, PhaseInv, Phase, Waiting
<1> QED
  BY <1>2, <1>3, ServerAssumption DEF ReadBlocked, BufferFull

\* Only the reactor closes connections.
LEMMA WorkersNeverClose ==
  ASSUME IInv, NEW t \in Threads, CloseConn(t)
  PROVE  t = Main
  BY DEF IInv, PlaceInv, WorkerPlaces, Threads, CloseConn, CloseRemove, CloseForget, CloseCount

\* The server starts in IInv.
LEMMA InitIInv == Init => IInv
<1> SUFFICES ASSUME Init PROVE IInv
  OBVIOUS
<1>. USE ServerAssumption DEF Init
<1>1. TypeOK
  <2>1. /\ NewReq \in HttpReq
        /\ -1 \in Int
        /\ 0 \in 0..MaxRcv
        /\ 0 \in 0..MaxBacklog
    BY NewReqType
  <2>2. m_workqueue \in Seq(Fds)
    BY EmptySeq
  <2>3. req \in [Fds -> HttpReq]
    BY <2>1
  <2>4. pc \in [Threads -> Places]
    BY DEF Places
  <2>5. rcvq \in [Fds -> 0..MaxRcv]
    BY <2>1
  <2>6. /\ backlog \in 0..MaxBacklog /\ open \in SUBSET Fds /\ acceptEvent \in BOOLEAN
        /\ errno \in {"EAGAIN", "other"} /\ m_user_count \in Int
    BY <2>1
  <2>7. /\ armed \in [Fds -> {"off", "in", "out"}]
        /\ events \in [Fds -> {"none", "in", "out", "hup"}]
        /\ hup \in [Fds -> BOOLEAN] /\ full \in [Fds -> BOOLEAN]
        /\ m_sockfd \in [Fds -> Fds \cup {NoFd, StdinFd}]
        /\ cur \in [Threads -> Fds \cup {NoFd}] /\ reg \in [Threads -> Int]
    OBVIOUS
  <2> QED
    BY <2>2, <2>3, <2>4, <2>5, <2>6, <2>7, Zenon DEF TypeOK
<1>2. PlaceInv
  BY DEF PlaceInv, MainPlaces, WorkerPlaces, Threads
<1>3. \A f \in Fds : ~QueueHas(f) /\ ~WorkersHave(f) /\ cur[Main] # f /\ armed[f] = "off"
                     /\ events[f] = "none"
  BY EmptySeq DEF QueueHas, WorkersHave, WorkerHas, Threads
<1>4. BatchInv /\ OpenInv
  BY <1>3 DEF BatchInv, OpenInv, InInit, Threads
<1>5. OneHolder
  BY <1>3, EmptySeq DEF OneHolder, KernelHas, ReactorHas, Threads
<1>6. PhaseInv
  BY <1>3 DEF PhaseInv, Phase, Requesting, Waiting, Responding, Parsing, Answering,
     WorkersHave, WorkerHas, Threads
<1>7. CountInv /\ AdmissionBound
  BY FS_EmptySet DEF CountInv, AdmissionBound, Threads
<1> QED
  BY <1>1, <1>2, <1>4, <1>5, <1>6, <1>7 DEF IInv

\* Stutter keeps every part of IInv.
LEMMA StutterKeeps ==
  ASSUME IInv, UNCHANGED vars
  PROVE  IInv'
<1>. USE DEF IInv, vars, client, epoll, batch, conn, place, count
<1>1. TypeOK' /\ PlaceInv' /\ BatchInv' /\ CountInv' /\ AdmissionBound'
  BY DEF TypeOK, PlaceInv, BatchInv, CountInv, AdmissionBound
<1>2. OpenInv' /\ OneHolder'
  BY DEF OpenInv, OneHolder, KernelHas, ReactorHas, InInit, QueueHas, WorkersHave, WorkerHas
<1>3. PhaseInv'
  BY DEF PhaseInv, Phase, Clean, Waiting, Requesting, Responding, Parsing, Answering, InInit, QueueHas
<1> QED
  BY <1>1, <1>2, <1>3

\* Every step keeps IInv.
LEMMA NextIInv == RequestsFit /\ RegType /\ IInv /\ BuildInv /\ [Next]_vars => IInv'
<1> SUFFICES ASSUME RequestsFit, RegType, IInv, BuildInv, [Next]_vars PROVE IInv'
  OBVIOUS
<1>1. CASE Clients
  BY <1>1, ConnectKeeps, SendKeeps, DrainKeeps, HangUpKeeps DEF Clients
<1>2. CASE Reactor
  BY <1>2, EpollWaitKeeps, BatchDoneKeeps, AcceptFailsKeeps, AcceptBusyKeeps, AcceptConnKeeps,
     InitConnKeeps, HandleHupKeeps, ReadDataKeeps, NeverBlocked, ReadFailsKeeps, AppendTaskKeeps,
     WriteAllKeeps, WriteBlockedKeeps, WriteFailsKeeps DEF Reactor
<1>3. ASSUME NEW w \in Workers, Take(w) \/ Process(w)
      PROVE  IInv'
  BY <1>3, TakeKeeps, ParseIncompleteKeeps, ParseCompleteKeeps, AddResponseKeeps, ModInKeeps,
     ModOutKeeps DEF Process
<1>4. ASSUME NEW t \in Threads, CloseConn(t)
      PROVE  IInv'
  BY <1>4, WorkersNeverClose, CloseRemoveKeeps, CloseForgetKeeps, CloseCountKeeps DEF CloseConn
<1> QED
  BY <1>1, <1>2, <1>3, <1>4, StutterKeeps DEF Next

-----------------------------------------------------------------------------
(* What is known of a worker in add_response().                                *)

\* The clients and the reactor leave the workers where they are.
LEMMA OthersStay ==
  ASSUME TypeOK, Clients \/ Reactor \/ CloseConn(Main), NEW w \in Workers
  PROVE  pc'[w] = pc[w] /\ cur'[w] = cur[w] /\ reg'[w] = reg[w]
<1>. USE ServerAssumption DEF TypeOK, Threads, Goto, place, count
<1>1. CASE Clients
  BY <1>1 DEF Clients, Connect, Send, Drain, HangUp, ClientStep
<1>2. CASE CloseConn(Main)
  BY <1>2 DEF CloseConn, CloseRemove, CloseForget, CloseCount, AfterClose
<1>3. CASE EpollWait \/ BatchDone \/ AcceptFails \/ AcceptBusy \/ InitConn \/ AppendTask
  BY <1>3 DEF EpollWait, BatchDone, AcceptFails, AcceptBusy, InitConn, AppendTask
<1>4. ASSUME NEW f \in Fds, AcceptConn(f) \/ HandleHup(f) \/ ReadData(f) \/ ReadBlocked(f) \/ ReadFails(f)
      PROVE  pc'[w] = pc[w] /\ cur'[w] = cur[w] /\ reg'[w] = reg[w]
  BY <1>4 DEF AcceptConn, HandleHup, ReadData, ReadBlocked, ReadFails, TakeEvent
<1>5. ASSUME NEW f \in Fds, WriteAll(f) \/ WriteBlocked(f) \/ WriteFails(f)
      PROVE  pc'[w] = pc[w] /\ cur'[w] = cur[w] /\ reg'[w] = reg[w]
  BY <1>5 DEF WriteAll, WriteBlocked, WriteFails, TakeEvent, Stay
<1> QED
  BY <1>1, <1>2, <1>3, <1>4, <1>5 DEF Reactor

\* The reactor does not touch the object of a connection that a worker has.
LEMMA ObjectStays ==
  ASSUME IInv, Clients \/ Reactor \/ CloseConn(Main), NEW w \in Workers, cur[w] # NoFd
  PROVE  req'[cur[w]] = req[cur[w]]
<1>. USE ServerAssumption
<1>1. PICK g \in Fds : g = cur[w]
  BY DEF IInv, TypeOK, Threads
<1>2. events[g] = "none" /\ cur[Main] # g /\ req \in [Fds -> HttpReq]
  BY <1>1 DEF IInv, TypeOK, OneHolder, ReactorHas, WorkersHave, WorkerHas
<1>3. CASE Clients
  BY <1>3 DEF Clients, Connect, Send, Drain, HangUp, ClientStep, conn
<1>4. CASE CloseConn(Main)
  BY <1>4 DEF CloseConn, CloseRemove, CloseForget, CloseCount, conn
<1>5. CASE EpollWait \/ BatchDone \/ AcceptFails \/ AcceptBusy \/ AppendTask
  BY <1>5 DEF EpollWait, BatchDone, AcceptFails, AcceptBusy, AppendTask, conn
<1>6. CASE InitConn
  BY <1>1, <1>2, <1>6 DEF InitConn, HttpReset
<1>7. ASSUME NEW f \in Fds, AcceptConn(f) \/ HandleHup(f) \/ ReadBlocked(f) \/ ReadFails(f) \/ WriteFails(f)
      PROVE  req'[cur[w]] = req[cur[w]]
  BY <1>7 DEF AcceptConn, HandleHup, ReadBlocked, ReadFails, WriteFails, conn
<1>8. ASSUME NEW f \in Fds, ReadData(f) \/ WriteAll(f) \/ WriteBlocked(f)
      PROVE  req'[cur[w]] = req[cur[w]]
  <2>1. f # g
    BY <1>2, <1>8 DEF ReadData, WriteAll, WriteBlocked, TakeEvent
  <2>2. CASE ReadData(f)
    BY <1>1, <1>2, <2>1, <2>2 DEF ReadData
  <2>3. CASE WriteAll(f)
    BY <1>1, <1>2, <2>1, <2>3 DEF WriteAll, HttpReset
  <2>4. CASE WriteBlocked(f)
    <3>1. PICK left \in 1..req[f].iv : req' = [req EXCEPT ![f].iv = left]
      BY <2>4 DEF WriteBlocked
    <3> QED
      BY <1>1, <1>2, <2>1, <3>1
  <2> QED
    BY <1>8, <2>2, <2>3, <2>4
<1> QED
  BY <1>3, <1>4, <1>5, <1>6, <1>7, <1>8 DEF Reactor

\* A step of worker w leaves the others where they are, and their objects.
LEMMA WorkersApart ==
  ASSUME IInv, NEW w \in Workers, Take(w) \/ Process(w), NEW v \in Workers, v # w,
         cur[v] # NoFd
  PROVE  pc'[v] = pc[v] /\ cur'[v] = cur[v] /\ req'[cur[v]] = req[cur[v]]
<1>. USE ServerAssumption
<1>1. PICK g \in Fds : g = cur[v]
  BY DEF IInv, TypeOK, Threads
<1>2. /\ cur[w] # g /\ v \in Threads /\ req \in [Fds -> HttpReq]
      /\ pc \in [Threads -> Places] /\ cur \in [Threads -> Fds \cup {NoFd}]
  BY <1>1 DEF IInv, TypeOK, OneHolder, Threads
<1>3. CASE Take(w) \/ ModIn(w) \/ ModOut(w)
  BY <1>2, <1>3 DEF Take, ModIn, ModOut, Goto, conn
<1>4. CASE ParseIncomplete(w)
  BY <1>1, <1>2, <1>4 DEF ParseIncomplete, Goto
<1>5. CASE ParseComplete(w)
  <2>1. PICK q, to : req' = [req EXCEPT ![cur[w]] = q] /\ Goto(w, to, cur[w])
    BY <1>5 DEF ParseComplete
  <2> QED
    BY <1>1, <1>2, <2>1 DEF Goto
<1>6. CASE AddResponse(w)
  <2>1. PICK q : req' = [req EXCEPT ![cur[w]] = q] /\ Goto(w, "modout", cur[w])
    BY <1>6 DEF AddResponse
  <2> QED
    BY <1>1, <1>2, <2>1 DEF Goto
<1> QED
  BY <1>3, <1>4, <1>5, <1>6 DEF Process

\* Every step keeps BuildInv.
LEMMA NextBuild == RequestsFit /\ IInv /\ BuildInv /\ [Next]_vars => BuildInv'
<1> SUFFICES ASSUME RequestsFit, IInv, BuildInv, [Next]_vars, NEW v \in Workers, pc'[v] \in {"page", "file"}
    PROVE (req[cur[v]].checked = req[cur[v]].read /\ (pc[v] = "file" => req[cur[v]].mapped))'
  BY DEF BuildInv
<1>p. pc[v] \in {"page", "file"} => cur[v] # NoFd
  BY DEF IInv, PlaceInv
<1>1. CASE Clients \/ Reactor \/ CloseConn(Main)
  <2>1. pc'[v] = pc[v] /\ cur'[v] = cur[v]
    BY <1>1, OthersStay DEF IInv
  <2>2. req'[cur[v]] = req[cur[v]]
    BY <1>1, <1>p, <2>1, ObjectStays
  <2> QED
    BY <2>1, <2>2 DEF BuildInv
<1>2. ASSUME NEW w \in Workers, Take(w) \/ Process(w)
      PROVE  (req[cur[v]].checked = req[cur[v]].read /\ (pc[v] = "file" => req[cur[v]].mapped))'
  <2>1. CASE v # w
    <3>1. pc'[v] = pc[v]
      BY <1>2, <2>1, ServerAssumption DEF IInv, TypeOK, Threads, Process, Take, ParseIncomplete, ParseComplete,
         AddResponse, ModIn, ModOut, Goto
    <3>2. cur'[v] = cur[v] /\ req'[cur[v]] = req[cur[v]]
      BY <1>p, <1>2, <2>1, <3>1, WorkersApart
    <3> QED
      BY <3>1, <3>2 DEF BuildInv
  <2>2. CASE v = w
    <3>1. pc \in [Threads -> Places] /\ cur \in [Threads -> Fds \cup {NoFd}] /\ w \in Threads
      BY DEF IInv, TypeOK, Threads
    <3>2. ParseComplete(w)
      <4>1. CASE Take(w) \/ ParseIncomplete(w) \/ ModIn(w) \/ ModOut(w)
        BY <2>2, <3>1, <4>1 DEF Take, ParseIncomplete, ModIn, ModOut, Goto
      <4>2. CASE AddResponse(w)
        BY <2>2, <3>1, <4>2 DEF AddResponse, Goto
      <4> QED
        BY <1>2, <4>1, <4>2 DEF Process
    <3>3. PICK next \in {"page", "file", "close", "cut"}, keep \in BOOLEAN :
            /\ req' = [req EXCEPT ![cur[w]] = Parsed(req[cur[w]], next, keep)]
            /\ Goto(w, next, cur[w])
      BY <3>2 DEF ParseComplete
    <3>4. cur[w] \in Fds /\ cur[w] # NoFd
      BY <3>1, <3>2 DEF ParseComplete, IInv, PlaceInv
    <3>5. req'[cur[w]] = Parsed(req[cur[w]], next, keep) /\ req[cur[w]] \in HttpReq
      BY <3>3, <3>4 DEF IInv, TypeOK
    <3>6. pc'[w] = next /\ cur'[w] = cur[w]
      BY <3>1, <3>3 DEF Goto
    <3>7. /\ Parsed(req[cur[w]], next, keep).checked = Parsed(req[cur[w]], next, keep).read
          /\ next = "file" => Parsed(req[cur[w]], next, keep).mapped
      BY <3>5, ParsedFields
    <3> QED
      BY <2>2, <3>5, <3>6, <3>7
  <2> QED
    BY <2>1, <2>2
<1>3. CASE UNCHANGED vars
  BY <1>3 DEF vars, place, conn, BuildInv
<1>4. \A t \in Threads : CloseConn(t) => t = Main
  BY WorkersNeverClose
<1>5. Next \/ UNCHANGED vars
  OBVIOUS
<1> QED
  BY <1>1, <1>2, <1>3, <1>4, <1>5 DEF Next

-----------------------------------------------------------------------------
(* The types, whatever the clients send. *)

\* What they need beside themselves: an event of listenfd stands for a connection, and
\* main() appends a task for a connection.
TInv == /\ TypeOK
        /\ acceptEvent => backlog > 0
        /\ pc[Main] = "append" => cur[Main] \in Fds

\* Where threads are, after a step to a place that is not that of append().
PlaceType == /\ pc \in [Threads -> Places] /\ cur \in [Threads -> Fds \cup {NoFd}]
             /\ pc[Main] = "append" => cur[Main] \in Fds

LEMMA GotoType ==
  ASSUME TInv, NEW t \in Threads, NEW to \in Places, to # "append",
         NEW fd \in Fds \cup {NoFd}, Goto(t, to, fd)
  PROVE  PlaceType'
<1>1. pc' = [pc EXCEPT ![t] = to] /\ cur' = [cur EXCEPT ![t] = fd] /\ Main \in Threads
  BY DEF Goto, Threads
<1>2. pc' \in [Threads -> Places] /\ cur' \in [Threads -> Fds \cup {NoFd}]
  BY <1>1 DEF TInv, TypeOK
<1>3. pc'[Main] = "append" => t # Main
  BY <1>1 DEF TInv, TypeOK
<1> QED
  BY <1>1, <1>2, <1>3 DEF TInv, TypeOK, PlaceType

\* A step of a client.
LEMMA ClientsType == ASSUME TInv, Clients PROVE TInv'
<1>. USE ServerAssumption
         DEF TInv, TypeOK, ClientStep, epoll, batch, conn, place, count
<1>1. CASE Connect
  BY <1>1 DEF Connect
<1>2. ASSUME NEW f \in Fds, Send(f) \/ Drain(f) \/ HangUp(f) PROVE TInv'
  <2>1. CASE Send(f)
    BY <2>1 DEF Send
  <2>2. CASE Drain(f)
    BY <2>2 DEF Drain
  <2>3. CASE HangUp(f)
    BY <2>3 DEF HangUp
  <2> QED
    BY <1>2, <2>1, <2>2, <2>3
<1> QED
  BY <1>1, <1>2 DEF Clients

\* The reactor's steps that leave the objects alone.
LEMMA LoopType ==
  ASSUME TInv, EpollWait \/ BatchDone \/ AcceptFails \/ AcceptBusy \/ AppendTask
  PROVE  TInv'
<1>. USE ServerAssumption DEF TInv, TypeOK, Goto, Threads, Places, client, epoll, batch, conn,
                              place, count
<1>1. CASE EpollWait
  <2>1. /\ \A f \in Fds : Reported(f) \in {"none", "in", "out", "hup"}
        /\ Disarmed \in [Fds -> {"off", "in", "out"}]
    BY DEF Reported, Disarmed
  <2> QED
    BY <1>1, <2>1 DEF EpollWait
<1>2. CASE BatchDone
  BY <1>2 DEF BatchDone
<1>3. CASE AcceptFails
  BY <1>3 DEF AcceptFails, TakeAccept
<1>4. CASE AcceptBusy
  <2>1. backlog - 1 \in 0..MaxBacklog /\ backlog' = backlog - 1 /\ acceptEvent' = FALSE
    BY <1>4 DEF AcceptBusy, TakeAccept
  <2> QED
    BY <1>4, <2>1 DEF AcceptBusy, TakeAccept
<1>5. CASE AppendTask
  <2>1. Append(m_workqueue, cur[Main]) \in Seq(Fds)
    BY <1>5 DEF AppendTask
  <2> QED
    BY <1>5, <2>1 DEF AppendTask
<1> QED
  BY <1>1, <1>2, <1>3, <1>4, <1>5

\* The types of the parts that modfd() and http_reset() change.
LEMMA ModType ==
  ASSUME TypeOK, NEW f, NEW ev \in {"in", "out"}, ModFd(f, ev)
  PROVE  armed' \in [Fds -> {"off", "in", "out"}]
  BY DEF TypeOK, ModFd

LEMMA ObjectType ==
  ASSUME TypeOK, NEW f, NEW q, f \in Fds => q \in HttpReq
  PROVE  [req EXCEPT ![f] = q] \in [Fds -> HttpReq]
  BY DEF TypeOK

\* accept() and init().
LEMMA InitType == ASSUME TInv, InitConn \/ \E f \in Fds : AcceptConn(f) PROVE TInv'
<1>. USE ServerAssumption DEF TInv, TypeOK, Goto, Threads, Places, client, epoll, batch, conn,
                              place, count
<1>1. CASE InitConn
  <2>1. req' \in [Fds -> HttpReq]
    BY <1>1, NewReqType, ObjectType DEF InitConn, HttpReset
  <2> QED
    BY <1>1, <2>1 DEF InitConn
<1>2. ASSUME NEW f \in Fds, AcceptConn(f) PROVE TInv'
  <2>1. backlog - 1 \in 0..MaxBacklog /\ backlog' = backlog - 1 /\ acceptEvent' = FALSE
    BY <1>2 DEF AcceptConn, TakeAccept
  <2>2. PlaceType'
    BY <1>2, GotoType DEF AcceptConn
  <2>3. /\ open' \in SUBSET Fds /\ armed' \in [Fds -> {"off", "in", "out"}]
        /\ m_sockfd' \in [Fds -> Fds \cup {NoFd, StdinFd}]
    BY <1>2 DEF AcceptConn, AddFd
  <2>4. m_user_count' \in Int /\ reg' \in [Threads -> Int]
    BY <1>2 DEF AcceptConn
  <2>5. UNCHANGED <<rcvq, hup, full, events, errno, req, m_workqueue>>
    BY <1>2 DEF AcceptConn, TakeAccept
  <2> QED
    BY <2>1, <2>2, <2>3, <2>4, <2>5 DEF PlaceType
<1> QED
  BY <1>1, <1>2

\* read(): recv() is given the room that is left.
LEMMA ReadType ==
  ASSUME TInv, NEW f \in Fds, HandleHup(f) \/ ReadData(f) \/ ReadBlocked(f) \/ ReadFails(f)
  PROVE  TInv'
<1>. USE ServerAssumption DEF TInv, TypeOK, Goto, Threads, Places, TakeEvent, count, conn
<1>1. CASE HandleHup(f)
  BY <1>1 DEF HandleHup
<1>2. CASE ReadData(f)
  <2>1. req[f] \in HttpReq /\ rcvq[f] \in 0..MaxRcv
    OBVIOUS
  <2>2. /\ req[f].read + Received(f) \in 0..ReadSize
        /\ rcvq[f] - Received(f) \in 0..MaxRcv
    BY <2>1, ReqFields DEF Received
  <2>3. /\ req' = [req EXCEPT ![f] = [req[f] EXCEPT !.read = req[f].read + Received(f)]]
        /\ rcvq' = [rcvq EXCEPT ![f] = rcvq[f] - Received(f)]
    BY <1>2 DEF ReadData
  <2>4. [req[f] EXCEPT !.read = req[f].read + Received(f)] \in HttpReq
    BY <2>1, <2>2, ReqUpdates
  <2>5. req' \in [Fds -> HttpReq] /\ rcvq' \in [Fds -> 0..MaxRcv]
    BY <2>2, <2>3, <2>4
  <2> QED
    BY <1>2, <2>5 DEF ReadData
<1>3. CASE ReadBlocked(f)
  <2>1. armed' \in [Fds -> {"off", "in", "out"}]
    BY <1>3, ModType DEF ReadBlocked
  <2> QED
    BY <1>3, <2>1 DEF ReadBlocked
<1>4. CASE ReadFails(f)
  BY <1>4 DEF ReadFails
<1> QED
  BY <1>1, <1>2, <1>3, <1>4

\* write().
LEMMA WriteType ==
  ASSUME TInv, NEW f \in Fds, WriteAll(f) \/ WriteBlocked(f) \/ WriteFails(f)
  PROVE  TInv'
<1>. USE ServerAssumption DEF TInv, TypeOK, Goto, Threads, Places, TakeEvent, count, conn, place,
                              Stay
<1>1. CASE WriteAll(f)
  <2>1. \/ HttpReset(f) /\ ModFd(f, "in") /\ Stay
        \/ /\ req' = [req EXCEPT ![f] = [req[f] EXCEPT !.iv = 0]]
           /\ Goto(Main, "close", f) /\ UNCHANGED armed
    BY <1>1 DEF WriteAll
  <2>2. [req[f] EXCEPT !.iv = 0] \in HttpReq
    <3>1. req[f] \in HttpReq /\ 0 \in 0..2
      OBVIOUS
    <3> QED
      BY <3>1, ReqUpdates
  <2>3. req' \in [Fds -> HttpReq]
    BY <2>1, <2>2, NewReqType DEF HttpReset
  <2>4. armed' \in [Fds -> {"off", "in", "out"}]
    BY <2>1, ModType
  <2>5. PlaceType'
    <3>1. CASE Stay
      BY <3>1 DEF PlaceType
    <3>2. CASE Goto(Main, "close", f)
      BY <3>2, GotoType
    <3> QED
      BY <2>1, <3>1, <3>2
  <2>6. UNCHANGED <<backlog, hup, open, acceptEvent, m_workqueue, count, rcvq, full, errno,
                    m_sockfd>>
        /\ events' = [events EXCEPT ![f] = "none"]
    BY <1>1 DEF WriteAll
  <2> QED
    BY <2>3, <2>4, <2>5, <2>6 DEF PlaceType
<1>2. CASE WriteBlocked(f)
  <2>1. PICK left \in 1..req[f].iv : req' = [req EXCEPT ![f] = [req[f] EXCEPT !.iv = left]]
    BY <1>2 DEF WriteBlocked
  <2>2. left \in 0..2
    <3>1. req[f] \in HttpReq
      OBVIOUS
    <3>2. req[f].iv \in 0..2
      BY <3>1, ReqFields
    <3> QED
      BY ONLY <3>2, left \in 1..req[f].iv
  <2>3. req' \in [Fds -> HttpReq] /\ armed' \in [Fds -> {"off", "in", "out"}]
    BY <1>2, <2>1, <2>2, ReqUpdates, ModType DEF WriteBlocked
  <2> QED
    BY <1>2, <2>3 DEF WriteBlocked
<1>3. CASE WriteFails(f)
  BY <1>3 DEF WriteFails
<1> QED
  BY <1>1, <1>2, <1>3

\* close_conn(), by whichever thread.
LEMMA CloseType == ASSUME TInv, NEW t \in Threads, CloseConn(t) PROVE TInv'
<1>. USE ServerAssumption DEF TInv, TypeOK, client, epoll, batch, conn, place, count
<1>1. cur[t] \in Fds \cup {NoFd} /\ {"loop", "modout", "forget", "count"} \subseteq Places
  BY DEF Places
<1>2. AfterClose(t) => PlaceType'
  BY <1>1, GotoType DEF AfterClose
<1>3. \A to \in {"forget", "count"} : Goto(t, to, cur[t]) => PlaceType'
  BY <1>1, GotoType
<1>4. CASE CloseRemove(t)
  <2>1. PlaceType'
    BY <1>2, <1>3, <1>4 DEF CloseRemove
  <2>2. UNCHANGED <<epoll, rcvq, hup, full>> \/ RemoveFd(m_sockfd[cur[t]])
    BY <1>4 DEF CloseRemove
  <2>3. /\ open' \in SUBSET Fds /\ armed' \in [Fds -> {"off", "in", "out"}]
        /\ rcvq' \in [Fds -> 0..MaxRcv] /\ hup' \in [Fds -> BOOLEAN] /\ full' \in [Fds -> BOOLEAN]
    <3>1. CASE UNCHANGED <<epoll, rcvq, hup, full>>
      BY <3>1
    <3>2. CASE RemoveFd(m_sockfd[cur[t]])
      <4>1. 0 \in 0..MaxRcv
        OBVIOUS
      <4>2. PICK h : h = m_sockfd[cur[t]]
        OBVIOUS
      <4> QED
        BY <3>2, <4>1, <4>2 DEF RemoveFd
    <3> QED
      BY <2>2, <3>1, <3>2
  <2> QED
    BY <1>4, <2>1, <2>3 DEF CloseRemove, PlaceType
<1>5. CASE CloseForget(t)
  <2>1. PlaceType'
    BY <1>3, <1>5 DEF CloseForget
  <2> QED
    BY <1>5, <2>1 DEF CloseForget, PlaceType
<1>6. CASE CloseCount(t)
  <2>1. PlaceType'
    BY <1>2, <1>6 DEF CloseCount
  <2>2. m_user_count' \in Int /\ reg' \in [Threads -> Int]
    BY <1>6 DEF CloseCount, Uncounted
  <2> QED
    BY <1>6, <2>1, <2>2 DEF CloseCount, PlaceType
<1> QED
  BY <1>4, <1>5, <1>6 DEF CloseConn

\* What a thread has loaded.
LEMMA RegStores ==
  ASSUME TypeOK, NEW t, NEW r \in Int, reg' = [reg EXCEPT ![t] = r]
  PROVE  reg' \in [Threads -> Int]
  BY DEF TypeOK

\* A worker.
LEMMA WorkerType == ASSUME TInv, RegType, NEW w \in Workers, Take(w) \/ Process(w) PROVE TInv'
<1>. USE ServerAssumption DEF TInv, TypeOK, client, epoll, batch, conn, place, count
<1>p. \A to \in {"idle", "parse", "page", "file", "cut", "modin", "modout", "close"}, fd \in Fds \cup {NoFd} :
        Goto(w, to, fd) => PlaceType'
  BY GotoType DEF Threads, Places
<1>w. cur[w] \in Fds \cup {NoFd}
  BY DEF Threads
<1>1. CASE Take(w)
  <2>1. Head(m_workqueue) \in Fds /\ Tail(m_workqueue) \in Seq(Fds)
    BY <1>1 DEF Take
  <2> QED
    BY <1>p, <1>1, <2>1 DEF Take, Popped, PlaceType
<1>2. CASE ParseIncomplete(w)
  <2>1. cur[w] \in Fds => [req[cur[w]] EXCEPT !.checked = req[cur[w]].read] \in HttpReq
    BY ReqFields, ReqUpdates
  <2>2. req' \in [Fds -> HttpReq]
    BY <1>2, <2>1, ObjectType DEF ParseIncomplete
  <2> QED
    BY <1>p, <1>w, <1>2, <2>2 DEF ParseIncomplete, PlaceType
<1>3. CASE ParseComplete(w)
  <2>1. PICK next \in {"page", "file", "close", "cut"}, keep \in BOOLEAN :
          /\ req' = [req EXCEPT ![cur[w]] = Parsed(req[cur[w]], next, keep)]
          /\ reg' = [reg EXCEPT ![w] = IF next \in {"page", "file"} THEN req[cur[w]].write ELSE 0]
          /\ Goto(w, next, cur[w])
    BY <1>3 DEF ParseComplete
  <2>2. cur[w] \in Fds
    BY <1>3 DEF ParseComplete, RegType
  <2>3. Parsed(req[cur[w]], next, keep) \in HttpReq /\ req[cur[w]].write \in Nat
    BY <2>2, ReqFields, ParsedFields
  <2>4. req' \in [Fds -> HttpReq]
    BY <2>1, <2>3, ObjectType
  <2>5. reg' \in [Threads -> Int]
    <3>1. PICK r : r = IF next \in {"page", "file"} THEN req[cur[w]].write ELSE 0
      OBVIOUS
    <3>2. r \in Int
      BY <2>3, <3>1
    <3> QED
      BY <2>1, <3>1, <3>2, RegStores
  <2>6. PlaceType'
    BY <1>p, <1>w, <2>1
  <2>7. UNCHANGED <<client, epoll, batch, m_sockfd, m_workqueue, m_user_count>>
    BY <1>3 DEF ParseComplete
  <2> QED
    BY <2>4, <2>5, <2>6, <2>7 DEF PlaceType
<1>5. CASE AddResponse(w)
  <2>1. PICK old \in {reg[w], req[cur[w]].write} :
          req' = [req EXCEPT ![cur[w]] = Responded(req[cur[w]], old, pc[w])]
    BY <1>5 DEF AddResponse
  <2>2. pc[w] # "cut" => reg[w] \in Nat
    BY <1>5 DEF AddResponse, RegType
  <2>3. cur[w] \in Fds => Responded(req[cur[w]], old, pc[w]) \in HttpReq
    BY <2>2, ReqFields, RespondedFields
  <2>4. req' \in [Fds -> HttpReq]
    BY <2>1, <2>3, ObjectType
  <2>5. reg' \in [Threads -> Int]
    <3>1. reg' = [reg EXCEPT ![w] = 0] /\ 0 \in Int
      BY <1>5 DEF AddResponse
    <3> QED
      BY <3>1, RegStores
  <2>6. PlaceType'
    BY <1>p, <1>w, <1>5 DEF AddResponse
  <2>7. UNCHANGED <<client, epoll, batch, m_sockfd, m_workqueue, m_user_count>>
    BY <1>5 DEF AddResponse
  <2> QED
    BY <2>4, <2>5, <2>6, <2>7 DEF PlaceType
<1>4. CASE ModIn(w) \/ ModOut(w)
  <2>1. armed' \in [Fds -> {"off", "in", "out"}]
    BY <1>4, ModType DEF ModIn, ModOut
  <2>2. PlaceType'
    BY <1>p, <1>4 DEF ModIn, ModOut
  <2>3. UNCHANGED <<client, open, batch, conn, m_workqueue, count>>
    BY <1>4 DEF ModIn, ModOut
  <2> QED
    BY <2>1, <2>2, <2>3 DEF PlaceType
<1> QED
  BY <1>1, <1>2, <1>3, <1>4, <1>5 DEF Process

\* write_index is a number where a worker has tested it.
LEMMA NextReg == TInv /\ RegType /\ [Next]_vars => RegType'
<1> SUFFICES ASSUME TInv, RegType, [Next]_vars, NEW v \in Workers
    PROVE  (/\ pc[v] = "parse" => cur[v] \in Fds
            /\ pc[v] \in {"page", "file"} => reg[v] \in Nat)'
  BY DEF RegType
<1>t. /\ TypeOK /\ pc \in [Threads -> Places] /\ cur \in [Threads -> Fds \cup {NoFd}]
      /\ reg \in [Threads -> Int] /\ v \in Threads /\ Workers \subseteq Threads /\ v # Main
  BY ServerAssumption DEF TInv, TypeOK, Threads
<1>1. CASE Clients \/ Reactor \/ CloseConn(Main)
  BY <1>1, <1>t, OthersStay DEF RegType
<1>2. ASSUME NEW w \in Workers, CloseConn(w)
      PROVE  (/\ pc[v] = "parse" => cur[v] \in Fds
              /\ pc[v] \in {"page", "file"} => reg[v] \in Nat)'
  <2>1. w # Main
    BY ServerAssumption
  <2>2. PICK to \in {"modout", "forget", "count"} : Goto(w, to, cur[w])
    BY <1>2, <2>1 DEF CloseConn, CloseRemove, CloseForget, CloseCount, AfterClose
  <2>3. PICK r : reg' = [reg EXCEPT ![w] = r]
    <3>1. reg = [reg EXCEPT ![w] = reg[w]]
      BY <1>t
    <3> QED
      BY <1>2, <3>1 DEF CloseConn, CloseRemove, CloseForget, CloseCount, count
  <2>4. CASE v = w
    BY <1>t, <2>2, <2>4 DEF Goto
  <2>5. CASE v # w
    BY <1>t, <2>2, <2>3, <2>5 DEF Goto, RegType
  <2> QED
    BY <2>4, <2>5
<1>3. ASSUME NEW w \in Workers, Take(w) \/ Process(w)
      PROVE  (/\ pc[v] = "parse" => cur[v] \in Fds
              /\ pc[v] \in {"page", "file"} => reg[v] \in Nat)'
  <2>1. CASE Take(w)
    <3>1. Head(m_workqueue) \in Fds
      BY <2>1 DEF Take, TInv, TypeOK
    <3> QED
      BY <1>t, <2>1, <3>1 DEF Take, Goto, count, RegType
  <2>2. CASE ParseIncomplete(w) \/ ModIn(w) \/ ModOut(w)
    BY <1>t, <2>2 DEF ParseIncomplete, ModIn, ModOut, Goto, count, RegType
  <2>3. CASE ParseComplete(w)
    <3>1. PICK next \in {"page", "file", "close", "cut"} :
            /\ reg' = [reg EXCEPT ![w] = IF next \in {"page", "file"} THEN req[cur[w]].write ELSE 0]
            /\ Goto(w, next, cur[w])
      BY <2>3 DEF ParseComplete
    <3>2. req[cur[w]].write \in Nat
      BY <2>3, ReqFields DEF ParseComplete, RegType, TInv, TypeOK
    <3> QED
      BY <1>t, <3>1, <3>2 DEF Goto, RegType
  <2>4. CASE AddResponse(w)
    BY <1>t, <2>4 DEF AddResponse, Goto, RegType
  <2> QED
    BY <1>3, <2>1, <2>2, <2>3, <2>4 DEF Process
<1>4. CASE UNCHANGED vars
  BY <1>4 DEF vars, place, count, RegType
<1>5. Next \/ UNCHANGED vars
  OBVIOUS
<1> QED
  BY <1>1, <1>2, <1>3, <1>4, <1>5 DEF Next, Threads

LEMMA NextType == TInv /\ RegType /\ [Next]_vars => TInv'
<1> SUFFICES ASSUME TInv, RegType, [Next]_vars PROVE TInv'
  OBVIOUS
<1>1. CASE Reactor
  BY <1>1, LoopType, InitType, ReadType, WriteType DEF Reactor
<1>2. CASE UNCHANGED vars
  BY <1>2 DEF TInv, TypeOK, vars, client, epoll, batch, conn, place, count
<1> QED
  BY <1>1, <1>2, ClientsType, WorkerType, CloseType DEF Next

-----------------------------------------------------------------------------
(* Theorems *)

\* The types, with what they need of main() and of add_response().
LEMMA ServerTypes == Spec => [](TInv /\ RegType)
<1>1. Init => TInv /\ RegType
  BY InitIInv, ServerAssumption DEF IInv, TInv, PlaceInv, BatchInv, Init, Threads, RegType
<1> QED
  BY <1>1, NextType, NextReg, PTL DEF Spec

\* The variables stay in their types whatever the clients send; in particular read_index
\* stays within read_buffer, also where two threads work on one http_conn.
THEOREM ServerTypeOK == Spec => []TypeOK
<1>1. TInv => TypeOK
  BY DEF TInv
<1> QED
  BY <1>1, ServerTypes, PTL

\* IInv holds in every state, when no client sends more than read_buffer takes.
THEOREM ServerInvariant ==
  ASSUME RequestsFit
  PROVE  Spec => []IInv
<1>1. RegType /\ IInv /\ BuildInv /\ [Next]_vars => IInv' /\ BuildInv'
  BY NextIInv, NextBuild
<1>2. Init => BuildInv
  BY ServerAssumption DEF Init, BuildInv, Threads
<1> QED
  BY <1>1, <1>2, InitIInv, ServerTypes, PTL DEF Spec

\* EPOLLONESHOT keeps every http_conn in one pair of hands, for any number of
\* connections and workers and however small the pool's queue is.
THEOREM ServerOneHolder ==
  ASSUME RequestsFit
  PROVE  Spec => []OneHolder
<1>1. IInv => OneHolder
  BY DEF IInv
<1> QED
  BY <1>1, ServerInvariant, PTL

\* No two threads are ever in the handlers of one connection.
THEOREM ServerOneThread ==
  ASSUME RequestsFit
  PROVE  Spec => []OneThread
<1>1. IInv => OneThread
  <2> SUFFICES ASSUME IInv, NEW s \in Threads, NEW t \in Threads, cur[s] = cur[t], cur[s] # NoFd
               PROVE  s = t
    BY DEF OneThread
  <2>1. cur[s] \in Fds
    BY DEF IInv, TypeOK
  <2>2. CASE s \in Workers /\ t \in Workers
    BY <2>2 DEF IInv, OneHolder
  <2>3. CASE s = Main \/ t = Main
    BY <2>1, <2>3 DEF IInv, OneHolder, ReactorHas, WorkersHave, WorkerHas, Threads
  <2> QED
    BY <2>2, <2>3 DEF Threads
<1> QED
  BY <1>1, ServerInvariant, PTL

\* The object and the holder of a connection agree on the phase of the exchange.
THEOREM ServerPhaseMatches ==
  ASSUME RequestsFit
  PROVE  Spec => []PhaseMatches
<1>1. IInv => PhaseMatches
  <2> SUFFICES ASSUME IInv, NEW f \in Fds
               PROVE  /\ Requesting(f) => Clean(req[f])
                      /\ Responding(f) => req[f].iv > 0 /\ (req[f].iv = 2 => req[f].mapped)
                      /\ KernelHas(f) => req[f].checked = req[f].read
    BY DEF PhaseMatches, Clean
  <2>1. KernelHas(f) => Waiting(f) \/ Responding(f)
    BY DEF IInv, TypeOK, KernelHas, Waiting, Responding
  <2> QED
    BY <2>1 DEF IInv, PhaseInv, Phase
<1> QED
  BY <1>1, ServerInvariant, PTL

\* At most MAX_FD + 1 connections are open at a time.
THEOREM ServerAdmissionBound ==
  ASSUME RequestsFit
  PROVE  Spec => []AdmissionBound
<1>1. IInv => AdmissionBound
  BY DEF IInv
<1> QED
  BY <1>1, ServerInvariant, PTL

-----------------------------------------------------------------------------
(* The refinement of ConnOwnership.                                            *)

\* A step leaves connection g where it is.
Keeps(g) == /\ KernelHas(g)' <=> KernelHas(g)
            /\ ReactorHas(g)' <=> ReactorHas(g)
            /\ QueueHas(g)' <=> QueueHas(g)
            /\ \A w \in Workers : WorkerHas(w, g)' <=> WorkerHas(w, g)
            /\ (g \in open' <=> g \in open) \/ ReactorHas(g)

\* Somebody has the connection.
Held(f) == KernelHas(f) \/ ReactorHas(f) \/ QueueHas(f) \/ WorkersHave(f)

\* HolderOf names the party that has the connection.
Placed ==
  \A f \in Fds :
    /\ KernelHas(f) => HolderOf(f) = "kernel"
    /\ ReactorHas(f) => HolderOf(f) = "reactor"
    /\ QueueHas(f) => HolderOf(f) = "queue"
    /\ \A w \in Workers : WorkerHas(w, f) => HolderOf(f) = w
    /\ ~Held(f) => HolderOf(f) = IF f \in open THEN "lost" ELSE "nobody"
    /\ f \notin open /\ cur[Main] # f => ~Held(f)

\* The CASE of HolderOf is exclusive in every state that IInv describes.
LEMMA HolderValues == IInv => Placed
<1> SUFFICES ASSUME IInv, NEW f \in Fds
    PROVE /\ KernelHas(f) => HolderOf(f) = "kernel"
          /\ ReactorHas(f) => HolderOf(f) = "reactor"
          /\ QueueHas(f) => HolderOf(f) = "queue"
          /\ \A w \in Workers : WorkerHas(w, f) => HolderOf(f) = w
          /\ ~Held(f) => HolderOf(f) = IF f \in open THEN "lost" ELSE "nobody"
          /\ f \notin open /\ cur[Main] # f => ~Held(f)
  BY DEF Placed
<1>1. /\ KernelHas(f) => ~ReactorHas(f) /\ ~QueueHas(f) /\ ~WorkersHave(f)
      /\ ReactorHas(f) => ~QueueHas(f) /\ ~WorkersHave(f)
      /\ QueueHas(f) => ~WorkersHave(f)
  BY DEF IInv, OneHolder
<1>2. ASSUME KernelHas(f) PROVE HolderOf(f) = "kernel"
  <2>1. ~ReactorHas(f) /\ ~QueueHas(f) /\ ~WorkersHave(f)
    BY <1>1, <1>2
  <2> QED BY <1>2, <2>1, Zenon DEF HolderOf
<1>3. ASSUME ReactorHas(f) PROVE HolderOf(f) = "reactor"
  <2>1. ~KernelHas(f) /\ ~QueueHas(f) /\ ~WorkersHave(f)
    BY <1>1, <1>3
  <2> QED BY <1>3, <2>1, Zenon DEF HolderOf
<1>4. ASSUME QueueHas(f) PROVE HolderOf(f) = "queue"
  <2>1. ~KernelHas(f) /\ ~ReactorHas(f) /\ ~WorkersHave(f)
    BY <1>1, <1>4
  <2> QED BY <1>4, <2>1, Zenon DEF HolderOf
<1>5. ASSUME NEW w \in Workers, WorkerHas(w, f)
      PROVE  HolderOf(f) = w
  <2>1. WorkersHave(f)
    BY <1>5 DEF WorkersHave
  <2>2. HolderOf(f) = CHOOSE v \in Workers : WorkerHas(v, f)
    BY <1>1, <2>1, Zenon DEF HolderOf
  <2>3. \A v \in Workers : WorkerHas(v, f) => v = w
    BY <1>5, ServerAssumption DEF WorkerHas, IInv, OneHolder
  <2> QED BY <1>5, <2>2, <2>3
<1>6. ASSUME ~Held(f) PROVE HolderOf(f) = IF f \in open THEN "lost" ELSE "nobody"
  <2>1. ~KernelHas(f) /\ ~ReactorHas(f) /\ ~QueueHas(f) /\ ~WorkersHave(f)
    BY <1>6 DEF Held
  <2> QED BY <2>1, Zenon DEF HolderOf
<1>7. f \notin open /\ cur[Main] # f => ~Held(f)
  BY DEF IInv, OpenInv, KernelHas, ReactorHas, Held
<1> QED BY <1>2, <1>3, <1>4, <1>5, <1>6, <1>7

\* The same after a step.
LEMMA HolderValuesNext == IInv' => Placed'
BY HolderValues, PTL

\* A connection that a step keeps has the holder it had.
LEMMA HolderKept ==
  ASSUME IInv, IInv', NEW g \in Fds, Keeps(g)
  PROVE  holder'[g] = holder[g]
<1>1. Placed /\ Placed'
  BY HolderValues, HolderValuesNext
<1>2. holder'[g] = HolderOf(g)' /\ holder[g] = HolderOf(g)
  BY DEF holder
<1>3. CASE KernelHas(g)
  BY <1>1, <1>2, <1>3 DEF Placed, Keeps
<1>4. CASE ReactorHas(g)
  BY <1>1, <1>2, <1>4 DEF Placed, Keeps
<1>5. CASE QueueHas(g)
  BY <1>1, <1>2, <1>5 DEF Placed, Keeps
<1>6. CASE WorkersHave(g)
  <2>1. PICK w \in Workers : WorkerHas(w, g)
    BY <1>6 DEF WorkersHave
  <2>2. WorkerHas(w, g)'
    BY <2>1 DEF Keeps
  <2> QED BY <1>1, <1>2, <2>1, <2>2 DEF Placed
<1>7. CASE ~Held(g)
  <2>1. ~Held(g)' /\ (g \in open' <=> g \in open)
    BY <1>7 DEF Keeps, Held, WorkersHave
  <2>2. /\ HolderOf(g) = IF g \in open THEN "lost" ELSE "nobody"
        /\ HolderOf(g)' = IF g \in open' THEN "lost" ELSE "nobody"
    BY <1>1, <1>7, <2>1 DEF Placed
  <2> QED BY <1>2, <2>1, <2>2
<1> QED BY <1>3, <1>4, <1>5, <1>6, <1>7 DEF Held

\* A step that keeps every connection changes nothing of the ownership.
LEMMA AllKept ==
  ASSUME IInv, IInv', \A g \in Fds : Keeps(g)
  PROVE  [Ownership!Next]_holder
<1>1. \A g \in Fds : holder'[g] = holder[g]
  BY HolderKept
<1>2. holder = [g \in Fds |-> holder[g]] /\ holder' = [g \in Fds |-> holder'[g]]
  BY DEF holder
<1> QED BY <1>1, <1>2

\* A step that hands one connection over, and keeps the others, is one of ConnOwnership.
LEMMA OneMoves ==
  ASSUME IInv, IInv', NEW f \in Fds,
         \A g \in Fds \ {f} : Keeps(g),
         holder[f] # holder'[f] =>
         \/ holder[f] = "nobody" /\ holder'[f] = "reactor"
         \/ holder[f] = "reactor" /\ holder'[f] \in {"kernel", "nobody", "queue"}
         \/ holder[f] = "reactor" /\ holder'[f] = "lost" /\ Ownership!QueueFull
         \/ \E w \in Workers : \/ holder[f] = "queue" /\ holder'[f] = w /\ \A g \in Fds : holder[g] # w
                               \/ holder[f] = w /\ holder'[f] = "kernel"
  PROVE  [Ownership!Next]_holder
<1>1. \A g \in Fds \ {f} : holder'[g] = holder[g]
  BY HolderKept
<1>2. holder = [g \in Fds |-> holder[g]] /\ holder' = [g \in Fds |-> holder'[g]]
  BY DEF holder
<1>3. CASE holder[f] = holder'[f]
  BY <1>1, <1>2, <1>3
<1>4. CASE holder[f] # holder'[f]
  <2>1. holder' = [holder EXCEPT ![f] = holder'[f]]
    BY <1>1, <1>2
  <2>2. Ownership!Admit(f) \/ Ownership!Serve(f) \/ Ownership!Lose(f)
    BY <1>4, <2>1 DEF Ownership!Admit, Ownership!Serve, Ownership!Lose, Ownership!Give
  <2> QED BY <2>2 DEF Ownership!Next
<1> QED BY <1>3, <1>4

\* Connect hands nothing over.
LEMMA ConnectHands ==
  ASSUME IInv,  NEW g \in Fds, Connect
  PROVE  Keeps(g)
  BY ServerAssumption DEF Connect, ClientStep, IInv, PlaceInv, TypeOK, Threads, KernelHas, ReactorHas, QueueHas, WorkerHas, InInit, Keeps, client, epoll, batch, conn, place, count

\* Send hands nothing over.
LEMMA SendHands ==
  ASSUME IInv, NEW f \in Fds, NEW g \in Fds, Send(f)
  PROVE  Keeps(g)
  BY ServerAssumption DEF Send, ClientStep, IInv, PlaceInv, TypeOK, Threads, KernelHas, ReactorHas, QueueHas, WorkerHas, InInit, Keeps, client, epoll, batch, conn, place, count

\* Drain hands nothing over.
LEMMA DrainHands ==
  ASSUME IInv, NEW f \in Fds, NEW g \in Fds, Drain(f)
  PROVE  Keeps(g)
  BY ServerAssumption DEF Drain, ClientStep, IInv, PlaceInv, TypeOK, Threads, KernelHas, ReactorHas, QueueHas, WorkerHas, InInit, Keeps, client, epoll, batch, conn, place, count

\* HangUp hands nothing over.
LEMMA HangUpHands ==
  ASSUME IInv, NEW f \in Fds, NEW g \in Fds, HangUp(f)
  PROVE  Keeps(g)
  BY ServerAssumption DEF HangUp, ClientStep, IInv, PlaceInv, TypeOK, Threads, KernelHas, ReactorHas, QueueHas, WorkerHas, InInit, Keeps, client, epoll, batch, conn, place, count

\* BatchDone hands nothing over.
LEMMA BatchDoneHands ==
  ASSUME IInv,  NEW g \in Fds, BatchDone
  PROVE  Keeps(g)
  BY ServerAssumption DEF BatchDone, Goto, IInv, PlaceInv, TypeOK, Threads, KernelHas, ReactorHas, QueueHas, WorkerHas, InInit, Keeps, client, epoll, batch, conn, place, count

\* AcceptFails hands nothing over.
LEMMA AcceptFailsHands ==
  ASSUME IInv,  NEW g \in Fds, AcceptFails
  PROVE  Keeps(g)
  BY ServerAssumption DEF AcceptFails, TakeAccept, IInv, PlaceInv, TypeOK, Threads, KernelHas, ReactorHas, QueueHas, WorkerHas, InInit, Keeps, client, epoll, batch, conn, place, count

\* AcceptBusy hands nothing over.
LEMMA AcceptBusyHands ==
  ASSUME IInv,  NEW g \in Fds, AcceptBusy
  PROVE  Keeps(g)
  BY ServerAssumption DEF AcceptBusy, TakeAccept, IInv, PlaceInv, TypeOK, Threads, KernelHas, ReactorHas, QueueHas, WorkerHas, InInit, Keeps, client, epoll, batch, conn, place, count

\* HandleHup hands nothing over.
LEMMA HandleHupHands ==
  ASSUME IInv, NEW f \in Fds, NEW g \in Fds, HandleHup(f)
  PROVE  Keeps(g)
  BY ServerAssumption DEF HandleHup, TakeEvent, Goto, OneHolder, IInv, PlaceInv, TypeOK, Threads, KernelHas, ReactorHas, QueueHas, WorkerHas, InInit, Keeps, client, epoll, batch, conn, place, count

\* ReadData hands nothing over.
LEMMA ReadDataHands ==
  ASSUME IInv, NEW f \in Fds, NEW g \in Fds, ReadData(f)
  PROVE  Keeps(g)
  BY ServerAssumption DEF ReadData, TakeEvent, Goto, OneHolder, IInv, PlaceInv, TypeOK, Threads, KernelHas, ReactorHas, QueueHas, WorkerHas, InInit, Keeps, client, epoll, batch, conn, place, count

\* ReadFails hands nothing over.
LEMMA ReadFailsHands ==
  ASSUME IInv, NEW f \in Fds, NEW g \in Fds, ReadFails(f)
  PROVE  Keeps(g)
  BY ServerAssumption DEF ReadFails, TakeEvent, Goto, OneHolder, IInv, PlaceInv, TypeOK, Threads, KernelHas, ReactorHas, QueueHas, WorkerHas, InInit, Keeps, client, epoll, batch, conn, place, count

\* WriteFails hands nothing over.
LEMMA WriteFailsHands ==
  ASSUME IInv, NEW f \in Fds, NEW g \in Fds, WriteFails(f)
  PROVE  Keeps(g)
  BY ServerAssumption DEF WriteFails, TakeEvent, Goto, OneHolder, IInv, PlaceInv, TypeOK, Threads, KernelHas, ReactorHas, QueueHas, WorkerHas, InInit, Keeps, client, epoll, batch, conn, place, count

\* ParseIncomplete hands nothing over.
LEMMA ParseIncompleteHands ==
  ASSUME IInv, NEW w \in Workers, NEW g \in Fds, ParseIncomplete(w)
  PROVE  Keeps(g)
  BY ServerAssumption DEF ParseIncomplete, Goto, IInv, PlaceInv, TypeOK, Threads, KernelHas, ReactorHas, QueueHas, WorkerHas, InInit, Keeps, client, epoll, batch, conn, place, count

\* ParseComplete hands nothing over.
LEMMA ParseCompleteHands ==
  ASSUME IInv, NEW w \in Workers, NEW g \in Fds, ParseComplete(w)
  PROVE  Keeps(g)
  BY ServerAssumption DEF ParseComplete, Goto, IInv, PlaceInv, TypeOK, Threads, KernelHas, ReactorHas, QueueHas, WorkerHas, InInit, Keeps, client, epoll, batch, conn, place, count

\* AddResponse hands nothing over.
LEMMA AddResponseHands ==
  ASSUME IInv, NEW w \in Workers, NEW g \in Fds, AddResponse(w)
  PROVE  Keeps(g)
  BY ServerAssumption DEF AddResponse, Goto, IInv, PlaceInv, TypeOK, Threads, KernelHas, ReactorHas, QueueHas, WorkerHas, InInit, Keeps, client, epoll, batch, conn, place, count

\* close_conn() of the reactor keeps the connection until its end.
LEMMA CloseRemoveHands ==
  ASSUME IInv, NEW g \in Fds, CloseRemove(Main)
  PROVE  Keeps(g)
<1>1. cur[Main] \in open /\ m_sockfd[cur[Main]] = cur[Main]
  BY DEF CloseRemove, IInv, TypeOK, PlaceInv, OpenInv, Threads
<1>2. CloseRemove(Main) /\ m_sockfd[cur[Main]] # NoFd
  BY <1>1, ServerAssumption DEF IInv, TypeOK
<1>3. cur' = cur /\ pc' = [pc EXCEPT ![Main] = "forget"] /\ RemoveFd(cur[Main])
  BY <1>1, <1>2 DEF CloseRemove, Goto, IInv, TypeOK, Threads
<1>4. CASE g = cur[Main]
  BY <1>1, <1>3, <1>4 DEF CloseRemove, RemoveFd, IInv, TypeOK, OneHolder, Threads, Keeps, KernelHas, ReactorHas,
     QueueHas, WorkerHas, InInit, batch
<1>5. CASE g # cur[Main]
  BY <1>1, <1>3, <1>5 DEF CloseRemove, RemoveFd, IInv, TypeOK, Threads, Keeps, KernelHas, ReactorHas,
     QueueHas, WorkerHas, InInit, batch
<1> QED BY <1>4, <1>5

\* So does m_sockfd = -1.
LEMMA CloseForgetHands ==
  ASSUME IInv, NEW g \in Fds, CloseForget(Main)
  PROVE  Keeps(g)
  BY ServerAssumption DEF CloseForget, Goto, IInv, PlaceInv, TypeOK, Threads, KernelHas, ReactorHas,
     QueueHas, WorkerHas, InInit, Keeps, client, epoll, batch, conn, place, count

\* epoll_wait() reports the connections in Ready together.
LEMMA EpollWaitHands ==
  ASSUME IInv, IInv', EpollWait
  PROVE  [Ownership!Next]_holder
<1>1. Placed /\ Placed'
  BY HolderValues, HolderValuesNext
<1>2. \A g \in Fds : holder'[g] = HolderOf(g)' /\ holder[g] = HolderOf(g)
  BY DEF holder
<1>3. \A g \in Fds \ Ready : Keeps(g)
  BY ServerAssumption DEF EpollWait, Disarmed, Ready, Goto, IInv, PlaceInv, BatchInv, TypeOK, Threads, KernelHas, ReactorHas,
     QueueHas, WorkerHas, InInit, Keeps, client, epoll, batch, conn, place, count
<1>4. \A g \in Fds \ Ready : holder'[g] = holder[g]
  BY <1>3, HolderKept
<1>5. ASSUME NEW g \in Ready
      PROVE  KernelHas(g) /\ ReactorHas(g)'
  <2>1. g \in Fds /\ Reported(g) # "none"
    BY DEF Ready
  <2>2. armed[g] # "off"
    <3> SUFFICES ASSUME armed[g] = "off" PROVE FALSE
      OBVIOUS
    <3>1. /\ ~(armed[g] # "off" /\ hup[g])
          /\ ~(armed[g] = "in" /\ ~hup[g] /\ rcvq[g] > 0)
          /\ ~(armed[g] = "out" /\ ~hup[g] /\ ~full[g])
      OBVIOUS
    <3>2. Reported(g) = "none"
      BY <3>1, Zenon DEF Reported
    <3> QED BY <2>1, <3>2
  <2>3. events'[g] = Reported(g)
    BY <2>1 DEF EpollWait
  <2> QED BY <2>1, <2>2, <2>3 DEF KernelHas, ReactorHas, InInit, EpollWait
<1>6. Ready \subseteq Fds
  BY DEF Ready
<1>7. \A g \in Ready : holder[g] = "kernel" /\ holder'[g] = "reactor"
  BY <1>1, <1>2, <1>5, <1>6 DEF Placed
<1>9. Ready \in SUBSET {f \in Fds : holder[f] = "kernel"}
  BY <1>6, <1>7
<1>10. holder' = [f \in Fds |-> IF f \in Ready THEN "reactor" ELSE holder[f]]
  <2>1. holder' = [f \in Fds |-> holder'[f]]
    BY DEF holder
  <2> QED BY <1>4, <1>7, <2>1
<1>11. Ownership!Report
  BY <1>9, <1>10 DEF Ownership!Report
<1> QED BY <1>11 DEF Ownership!Next

\* accept() and addfd(): the reactor has the new connection.
LEMMA AcceptConnHands ==
  ASSUME IInv, IInv', NEW f \in Fds, AcceptConn(f)
  PROVE  [Ownership!Next]_holder
<1>1. \A g \in Fds \ {f} : Keeps(g)
  BY ServerAssumption DEF AcceptConn, TakeAccept, AddFd, Goto, IInv, PlaceInv, TypeOK, Threads, KernelHas, ReactorHas,
     QueueHas, WorkerHas, InInit, Keeps, client, epoll, batch, conn, place, count
<1>2. f \notin open /\ cur[Main] # f /\ ReactorHas(f)'
  BY ServerAssumption DEF AcceptConn, TakeAccept, Goto, IInv, PlaceInv, TypeOK, Threads, ReactorHas
<1>3. holder[f] = "nobody" /\ holder'[f] = "reactor"
  <2>1. ~Held(f) /\ Placed /\ Placed'
    BY <1>2, HolderValues, HolderValuesNext DEF Placed
  <2> QED BY <1>2, <2>1 DEF Placed, holder
<1> QED BY <1>1, <1>2, <1>3, OneMoves

\* The end of init().
LEMMA InitConnHands ==
  ASSUME IInv, IInv', InitConn
  PROVE  [Ownership!Next]_holder
<1>0. PICK f \in Fds : f = cur[Main]
  BY DEF InitConn, IInv, TypeOK, PlaceInv, Threads
<1>1. \A g \in Fds \ {f} : Keeps(g)
  BY <1>0, ServerAssumption DEF InitConn, Goto, IInv, PlaceInv, TypeOK, Threads, KernelHas, ReactorHas,
     QueueHas, WorkerHas, InInit, Keeps, client, epoll, batch, conn, place, count
<1>2. ReactorHas(f) /\ KernelHas(f)'
  <2>1. armed[f] = "in" /\ armed' = armed /\ pc'[Main] = "loop"
    BY <1>0 DEF InitConn, Goto, IInv, TypeOK, Threads, OpenInv, InInit, epoll
  <2> QED BY <1>0, <2>1 DEF ReactorHas, KernelHas, InInit
<1>3. holder[f] = "reactor" /\ holder'[f] = "kernel"
  BY <1>0, <1>2, HolderValues, HolderValuesNext DEF Placed, holder
<1> QED BY <1>0, <1>1, <1>2, <1>3, OneMoves

\* append() counts the connections that wait in the queue.
LEMMA Refused ==
  ASSUME IInv, Len(m_workqueue) > MaxRequests
  PROVE  Ownership!QueueFull
<1> DEFINE q == m_workqueue
           n == Len(q)
           T == {g \in Fds : holder[g] = "queue"}
<1>1. /\ q \in Seq(Fds) /\ n \in Nat
      /\ \A i, j \in 1..n : q[i] = q[j] => i = j
  BY LenProperties DEF IInv, TypeOK, OneHolder
<1>2. \A i \in 1..n : q[i] \in T
  BY <1>1, HolderValues DEF Placed, holder, QueueHas
<1>3. IsFiniteSet(T) /\ Cardinality(T) \in Nat
  BY ServerAssumption, FS_Subset, FS_CardinalityType
<1>4. IsFiniteSet(1..n) /\ Cardinality(1..n) = n
  <2>1. 1 \in Int /\ n \in Int
    BY <1>1
  <2> HIDE DEF n
  <2>2. IsFiniteSet(1..n) /\ Cardinality(1..n) = IF 1 > n THEN 0 ELSE n - 1 + 1
    BY <2>1, FS_Interval
  <2> QED BY <1>1, <2>2
<1>5. n <= Cardinality(T)
  <2> DEFINE F == [i \in 1..n |-> q[i]]
  <2>1. F \in [1..n -> T] /\ \A i \in 1..n : F[i] = q[i]
    BY <1>2
  <2>2. \A i, j \in 1..n : F[i] = F[j] => i = j
    BY <1>1, <2>1
  <2> HIDE DEF F, T, n
  <2>3. F \in Injection(1..n, T)
    BY <2>1, <2>2 DEF Injection, IsInjective
  <2>4. Cardinality(1..n) <= Cardinality(T)
    BY <1>3, <2>3, FS_Injection
  <2> QED BY <1>4, <2>4
<1>6. n > MaxRequests
  OBVIOUS
<1> HIDE DEF n, T
<1>7. Cardinality(T) > MaxRequests
  BY <1>1, <1>3, <1>5, <1>6, ServerAssumption
<1>8. \A S : Ownership!Cardinality(S) = Cardinality(S)
  BY Zenon DEF Ownership!Cardinality, Cardinality
<1> QED BY <1>7, <1>8, Zenon DEF T, Ownership!QueueFull

\* append() hands the connection from the reactor to the queue, or it is lost.
LEMMA AppendTaskHands ==
  ASSUME IInv, IInv', AppendTask
  PROVE  [Ownership!Next]_holder
<1>0. PICK f \in Fds : f = cur[Main]
  BY DEF AppendTask, IInv, TypeOK, PlaceInv, Threads
<1>p. Placed /\ Placed' /\ ReactorHas(f)
  BY <1>0, HolderValues, HolderValuesNext DEF ReactorHas
<1>k. \A g \in Fds \ {f} : (QueueHas(g)' <=> QueueHas(g)) => Keeps(g)
  BY <1>0, ServerAssumption DEF AppendTask, Goto, IInv, PlaceInv, TypeOK, Threads, KernelHas, ReactorHas,
     WorkerHas, InInit, Keeps, client, epoll, batch, conn, place, count
<1>1. CASE ~(Len(m_workqueue) > MaxRequests)
  <2>1. m_workqueue' = Append(m_workqueue, f) /\ m_workqueue \in Seq(Fds)
    BY <1>0, <1>1 DEF AppendTask, IInv, TypeOK
  <2>2. /\ Len(m_workqueue) \in Nat /\ Len(m_workqueue') = Len(m_workqueue) + 1
        /\ \A i \in 1..Len(m_workqueue) : m_workqueue'[i] = m_workqueue[i]
        /\ m_workqueue'[Len(m_workqueue) + 1] = f
    BY <2>1, AppendProperties, LenProperties
  <2>3. \A g \in Fds \ {f} : QueueHas(g)' <=> QueueHas(g)
    BY <2>2 DEF QueueHas
  <2>4. QueueHas(f)'
    BY <2>2 DEF QueueHas
  <2>5. holder[f] = "reactor" /\ holder'[f] = "queue"
    BY <1>p, <2>4 DEF Placed, holder
  <2>6. \A g \in Fds \ {f} : Keeps(g)
    BY <1>k, <2>3
  <2> QED BY <2>5, <2>6, OneMoves
<1>2. CASE Len(m_workqueue) > MaxRequests
  <2>1. m_workqueue' = m_workqueue /\ UNCHANGED <<armed, events, open>>
    BY <1>2 DEF AppendTask, epoll, batch
  <2>2. \A g \in Fds : QueueHas(g)' <=> QueueHas(g)
    BY <2>1 DEF QueueHas
  <2>3. f \in open /\ armed[f] = "off" /\ events[f] = "none" /\ ~QueueHas(f) /\ ~WorkersHave(f)
    BY <1>0, <1>p DEF AppendTask, IInv, OpenInv, OneHolder, KernelHas, ReactorHas, InInit, TypeOK
  <2>4. cur'[Main] = NoFd /\ \A w \in Workers : cur'[w] = cur[w]
    BY ServerAssumption DEF AppendTask, Goto, IInv, TypeOK, Threads
  <2>5. ~Held(f)'
    BY <2>1, <2>2, <2>3, <2>4, ServerAssumption DEF Held, KernelHas, ReactorHas, WorkersHave, WorkerHas
  <2>6. holder[f] = "reactor" /\ holder'[f] = "lost"
    BY <1>p, <2>1, <2>3, <2>5 DEF Placed, holder
  <2>7. \A g \in Fds \ {f} : Keeps(g)
    BY <1>k, <2>2
  <2> QED BY <1>2, <2>6, <2>7, Refused, OneMoves
<1> QED BY <1>1, <1>2

\* What write() does with a connection when it keeps it: the kernel has it again.
LEMMA Rearmed ==
  ASSUME IInv, IInv', NEW f \in Fds, NEW ev \in {"in", "out"},
         events[f] # "none", events' = [events EXCEPT ![f] = "none"],
         armed' = [armed EXCEPT ![f] = ev], cur[Main] = NoFd,
         UNCHANGED <<open, m_workqueue, pc, cur>>
  PROVE  [Ownership!Next]_holder
<1>1. \A g \in Fds \ {f} : Keeps(g)
  BY DEF IInv, TypeOK, Keeps, KernelHas, ReactorHas, QueueHas, WorkerHas, InInit
<1>2. ReactorHas(f) /\ KernelHas(f)'
  BY ServerAssumption DEF IInv, TypeOK, ReactorHas, KernelHas, InInit
<1>3. holder[f] = "reactor" /\ holder'[f] = "kernel"
  BY <1>2, HolderValues, HolderValuesNext DEF Placed, holder
<1> QED BY <1>1, <1>2, <1>3, OneMoves

\* write() that would block waits for EPOLLOUT.
LEMMA WriteBlockedHands ==
  ASSUME IInv, IInv', NEW f \in Fds, WriteBlocked(f)
  PROVE  [Ownership!Next]_holder
<1>1. events[f] # "none" /\ events' = [events EXCEPT ![f] = "none"] /\ cur[Main] = NoFd
      /\ UNCHANGED <<open, m_workqueue, pc, cur>>
  BY DEF WriteBlocked, TakeEvent, Stay, place, IInv, PlaceInv
<1>2. m_sockfd[f] = f
  BY <1>1 DEF IInv, OpenInv
<1>3. armed' = [armed EXCEPT ![f] = "out"]
  BY <1>2 DEF WriteBlocked, ModFd
<1> QED BY <1>1, <1>3, Rearmed

\* write() of the whole response waits for the next request, or goes on to close.
LEMMA WriteAllHands ==
  ASSUME IInv, IInv', NEW f \in Fds, WriteAll(f)
  PROVE  [Ownership!Next]_holder
<1>1. events[f] # "none" /\ events' = [events EXCEPT ![f] = "none"] /\ cur[Main] = NoFd
      /\ UNCHANGED <<open, m_workqueue>>
  BY DEF WriteAll, TakeEvent, IInv, PlaceInv
<1>2. m_sockfd[f] = f
  BY <1>1 DEF IInv, OpenInv
<1>3. CASE req[f].connect \/ req[f].iv = 0
  <2>1. armed' = [armed EXCEPT ![f] = "in"] /\ UNCHANGED <<pc, cur>>
    BY <1>2, <1>3 DEF WriteAll, ModFd, Stay, place
  <2> QED BY <1>1, <2>1, Rearmed
<1>4. CASE ~(req[f].connect \/ req[f].iv = 0)
  <2>1. armed' = armed /\ Goto(Main, "close", f)
    BY <1>4 DEF WriteAll
  <2>2. \A g \in Fds : Keeps(g)
    BY <1>1, <2>1, ServerAssumption DEF Goto, IInv, PlaceInv, OneHolder, TypeOK, Threads, Keeps, KernelHas, ReactorHas, QueueHas, WorkerHas, InInit
  <2> QED BY <2>2, AllKept
<1> QED BY <1>3, <1>4

\* A free worker takes the connection at the front of the queue.
LEMMA TakeHands ==
  ASSUME IInv, IInv', NEW w \in Workers, Take(w)
  PROVE  [Ownership!Next]_holder
<1> DEFINE q == m_workqueue
<1>0. /\ q \in Seq(Fds) /\ q # <<>> /\ q' = Tail(q) /\ pc[w] = "idle"
      /\ cur' = [cur EXCEPT ![w] = Head(q)] /\ pc' = [pc EXCEPT ![w] = "parse"]
      /\ UNCHANGED <<open, armed, events>>
  BY DEF Take, Popped, Goto, IInv, TypeOK, epoll, batch
<1>1. PICK f \in Fds : f = Head(q)
  BY <1>0, HeadTailProperties
<1>2. /\ Tail(q) \in Seq(Fds) /\ Len(q) \in Nat \ {0} /\ Len(q') = Len(q) - 1
      /\ \A i \in 1..Len(q') : q'[i] = q[i + 1]
      /\ f = q[1]
  BY <1>0, <1>1, HeadTailProperties, EmptySeq
<1>3. cur[w] = NoFd /\ w # Main /\ w \in Threads /\ Main \in Threads /\ cur \in [Threads -> Fds \cup {NoFd}]
      /\ pc \in [Threads -> Places]
  BY <1>0, ServerAssumption DEF IInv, PlaceInv, TypeOK, Threads
<1>4. /\ QueueHas(f)
      /\ WorkerHas(w, f)'
  BY <1>0, <1>1, <1>2, <1>3 DEF QueueHas, WorkerHas
<1>5. \A g \in Fds \ {f} : Keeps(g)
  <2> SUFFICES ASSUME NEW g \in Fds \ {f} PROVE Keeps(g)
    OBVIOUS
  <2>1. QueueHas(g)' <=> QueueHas(g)
    <3>1. ASSUME NEW i \in 1..Len(q'), q'[i] = g PROVE QueueHas(g)
      <4>1. i + 1 \in 1..Len(q) /\ q[i + 1] = g
        BY <1>2, <3>1
      <4> QED BY <4>1 DEF QueueHas
    <3>2. ASSUME NEW i \in 1..Len(q), q[i] = g PROVE QueueHas(g)'
      <4>1. i # 1
        BY <1>2, <3>2
      <4>2. PICK j \in 1..Len(q') : j = i - 1
        BY <1>2, <4>1
      <4>3. q'[j] = q[j + 1] /\ j + 1 = i
        BY <1>2, <4>2
      <4> QED BY <3>2, <4>3 DEF QueueHas
    <3> QED BY <3>1, <3>2 DEF QueueHas
  <2>2. \A v \in Workers : WorkerHas(v, g)' <=> WorkerHas(v, g)
    BY <1>0, <1>1, <1>3, ServerAssumption DEF WorkerHas, Threads
  <2>3. cur'[Main] = cur[Main] /\ pc'[Main] = pc[Main]
    BY <1>0, <1>3
  <2> QED BY <1>0, <2>1, <2>2, <2>3 DEF Keeps, KernelHas, ReactorHas, InInit
<1>6. holder[f] = "queue" /\ holder'[f] = w
  BY <1>4, HolderValues, HolderValuesNext DEF Placed, holder
<1>7. \A g \in Fds : holder[g] # w
  <2> SUFFICES ASSUME NEW g \in Fds PROVE HolderOf(g) # w
    BY DEF holder
  <2>1. Placed
    BY HolderValues
  <2>2. w \notin {"nobody", "kernel", "reactor", "queue", "lost"}
    BY NamesAssumption
  <2>3. CASE Held(g)
    <3>1. CASE WorkersHave(g)
      <4>1. PICK v \in Workers : WorkerHas(v, g)
        BY <3>1 DEF WorkersHave
      <4>2. v # w
        BY <1>3, <4>1, ServerAssumption DEF WorkerHas
      <4> QED BY <2>1, <4>1, <4>2 DEF Placed
    <3> QED BY <2>1, <2>2, <2>3, <3>1 DEF Placed, Held
  <2>4. CASE ~Held(g)
    <3>1. HolderOf(g) \in {"lost", "nobody"}
      BY <2>1, <2>4 DEF Placed
    <3> QED BY <2>2, <3>1
  <2> QED BY <2>3, <2>4
<1>9. \E v \in Workers : holder[f] = "queue" /\ holder'[f] = v /\ \A g \in Fds : holder[g] # v
  BY <1>6, <1>7
<1> HIDE DEF q
<1> QED BY <1>5, <1>9, OneMoves

\* A worker gives its connection back to the kernel.
LEMMA ModHands ==
  ASSUME IInv, IInv', NEW w \in Workers, ModIn(w) \/ ModOut(w)
  PROVE  [Ownership!Next]_holder
<1>0. PICK f \in Fds : f = cur[w]
  BY DEF IInv, TypeOK, Threads, PlaceInv, ModIn, ModOut
<1>1. /\ f # NoFd /\ w # Main /\ w \in Threads /\ Main \in Threads
      /\ WorkerHas(w, f) /\ WorkersHave(f)
  BY <1>0, ServerAssumption DEF Threads, WorkersHave, WorkerHas
<1>h. /\ f \in open /\ m_sockfd[f] = f /\ cur[Main] # f
      /\ \A v \in Workers : cur[v] = f => v = w
  BY <1>0, <1>1 DEF IInv, OpenInv, OneHolder, ReactorHas, WorkerHas
<1>2. PICK ev \in {"in", "out"} : armed' = [armed EXCEPT ![f] = ev]
  BY <1>0, <1>h DEF ModIn, ModOut, ModFd, Usable
<1>3. /\ cur' = [cur EXCEPT ![w] = NoFd] /\ pc' = [pc EXCEPT ![w] = "idle"]
      /\ UNCHANGED <<open, events, m_workqueue>>
  BY DEF ModIn, ModOut, Goto, batch
<1>t. /\ cur \in [Threads -> Fds \cup {NoFd}] /\ pc \in [Threads -> Places]
      /\ armed \in [Fds -> {"off", "in", "out"}]
  BY DEF IInv, TypeOK
<1>4. \A g \in Fds \ {f} : Keeps(g)
  <2> SUFFICES ASSUME NEW g \in Fds \ {f} PROVE Keeps(g)
    OBVIOUS
  <2>1. armed'[g] = armed[g] /\ cur'[Main] = cur[Main] /\ pc'[Main] = pc[Main]
    BY <1>1, <1>2, <1>3, <1>t
  <2>2. \A v \in Workers : WorkerHas(v, g)' <=> WorkerHas(v, g)
    BY <1>0, <1>1, <1>3, <1>t, ServerAssumption DEF WorkerHas, Threads
  <2>3. QueueHas(g)' <=> QueueHas(g)
    BY <1>3 DEF QueueHas
  <2> QED BY <1>3, <2>1, <2>2, <2>3 DEF Keeps, KernelHas, ReactorHas, InInit
<1>5. WorkerHas(w, f) /\ KernelHas(f)'
  <2>1. armed'[f] # "off" /\ cur'[Main] # f
    BY <1>1, <1>2, <1>3, <1>h, <1>t
  <2> QED BY <1>1, <2>1 DEF KernelHas, InInit
<1>6. holder[f] = w /\ holder'[f] = "kernel"
  BY <1>5, HolderValues, HolderValuesNext DEF Placed, holder
<1> QED BY <1>4, <1>5, <1>6, OneMoves

\* The end of close_conn(): nobody has the connection.
LEMMA CloseCountHands ==
  ASSUME IInv, IInv', CloseCount(Main)
  PROVE  [Ownership!Next]_holder
<1>0. PICK f \in Fds : f = cur[Main]
  BY DEF IInv, TypeOK, Threads, PlaceInv, CloseCount
<1>1. f \notin open /\ f # NoFd /\ UNCHANGED <<open, armed, events, m_workqueue>>
      /\ cur' = [cur EXCEPT ![Main] = NoFd] /\ pc' = [pc EXCEPT ![Main] = "loop"] /\ pc[Main] = "count"
  BY <1>0, ServerAssumption DEF IInv, OpenInv, CloseCount, AfterClose, Goto, epoll, batch
<1>2. \A g \in Fds \ {f} : Keeps(g)
  BY <1>0, <1>1, ServerAssumption DEF IInv, TypeOK, Threads, Keeps, KernelHas, ReactorHas, QueueHas, WorkerHas, InInit
<1>3. ReactorHas(f) /\ f \notin open' /\ cur'[Main] # f
  BY <1>0, <1>1 DEF ReactorHas, IInv, TypeOK, Threads
<1>4. holder[f] = "reactor" /\ holder'[f] = "nobody"
  <2>1. Placed /\ Placed'
    BY HolderValues, HolderValuesNext
  <2>2. ~Held(f)'
    BY <1>3, <2>1 DEF Placed
  <2> QED BY <1>3, <2>1, <2>2 DEF Placed, holder
<1> QED BY <1>2, <1>3, <1>4, OneMoves

\* Each step hands over as ConnOwnership says.
LEMMA StepHands == RequestsFit /\ IInv /\ IInv' /\ [Next]_vars => [Ownership!Next]_holder
<1> SUFFICES ASSUME RequestsFit, IInv, IInv', [Next]_vars
             PROVE  [Ownership!Next]_holder
  OBVIOUS
<1>0. IInv'
  OBVIOUS
<1>1. CASE Clients
  <2>1. \A g \in Fds : Keeps(g)
    BY <1>1, ConnectHands, SendHands, DrainHands, HangUpHands DEF Clients
  <2> QED BY <1>0, <2>1, AllKept
<1>2. CASE Reactor
  <2>1. CASE BatchDone \/ AcceptFails \/ AcceptBusy
             \/ \E f \in Fds : HandleHup(f) \/ ReadData(f) \/ ReadFails(f) \/ WriteFails(f)
    <3>1. \A g \in Fds : Keeps(g)
      BY <2>1, BatchDoneHands, AcceptFailsHands, AcceptBusyHands, HandleHupHands, ReadDataHands,
         ReadFailsHands, WriteFailsHands
    <3> QED BY <1>0, <3>1, AllKept
  <2>2. CASE EpollWait
    BY <1>0, <2>2, EpollWaitHands
  <2>3. CASE InitConn
    BY <1>0, <2>3, InitConnHands
  <2>4. CASE AppendTask
    BY <1>0, <2>4, AppendTaskHands
  <2>5. ASSUME NEW f \in Fds, AcceptConn(f) \/ WriteAll(f) \/ WriteBlocked(f)
        PROVE  [Ownership!Next]_holder
    BY <1>0, <2>5, AcceptConnHands, WriteAllHands, WriteBlockedHands
  <2> QED BY <1>2, <2>1, <2>2, <2>3, <2>4, <2>5, NeverBlocked DEF Reactor
<1>3. ASSUME NEW w \in Workers, Take(w) \/ Process(w)
      PROVE  [Ownership!Next]_holder
  <2>1. CASE Take(w)
    BY <1>0, <2>1, TakeHands
  <2>2. CASE ParseIncomplete(w) \/ ParseComplete(w) \/ AddResponse(w)
    <3>1. \A g \in Fds : Keeps(g)
      BY <2>2, ParseIncompleteHands, ParseCompleteHands, AddResponseHands
    <3> QED BY <1>0, <3>1, AllKept
  <2>3. CASE ModIn(w) \/ ModOut(w)
    BY <1>0, <2>3, ModHands
  <2> QED BY <1>3, <2>1, <2>2, <2>3 DEF Process
<1>4. ASSUME NEW t \in Threads, CloseConn(t)
      PROVE  [Ownership!Next]_holder
  <2>1. CloseConn(Main)
    BY <1>4, WorkersNeverClose
  <2>2. CASE CloseRemove(Main) \/ CloseForget(Main)
    <3>1. \A g \in Fds : Keeps(g)
      BY <2>2, CloseRemoveHands, CloseForgetHands
    <3> QED BY <1>0, <3>1, AllKept
  <2>3. CASE CloseCount(Main)
    BY <1>0, <2>3, CloseCountHands
  <2> QED BY <2>1, <2>2, <2>3 DEF CloseConn
<1>5. CASE UNCHANGED vars
  <2>1. \A g \in Fds : Keeps(g)
    BY <1>5 DEF vars, client, epoll, batch, conn, place, count, Keeps, KernelHas, ReactorHas, QueueHas, WorkerHas, InInit
  <2> QED BY <1>0, <2>1, AllKept
<1> QED BY <1>1, <1>2, <1>3, <1>4, <1>5 DEF Next

\* In the initial state no connection is open.
LEMMA InitHands == Init => Ownership!Init
<1> SUFFICES ASSUME Init PROVE Ownership!Init
  OBVIOUS
<1>1. open = {} /\ \A f \in Fds : cur[Main] # f
  BY ServerAssumption DEF Init, Threads
<1>2. \A f \in Fds : holder[f] = "nobody"
  BY <1>1, InitIInv, HolderValues DEF Placed, holder
<1>3. holder = [f \in Fds |-> "nobody"]
  <2>1. holder = [f \in Fds |-> holder[f]]
    BY DEF holder
  <2> QED BY <1>2, <2>1
<1> QED BY <1>3 DEF Ownership!Init

\* The server hands its connections over as ConnOwnership says: the safety part of
\* ImplementsOwnership, for all numbers of connections and workers and every length of
\* the queue.  A connection is lost only where append() refuses it (main.cpp:135).
THEOREM ServerHandsOver ==
  ASSUME RequestsFit
  PROVE  Spec => Ownership!Init /\ [][Ownership!Next]_holder
<1>1. IInv /\ IInv' /\ [Next]_vars => [Ownership!Next]_holder
  BY StepHands
<1> QED BY <1>1, InitHands, ServerInvariant, PTL DEF Spec
==============================================================================
