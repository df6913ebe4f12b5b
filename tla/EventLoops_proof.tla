----------------------------- MODULE EventLoops_proof -----------------------------
(* Theorems about EventLoops, for any number of connections, texts of any length *)
(* and buffers of any size.                                                      *)
EXTENDS EventLoops, FiniteSetTheorems, TLAPS

\* The connections that wait and those that are open have a descriptor each; a
\* descriptor that is not open has no history.
ConnInv == /\ backlog + Cardinality(open) <= Cardinality(Fds)
           /\ \A f \in Fds \ open : unread[f] = 0

\* Where the batch is empty, and what its events stand for.
BatchInv == /\ pc = "wait" => ~acceptEvent /\ ~udpEvent /\ \A f \in Fds : ~events[f]
            /\ acceptEvent => backlog > 0
            /\ pc = "accept" => program = "echo" /\ ~acceptEvent
            /\ pc = "recv" => program # "lt"
            /\ program = "lt" => \A f \in Fds : events[f] => Input(f)

\* Input is still to be reported, or in the batch, or being read; likewise
\* datagrams, and the connections of the echo server.
InputInv ==
  pc # "killed" =>
    /\ \A f \in open : Input(f) => Triggered(f) \/ events[f] \/ cur = f
    /\ udpq > 0 => udpEdge \/ udpEvent \/ pc = "udp"
    /\ program = "echo" /\ backlog > 0 => edge \/ acceptEvent \/ pc = "accept"

IInv == TypeOK /\ ConnInv /\ BatchInv /\ InputInv


\* The number of connections before and after an accept() or a close().
LEMMA OpenFinite ==
  ASSUME LoopsAssumption, TypeOK
  PROVE  /\ IsFiniteSet(open) /\ Cardinality(open) \in Nat /\ Cardinality(Fds) \in Nat
         /\ \A f \in Fds : Cardinality(open \cup {f}) = IF f \in open THEN Cardinality(open) ELSE Cardinality(open) + 1
         /\ \A f \in Fds : Cardinality(open \ {f}) <= Cardinality(open) /\ Cardinality(open \ {f}) \in Nat
<1>1. open \subseteq Fds /\ IsFiniteSet(Fds)
  BY DEF LoopsAssumption, TypeOK
<1>2. IsFiniteSet(open) /\ Cardinality(open) \in Nat /\ Cardinality(Fds) \in Nat
  BY <1>1, FS_Subset, FS_CardinalityType
<1>3. ASSUME NEW f \in Fds PROVE Cardinality(open \cup {f}) = IF f \in open THEN Cardinality(open) ELSE Cardinality(open) + 1
  BY <1>2, FS_AddElement
<1>4. ASSUME NEW f \in Fds PROVE Cardinality(open \ {f}) <= Cardinality(open) /\ Cardinality(open \ {f}) \in Nat
  <2>1. IsFiniteSet(open \ {f})
    BY <1>2, FS_RemoveElement
  <2>2. Cardinality(open \ {f}) = IF f \in open THEN Cardinality(open) - 1 ELSE Cardinality(open)
    BY <1>2, FS_RemoveElement
  <2>3. Cardinality(open \ {f}) \in Nat
    BY <2>1, FS_CardinalityType
  <2> QED BY <1>2, <2>2, <2>3
<1> QED BY <1>2, <1>3, <1>4

\* A client connects.
LEMMA ConnectKeeps ==
  ASSUME LoopsAssumption, IInv, Connect
  PROVE  IInv'
<1> USE OpenFinite DEF LoopsAssumption, IInv, Connect, ClientStep, listen, udp, client, batch, place, vars
<1>1. TypeOK'
  BY DEF TypeOK, ConnInv, BatchInv, Input
<1>2. ConnInv'
  BY DEF TypeOK, ConnInv, BatchInv, Input
<1>3. BatchInv'
  BY DEF TypeOK, ConnInv, BatchInv, Input
<1>4. InputInv'
  BY DEF TypeOK, ConnInv, BatchInv, InputInv, Input, Triggered
<1> QED BY <1>1, <1>2, <1>3, <1>4

\* A datagram comes.
LEMMA SendDatagramKeeps ==
  ASSUME LoopsAssumption, IInv, SendDatagram
  PROVE  IInv'
<1> USE OpenFinite DEF LoopsAssumption, IInv, SendDatagram, ClientStep, listen, udp, client, batch, place, vars
<1>1. TypeOK'
  BY DEF TypeOK, ConnInv, BatchInv, Input
<1>2. ConnInv'
  BY DEF TypeOK, ConnInv, BatchInv, Input
<1>3. BatchInv'
  BY DEF TypeOK, ConnInv, BatchInv, Input
<1>4. InputInv'
  BY DEF TypeOK, ConnInv, BatchInv, InputInv, Input, Triggered
<1> QED BY <1>1, <1>2, <1>3, <1>4

\* A client says something.
LEMMA SayKeeps ==
  ASSUME LoopsAssumption, IInv, NEW f \in Fds, Say(f)
  PROVE  IInv'
<1> USE OpenFinite DEF LoopsAssumption, IInv, Say, ClientStep, listen, udp, client, batch, place, vars
<1>1. TypeOK'
  BY DEF TypeOK, ConnInv, BatchInv, Input
<1>2. ConnInv'
  BY DEF TypeOK, ConnInv, BatchInv, Input
<1>3. BatchInv'
  BY DEF TypeOK, ConnInv, BatchInv, Input
<1>4. InputInv'
  BY DEF TypeOK, ConnInv, BatchInv, InputInv, Input, Triggered
<1> QED BY <1>1, <1>2, <1>3, <1>4

\* A client leaves.
LEMMA LeaveKeeps ==
  ASSUME LoopsAssumption, IInv, NEW f \in Fds, Leave(f)
  PROVE  IInv'
<1> USE OpenFinite DEF LoopsAssumption, IInv, Leave, ClientStep, listen, udp, client, batch, place, vars
<1>1. TypeOK'
  BY DEF TypeOK, ConnInv, BatchInv, Input
<1>2. ConnInv'
  BY DEF TypeOK, ConnInv, BatchInv, Input
<1>3. BatchInv'
  BY DEF TypeOK, ConnInv, BatchInv, Input
<1>4. InputInv'
  BY DEF TypeOK, ConnInv, BatchInv, InputInv, Input, Triggered
<1> QED BY <1>1, <1>2, <1>3, <1>4

\* epoll_wait() moves what is ready into the batch.
LEMMA EpollWaitKeeps ==
  ASSUME LoopsAssumption, IInv, EpollWait
  PROVE  IInv'
<1>1. TypeOK'
  <2>1. events' \in [Fds -> BOOLEAN] /\ readable' \in [Fds -> BOOLEAN]
    BY DEF EpollWait
  <2>2. acceptEvent' \in BOOLEAN /\ udpEvent' \in BOOLEAN /\ edge' \in BOOLEAN /\ udpEdge' \in BOOLEAN
    BY DEF EpollWait, ListenReady, UdpReady, IInv, TypeOK
  <2>3. /\ UNCHANGED <<program, backlog, udpq, open, client>>
        /\ pc' = "loop" /\ cur' = NoFd
    BY DEF EpollWait, Goto
  <2> QED BY <2>1, <2>2, <2>3 DEF IInv, TypeOK, client
<1> USE OpenFinite DEF LoopsAssumption, IInv, EpollWait, Goto, Ready, ListenReady, UdpReady, listen, udp, client, batch, place, vars
<1>2. ConnInv'
  BY DEF TypeOK, ConnInv, BatchInv, Input
<1>3. BatchInv'
  BY DEF TypeOK, ConnInv, BatchInv, Input
<1>4. InputInv'
  BY DEF TypeOK, ConnInv, BatchInv, InputInv, Input, Triggered
<1> QED BY <1>1, <1>2, <1>3, <1>4

\* The batch is done.
LEMMA BatchDoneKeeps ==
  ASSUME LoopsAssumption, IInv, BatchDone
  PROVE  IInv'
<1> USE OpenFinite DEF LoopsAssumption, IInv, BatchDone, Goto, listen, udp, client, batch, place, vars
<1>1. TypeOK'
  BY DEF TypeOK, ConnInv, BatchInv, Input
<1>2. ConnInv'
  BY DEF TypeOK, ConnInv, BatchInv, Input
<1>3. BatchInv'
  BY DEF TypeOK, ConnInv, BatchInv, Input
<1>4. InputInv'
  BY DEF TypeOK, ConnInv, BatchInv, InputInv, Input, Triggered
<1> QED BY <1>1, <1>2, <1>3, <1>4

\* The echo server begins to accept: what the event stood for is now its own.
LEMMA AcceptStartKeeps ==
  ASSUME LoopsAssumption, IInv, AcceptStart
  PROVE  IInv'
<1> USE OpenFinite DEF LoopsAssumption, IInv, AcceptStart, Goto, ConnStep, AcceptTaken, listen, udp, client, batch, place, vars
<1>1. TypeOK'
  BY DEF TypeOK, ConnInv, BatchInv, Input
<1>2. ConnInv'
  BY DEF TypeOK, ConnInv, BatchInv, Input
<1>3. BatchInv'
  BY DEF TypeOK, ConnInv, BatchInv, Input
<1>4. InputInv'
  BY DEF TypeOK, ConnInv, BatchInv, InputInv, Input, Triggered
<1> QED BY <1>1, <1>2, <1>3, <1>4

\* accept() has found nobody: no connection is left to report.
LEMMA AcceptEndsKeeps ==
  ASSUME LoopsAssumption, IInv, AcceptEnds
  PROVE  IInv'
<1> USE OpenFinite DEF LoopsAssumption, IInv, AcceptEnds, Goto, ConnStep, listen, udp, client, batch, place, vars
<1>1. TypeOK'
  BY DEF TypeOK, ConnInv, BatchInv, Input
<1>2. ConnInv'
  BY DEF TypeOK, ConnInv, BatchInv, Input
<1>3. BatchInv'
  BY DEF TypeOK, ConnInv, BatchInv, Input
<1>4. InputInv'
  BY DEF TypeOK, ConnInv, BatchInv, InputInv, Input, Triggered
<1> QED BY <1>1, <1>2, <1>3, <1>4

\* The echo server begins to read datagrams.
LEMMA UdpStartKeeps ==
  ASSUME LoopsAssumption, IInv, UdpStart
  PROVE  IInv'
<1> USE OpenFinite DEF LoopsAssumption, IInv, UdpStart, Goto, ConnStep, listen, udp, client, batch, place, vars
<1>1. TypeOK'
  BY DEF TypeOK, ConnInv, BatchInv, Input
<1>2. ConnInv'
  BY DEF TypeOK, ConnInv, BatchInv, Input
<1>3. BatchInv'
  BY DEF TypeOK, ConnInv, BatchInv, Input
<1>4. InputInv'
  BY DEF TypeOK, ConnInv, BatchInv, InputInv, Input, Triggered
<1> QED BY <1>1, <1>2, <1>3, <1>4

\* recvfrom() takes a datagram.
LEMMA RecvFromKeeps ==
  ASSUME LoopsAssumption, IInv, RecvFrom
  PROVE  IInv'
<1> USE OpenFinite DEF LoopsAssumption, IInv, RecvFrom, listen, udp, client, batch, place, vars
<1>1. TypeOK'
  BY DEF TypeOK, ConnInv, BatchInv, Input
<1>2. ConnInv'
  BY DEF TypeOK, ConnInv, BatchInv, Input
<1>3. BatchInv'
  BY DEF TypeOK, ConnInv, BatchInv, Input
<1>4. InputInv'
  BY DEF TypeOK, ConnInv, BatchInv, InputInv, Input, Triggered
<1> QED BY <1>1, <1>2, <1>3, <1>4

\* recvfrom() has found nothing: no datagram is left to report.
LEMMA UdpEndsKeeps ==
  ASSUME LoopsAssumption, IInv, UdpEnds
  PROVE  IInv'
<1> USE OpenFinite DEF LoopsAssumption, IInv, UdpEnds, Goto, ConnStep, listen, udp, client, batch, place, vars
<1>1. TypeOK'
  BY DEF TypeOK, ConnInv, BatchInv, Input
<1>2. ConnInv'
  BY DEF TypeOK, ConnInv, BatchInv, Input
<1>3. BatchInv'
  BY DEF TypeOK, ConnInv, BatchInv, Input
<1>4. InputInv'
  BY DEF TypeOK, ConnInv, BatchInv, InputInv, Input, Triggered
<1> QED BY <1>1, <1>2, <1>3, <1>4

\* et() reads a part of the input and goes on.
LEMMA EtRecvKeeps ==
  ASSUME LoopsAssumption, IInv, EtRecv
  PROVE  IInv'
<1> USE OpenFinite DEF LoopsAssumption, IInv, EtRecv, RecvStep, ConnStep, ReadSome, Received, ReadOn, listen, udp, client, batch, place, vars
<1>1. TypeOK'
  BY DEF TypeOK, ConnInv, BatchInv, Input
<1>2. ConnInv'
  BY DEF TypeOK, ConnInv, BatchInv, Input
<1>3. BatchInv'
  BY DEF TypeOK, ConnInv, BatchInv, Input
<1>4. InputInv'
  BY DEF TypeOK, ConnInv, BatchInv, InputInv, Input, Triggered
<1> QED BY <1>1, <1>2, <1>3, <1>4

\* The echo server reads a part of the input and goes on, or is killed.
LEMMA EchoRecvKeeps ==
  ASSUME LoopsAssumption, IInv, EchoRecv
  PROVE  IInv'
<1> USE OpenFinite DEF LoopsAssumption, IInv, EchoRecv, RecvStep, ConnStep, ReadSome, Received, ReadOn, Goto, listen, udp, client, batch, place, vars
<1>1. TypeOK'
  BY DEF TypeOK, ConnInv, BatchInv, Input
<1>2. ConnInv'
  BY DEF TypeOK, ConnInv, BatchInv, Input
<1>3. BatchInv'
  BY DEF TypeOK, ConnInv, BatchInv, Input
<1>4. InputInv'
  BY DEF TypeOK, ConnInv, BatchInv, InputInv, Input, Triggered
<1> QED BY <1>1, <1>2, <1>3, <1>4

\* recv() has found nothing: no input is left to report.
LEMMA RecvAgainKeeps ==
  ASSUME LoopsAssumption, IInv, RecvAgain
  PROVE  IInv'
<1> USE OpenFinite DEF LoopsAssumption, IInv, RecvAgain, RecvStep, ConnStep, Goto, listen, udp, client, batch, place, vars
<1>1. TypeOK'
  BY DEF TypeOK, ConnInv, BatchInv, Input
<1>2. ConnInv'
  BY DEF TypeOK, ConnInv, BatchInv, Input
<1>3. BatchInv'
  BY DEF TypeOK, ConnInv, BatchInv, Input
<1>4. InputInv'
  BY DEF TypeOK, ConnInv, BatchInv, InputInv, Input, Triggered
<1> QED BY <1>1, <1>2, <1>3, <1>4

\* The end of the stream: the connection is forgotten altogether.
LEMMA RecvEndKeeps ==
  ASSUME LoopsAssumption, IInv, RecvEnd
  PROVE  IInv'
<1> USE OpenFinite DEF LoopsAssumption, IInv, RecvEnd, RecvStep, ConnStep, Goto, Close, listen, udp, client, batch, place, vars
<1>1. TypeOK'
  BY DEF TypeOK, ConnInv, BatchInv, Input
<1>2. ConnInv'
  BY DEF TypeOK, ConnInv, BatchInv, Input
<1>3. BatchInv'
  BY DEF TypeOK, ConnInv, BatchInv, Input
<1>4. InputInv'
  BY DEF TypeOK, ConnInv, BatchInv, InputInv, Input, Triggered
<1> QED BY <1>1, <1>2, <1>3, <1>4

\* So it is by the echo server, which goes on to read.
LEMMA EchoEofKeeps ==
  ASSUME LoopsAssumption, IInv, EchoEof
  PROVE  IInv'
<1> USE OpenFinite DEF LoopsAssumption, IInv, EchoEof, RecvStep, ConnStep, Close, listen, udp, client, batch, place, vars
<1>1. TypeOK'
  BY DEF TypeOK, ConnInv, BatchInv, Input
<1>2. ConnInv'
  BY DEF TypeOK, ConnInv, BatchInv, Input
<1>3. BatchInv'
  BY DEF TypeOK, ConnInv, BatchInv, Input
<1>4. InputInv'
  BY DEF TypeOK, ConnInv, BatchInv, InputInv, Input, Triggered
<1> QED BY <1>1, <1>2, <1>3, <1>4

\* It meets EBADF then, and goes back to its batch.
LEMMA EchoBadFdKeeps ==
  ASSUME LoopsAssumption, IInv, EchoBadFd
  PROVE  IInv'
<1> USE OpenFinite DEF LoopsAssumption, IInv, EchoBadFd, RecvStep, ConnStep, Goto, listen, udp, client, batch, place, vars
<1>1. TypeOK'
  BY DEF TypeOK, ConnInv, BatchInv, Input
<1>2. ConnInv'
  BY DEF TypeOK, ConnInv, BatchInv, Input
<1>3. BatchInv'
  BY DEF TypeOK, ConnInv, BatchInv, Input
<1>4. InputInv'
  BY DEF TypeOK, ConnInv, BatchInv, InputInv, Input, Triggered
<1> QED BY <1>1, <1>2, <1>3, <1>4

\* lt() and et() accept one connection; what its client has said is marked as readable.
LEMMA AcceptOneKeeps ==
  ASSUME LoopsAssumption, IInv, NEW f \in Fds, AcceptOne(f)
  PROVE  IInv'
<1> USE OpenFinite DEF LoopsAssumption, IInv, AcceptOne, AcceptConn, AddFd, AcceptTaken, listen, udp, client, batch, place, vars
<1>1. TypeOK'
  <2>1. PICK n \in 0..MaxText : unread' = [unread EXCEPT ![f] = n]
    OBVIOUS
  <2>2. PICK how \in {"no", "closed", "reset"} : gone' = [gone EXCEPT ![f] = how]
    OBVIOUS
  <2>3. /\ unread' \in [Fds -> 0..MaxText] /\ gone' \in [Fds -> {"no", "closed", "reset"}]
        /\ readable' \in [Fds -> BOOLEAN] /\ acceptEvent' \in BOOLEAN
    BY <2>1, <2>2 DEF TypeOK
  <2>4. backlog' \in 0..Cardinality(Fds) /\ open' \in SUBSET Fds
    BY DEF TypeOK, ConnInv
  <2>5. UNCHANGED <<program, edge, udpq, udpEdge, events, udpEvent, pc, cur>>
    OBVIOUS
  <2> QED BY <2>3, <2>4, <2>5 DEF TypeOK
<1>2. ConnInv'
  BY DEF TypeOK, ConnInv, BatchInv, Input
<1>3. BatchInv'
  BY DEF TypeOK, ConnInv, BatchInv, Input
<1>4. InputInv'
  BY DEF TypeOK, ConnInv, BatchInv, InputInv, Input, Triggered
<1> QED BY <1>1, <1>2, <1>3, <1>4

\* So does the echo server, as often as there is one.
LEMMA AcceptEachKeeps ==
  ASSUME LoopsAssumption, IInv, NEW f \in Fds, AcceptEach(f)
  PROVE  IInv'
<1> USE OpenFinite DEF LoopsAssumption, IInv, AcceptEach, AcceptConn, AddFd, AcceptNext, listen, udp, client, batch, place, vars
<1>1. TypeOK'
  BY DEF TypeOK, ConnInv, BatchInv, Input
<1>2. ConnInv'
  BY DEF TypeOK, ConnInv, BatchInv, Input
<1>3. BatchInv'
  BY DEF TypeOK, ConnInv, BatchInv, Input
<1>4. InputInv'
  BY DEF TypeOK, ConnInv, BatchInv, InputInv, Input, Triggered
<1> QED BY <1>1, <1>2, <1>3, <1>4

\* lt() reads a part of the input: epoll reports the rest again.
LEMMA LtRecvKeeps ==
  ASSUME LoopsAssumption, IInv, NEW f \in Fds, LtRecv(f)
  PROVE  IInv'
<1> USE OpenFinite DEF LoopsAssumption, IInv, LtRecv, TakeEvent, EventDone, ConnStep, ReadSome, Received, listen, udp, client, batch, place, vars
<1>1. TypeOK'
  BY DEF TypeOK, ConnInv, BatchInv, Input
<1>2. ConnInv'
  BY DEF TypeOK, ConnInv, BatchInv, Input
<1>3. BatchInv'
  BY DEF TypeOK, ConnInv, BatchInv, Input
<1>4. InputInv'
  BY DEF TypeOK, ConnInv, BatchInv, InputInv, Input, Triggered
<1> QED BY <1>1, <1>2, <1>3, <1>4

\* lt() closes the connection.
LEMMA LtEndKeeps ==
  ASSUME LoopsAssumption, IInv, NEW f \in Fds, LtEnd(f)
  PROVE  IInv'
<1> USE OpenFinite DEF LoopsAssumption, IInv, LtEnd, TakeEvent, ConnStep, Close, listen, udp, client, batch, place, vars
<1>1. TypeOK'
  BY DEF TypeOK, ConnInv, BatchInv, Input
<1>2. ConnInv'
  BY DEF TypeOK, ConnInv, BatchInv, Input
<1>3. BatchInv'
  BY DEF TypeOK, ConnInv, BatchInv, Input
<1>4. InputInv'
  BY DEF TypeOK, ConnInv, BatchInv, InputInv, Input, Triggered
<1> QED BY <1>1, <1>2, <1>3, <1>4

\* et() and the echo server begin to read what an event stands for.
LEMMA RecvStartKeeps ==
  ASSUME LoopsAssumption, IInv, NEW f \in Fds, RecvStart(f)
  PROVE  IInv'
<1> USE OpenFinite DEF LoopsAssumption, IInv, RecvStart, TakeEvent, ConnStep, Goto, listen, udp, client, batch, place, vars
<1>1. TypeOK'
  BY DEF TypeOK, ConnInv, BatchInv, Input
<1>2. ConnInv'
  BY DEF TypeOK, ConnInv, BatchInv, Input
<1>3. BatchInv'
  BY DEF TypeOK, ConnInv, BatchInv, Input
<1>4. InputInv'
  BY DEF TypeOK, ConnInv, BatchInv, InputInv, Input, Triggered
<1> QED BY <1>1, <1>2, <1>3, <1>4

\* Nothing has come yet.
LEMMA InitHolds == ASSUME LoopsAssumption, Init PROVE IInv
<1>1. Cardinality(open) = 0 /\ Cardinality(Fds) \in Nat
  BY FS_EmptySet, FS_CardinalityType DEF LoopsAssumption, Init
<1>2. TypeOK
  <2>1. /\ 0 \in 0..MaxText /\ 0 \in 0..MaxUdp /\ 0 \in 0..Cardinality(Fds) /\ {} \in SUBSET Fds
        /\ 0 \in 0..0
    BY <1>1 DEF LoopsAssumption
  <2>2. /\ unread \in [Fds -> 0..MaxText] /\ gone \in [Fds -> {"no", "closed", "reset"}]
        /\ readable \in [Fds -> BOOLEAN] /\ events \in [Fds -> BOOLEAN]
    BY <2>1 DEF Init
  <2>3. edge \in BOOLEAN /\ udpEdge \in BOOLEAN /\ acceptEvent \in BOOLEAN /\ udpEvent \in BOOLEAN
    BY DEF Init
  <2> QED BY <2>1, <2>2, <2>3 DEF Init, TypeOK
<1>3. ConnInv
  BY <1>1 DEF Init, ConnInv
<1>4. BatchInv /\ InputInv
  BY DEF Init, BatchInv, InputInv, Input
<1> QED BY <1>2, <1>3, <1>4 DEF IInv

\* Stuttering changes nothing.
LEMMA StutterKeeps == ASSUME IInv, UNCHANGED vars PROVE IInv'
  BY DEF IInv, TypeOK, ConnInv, BatchInv, InputInv, Input, Triggered,
         vars, listen, udp, client, batch, place

\* Every step keeps IInv.
LEMMA NextKeeps == ASSUME LoopsAssumption, IInv, [Next]_vars PROVE IInv'
<1>1. CASE Next
  BY <1>1, ConnectKeeps, SendDatagramKeeps, SayKeeps, LeaveKeeps, EpollWaitKeeps,
     BatchDoneKeeps, AcceptStartKeeps, AcceptEndsKeeps, UdpStartKeeps, RecvFromKeeps,
     UdpEndsKeeps, EtRecvKeeps, EchoRecvKeeps, RecvAgainKeeps, RecvEndKeeps,
     EchoEofKeeps, EchoBadFdKeeps, AcceptOneKeeps, AcceptEachKeeps, LtRecvKeeps,
     LtEndKeeps, RecvStartKeeps
     DEF Next, Server
<1> QED BY <1>1, StutterKeeps

-----------------------------------------------------------------------------
(* Theorems *)

\* IInv holds in every state.
THEOREM LoopsInvariant == ASSUME LoopsAssumption PROVE Spec => []IInv
<1>1. Init => IInv
  BY InitHolds
<1>2. IInv /\ [Next]_vars => IInv'
  BY NextKeeps
<1> QED BY <1>1, <1>2, PTL DEF Spec

\* When main() goes to sleep, epoll will report all the input that is left.
LEMMA SleepsWell == LoopsAssumption /\ IInv => NothingForgotten
<1> SUFFICES ASSUME LoopsAssumption, IInv, pc = "wait"
             PROVE  /\ \A f \in open : Input(f) => f \in Ready
                    /\ udpq > 0 => UdpReady
                    /\ program = "echo" /\ backlog > 0 => ListenReady
  BY DEF NothingForgotten
<1>1. cur = NoFd /\ ~acceptEvent /\ ~udpEvent /\ \A f \in Fds : ~events[f]
  BY DEF IInv, TypeOK, BatchInv
<1>2. ASSUME NEW f \in open, Input(f) PROVE f \in Ready
  <2>1. f \in Fds /\ (cur = f => cur # NoFd)
    BY DEF IInv, TypeOK, LoopsAssumption
  <2> QED BY <1>1, <1>2, <2>1 DEF IInv, TypeOK, InputInv, Ready
<1> QED BY <1>1, <1>2 DEF IInv, InputInv, UdpReady, ListenReady

\* accept() is called when there is a connection.
LEMMA AcceptsOne == IInv => AcceptSucceeds
  BY DEF IInv, BatchInv, AcceptSucceeds

\* A step closes only a connection that its client has left: the event of lt() stood for
\* input, and it was not something to read.
LEMMA ClosesGone ==
  ASSUME IInv, [Next]_vars, NEW f \in open, f \notin open'
  PROVE  gone[f] # "no"
<1>1. CASE RecvEnd
  BY <1>1 DEF RecvEnd, Close
<1>2. CASE EchoEof
  BY <1>2 DEF EchoEof, Close
<1>3. ASSUME NEW g \in Fds, LtEnd(g) PROVE gone[f] # "no"
  <2>1. g = f /\ events[f] /\ program = "lt" /\ unread[f] = 0
    BY <1>3 DEF LtEnd, Close, TakeEvent
  <2> QED BY <2>1 DEF IInv, BatchInv, Input, TypeOK
<1>4. CASE UNCHANGED vars
  BY <1>4 DEF vars
<1>5. ASSUME NEW g \in Fds, AcceptOne(g) \/ AcceptEach(g) PROVE FALSE
  BY <1>5 DEF AcceptOne, AcceptEach, AcceptConn, AddFd
<1> QED
  BY <1>1, <1>2, <1>3, <1>4, <1>5 DEF Next, Server, Connect, SendDatagram, Say, Leave, ClientStep,
     EpollWait, BatchDone, AcceptStart, AcceptEnds, UdpStart, RecvFrom, UdpEnds, EtRecv, EchoRecv,
     RecvAgain, EchoBadFd, LtRecv, RecvStart

\* No connection is closed while its client is there, though lt() closes for EAGAIN too
\* and the echo server closes a descriptor twice.
THEOREM LoopsClosedOnlyWhenGone == ASSUME LoopsAssumption PROVE Spec => ClosedOnlyWhenGone
<1>1. IInv /\ [Next]_vars
        => [\A f \in Fds : f \in open /\ f \notin open' => gone[f] # "no"]_vars
  BY ClosesGone
<1> QED BY <1>1, LoopsInvariant, PTL DEF Spec, ClosedOnlyWhenGone
=================================================================================
