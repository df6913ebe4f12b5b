------------------------------- MODULE EventLoops -------------------------------
(****************************************************************************)
(* Three event loops of one thread that differ in how much they read for one  *)
(* event: lt() and et() of src/src/test_epoll/main.cpp, and the echo server of *)
(* src/src/handle_tcp_udp/main.cpp, which serves a UDP socket too.  listenfd   *)
(* is edge triggered in all of them, the connections in all but "lt".          *)
(*                                                                            *)
(* What a client says and does before it is accepted is chosen when accept()   *)
(* returns it.                                                                *)
(*                                                                            *)
(* pc: "wait"   in epoll_wait()      "loop"  in the for over the batch         *)
(*     "accept" in the loop of accept() (echo)                                 *)
(*     "udp"    in the loop of recvfrom() (echo)                               *)
(*     "recv"   in the loop of recv() on cur (et, echo)                        *)
(*     "killed" by SIGPIPE, which nobody ignores                               *)
(****************************************************************************)
EXTENDS Integers, Sequences, FiniteSets

CONSTANTS Fds,          \* descriptors of connections
          NoFd,
          Programs,     \* the loops to look at
          Chunk,        \* what recv() is given room for, in units
          MaxText,      \* bound: units of a client that have not been read
          MaxUdp        \* bound: datagrams under way

\* What the modules that use this one assume.
LoopsAssumption == /\ IsFiniteSet(Fds) /\ NoFd \notin Fds
                   /\ Programs \subseteq {"lt", "et", "echo"} /\ Programs # {}
                   /\ Chunk \in Nat \ {0}
                   /\ MaxText \in Nat \ {0} /\ MaxUdp \in Nat

VARIABLES program,
          backlog, edge,        \* edge: one came since listenfd was reported
          udpq, udpEdge,        \* datagrams under way; one came since udpfd was reported
          open,
          unread, gone,         \* of a connection: units not read, has the client left
          readable,             \* something came since the connection was reported
          events, acceptEvent, udpEvent,
          pc, cur

listen == <<backlog, edge>>
udp    == <<udpq, udpEdge>>
client == <<unread, gone>>
batch  == <<events, acceptEvent, udpEvent>>
place  == <<pc, cur>>
vars   == <<program, listen, udp, open, client, readable, batch, place>>

Init == /\ program \in Programs
        /\ backlog = 0 /\ edge = FALSE
        /\ udpq = 0 /\ udpEdge = FALSE
        /\ open = {}
        /\ unread = [f \in Fds |-> 0]
        /\ gone = [f \in Fds |-> "no"]
        /\ readable = [f \in Fds |-> FALSE]
        /\ events = [f \in Fds |-> FALSE] /\ acceptEvent = FALSE /\ udpEvent = FALSE
        /\ pc = "wait" /\ cur = NoFd

\* recv() on f would not return EAGAIN.
Input(f) == f \in open /\ (unread[f] > 0 \/ gone[f] # "no")

-----------------------------------------------------------------------------
(* The clients *)

ClientStep == UNCHANGED <<program, open, batch, place>>

\* Bound: descriptors do not run out.
Connect == /\ backlog + Cardinality(open) < Cardinality(Fds)
           /\ backlog' = backlog + 1
           /\ edge' = TRUE
           /\ UNCHANGED <<udp, client, readable>> /\ ClientStep

Say(f) == /\ f \in open /\ gone[f] = "no" /\ unread[f] < MaxText
          /\ unread' = [unread EXCEPT ![f] = @ + 1]
          /\ readable' = [readable EXCEPT ![f] = TRUE]
          /\ UNCHANGED <<listen, udp, gone>> /\ ClientStep

\* A client that has closed its socket answers what is sent to it with a reset.
Leave(f) == /\ f \in open
            /\ \/ gone[f] = "no" /\ gone' = [gone EXCEPT ![f] = "closed"]
               \/ gone[f] # "reset" /\ gone' = [gone EXCEPT ![f] = "reset"]
            /\ readable' = [readable EXCEPT ![f] = TRUE]
            /\ UNCHANGED <<listen, udp, unread>> /\ ClientStep

SendDatagram == /\ program = "echo"
                /\ udpq < MaxUdp
                /\ udpq' = udpq + 1
                /\ udpEdge' = TRUE
                /\ UNCHANGED <<listen, client, readable>> /\ ClientStep

-----------------------------------------------------------------------------
(* epoll.  A descriptor on the ready list is looked at again before it is      *)
(* reported.                                                                  *)

Triggered(f) == program = "lt" \/ readable[f]
Ready        == {f \in open : Triggered(f) /\ Input(f)}
ListenReady  == edge /\ backlog > 0
UdpReady     == udpEdge /\ udpq > 0

\* addfd(): a descriptor that is added is reported if there is input already.
AddFd(f) == /\ open' = open \cup {f}
            /\ readable' = [readable EXCEPT ![f] = TRUE]

Close(f) == /\ open' = open \ {f}
            /\ unread' = [unread EXCEPT ![f] = 0]
            /\ gone' = [gone EXCEPT ![f] = "no"]
            /\ readable' = [readable EXCEPT ![f] = FALSE]

Goto(to, fd) == pc' = to /\ cur' = fd

-----------------------------------------------------------------------------
(* main() *)

EpollWait ==
  /\ pc = "wait"
  /\ ListenReady \/ UdpReady \/ Ready # {}
  /\ events' = [f \in Fds |-> f \in Ready]
  /\ acceptEvent' = ListenReady
  /\ udpEvent' = UdpReady
  /\ edge' = FALSE /\ udpEdge' = FALSE
  /\ readable' = [f \in Fds |-> readable[f] /\ f \notin Ready]
  /\ Goto("loop", NoFd)
  /\ UNCHANGED <<program, backlog, udpq, open, client>>

BatchDone ==
  /\ pc = "loop"
  /\ ~acceptEvent /\ ~udpEvent /\ \A f \in Fds : ~events[f]
  /\ Goto("wait", NoFd)
  /\ UNCHANGED <<program, listen, udp, open, client, readable, batch>>

ConnStep == UNCHANGED <<program, listen, udp>>

\* accept() and addfd().
AcceptConn(f) ==
  /\ f \notin open /\ backlog > 0
  /\ backlog' = backlog - 1
  /\ AddFd(f)
  /\ \E n \in 0..MaxText : unread' = [unread EXCEPT ![f] = n]
  /\ \E how \in {"no", "closed", "reset"} : gone' = [gone EXCEPT ![f] = how]
  /\ UNCHANGED <<program, edge, udp, events, udpEvent>>

\* Mutant of AcceptTaken: accept() is called until it fails, and its result is not looked at.
AcceptNotTaken == acceptEvent' = TRUE

AcceptTaken == acceptEvent' = FALSE

\* lt() and et(): one accept() for an event.
AcceptOne(f) ==
  /\ pc = "loop" /\ acceptEvent /\ program # "echo"
  /\ AcceptConn(f)
  /\ AcceptTaken
  /\ UNCHANGED place

\* The echo server: accept() until EAGAIN.
AcceptStart ==
  /\ pc = "loop" /\ acceptEvent /\ program = "echo"
  /\ AcceptTaken
  /\ Goto("accept", NoFd)
  /\ UNCHANGED <<open, client, readable, events, udpEvent>> /\ ConnStep

\* Mutant of AcceptNext: the loop is left after one connection.
AcceptNoMore == Goto("loop", NoFd)

AcceptNext == UNCHANGED place

AcceptEach(f) ==
  /\ pc = "accept"
  /\ AcceptConn(f)
  /\ AcceptNext
  /\ UNCHANGED acceptEvent

AcceptEnds ==
  /\ pc = "accept" /\ backlog = 0
  /\ Goto("loop", NoFd)
  /\ UNCHANGED <<open, client, readable, batch>> /\ ConnStep

-----------------------------------------------------------------------------
(* The event of udpfd.  recvfrom() on it does not fail. *)

UdpStart ==
  /\ pc = "loop" /\ udpEvent
  /\ udpEvent' = FALSE
  /\ Goto("udp", NoFd)
  /\ UNCHANGED <<open, client, readable, events, acceptEvent>> /\ ConnStep

\* recvfrom(), and sendto() unless the datagram is empty, which leaves no trace here.
RecvFrom ==
  /\ pc = "udp" /\ udpq > 0
  /\ udpq' = udpq - 1
  /\ UNCHANGED <<program, listen, udpEdge, open, client, readable, batch, place>>

UdpEnds ==
  /\ pc = "udp" /\ udpq = 0
  /\ Goto("loop", NoFd)
  /\ UNCHANGED <<open, client, readable, batch>> /\ ConnStep

-----------------------------------------------------------------------------
(* The event of a connection *)

\* Mutant of EventDone: lt() reads in a loop, as et() does.
EventNotDone(f) == UNCHANGED events

\* lt() reads once for an event.
EventDone(f) == events' = [events EXCEPT ![f] = FALSE]

TakeEvent(f) ==
  /\ pc = "loop" /\ events[f]
  /\ UNCHANGED <<acceptEvent, udpEvent>> /\ ConnStep

Received(f) == IF unread[f] < Chunk THEN unread[f] ELSE Chunk

ReadSome(f) == unread' = [unread EXCEPT ![f] = @ - Received(f)]

LtRecv(f) ==
  /\ program = "lt"
  /\ TakeEvent(f)
  /\ EventDone(f)
  /\ unread[f] > 0
  /\ ReadSome(f)
  /\ UNCHANGED <<open, gone, readable, place>>

\* recv() returns 0 or -1.
LtEnd(f) ==
  /\ program = "lt"
  /\ TakeEvent(f)
  /\ events' = [events EXCEPT ![f] = FALSE]
  /\ unread[f] = 0
  /\ Close(f)
  /\ UNCHANGED place

RecvStart(f) ==
  /\ program # "lt"
  /\ TakeEvent(f)
  /\ events' = [events EXCEPT ![f] = FALSE]
  /\ Goto("recv", f)
  /\ UNCHANGED <<open, client, readable>>

RecvStep == pc = "recv" /\ UNCHANGED batch /\ ConnStep

\* Mutant of ReadOn: one recv() for an event, as in lt().
ReadNoMore == Goto("loop", NoFd)

ReadOn == UNCHANGED place

EtRecv ==
  /\ program = "et" /\ RecvStep
  /\ cur \in open /\ unread[cur] > 0
  /\ ReadSome(cur)
  /\ ReadOn
  /\ UNCHANGED <<open, gone, readable>>

\* recv() and send(), whose result nobody looks at: what the socket does not take
\* is lost, and SIGPIPE may come when the client has reset the connection.
EchoRecv ==
  /\ program = "echo" /\ RecvStep
  /\ cur \in open /\ unread[cur] > 0
  /\ ReadSome(cur)
  /\ \/ ReadOn
     \/ gone[cur] = "reset" /\ Goto("killed", NoFd)
  /\ UNCHANGED <<open, gone, readable>>

\* EAGAIN
RecvAgain ==
  /\ RecvStep
  /\ cur \in open /\ ~Input(cur)
  /\ Goto("loop", NoFd)
  /\ UNCHANGED <<open, client, readable>>

\* recv() returns 0 or an error: close() and break.
RecvEnd ==
  /\ RecvStep
  /\ cur \in open /\ unread[cur] = 0 /\ gone[cur] # "no"
  /\ program = "echo" => gone[cur] = "reset"
  /\ Close(cur)
  /\ Goto("loop", NoFd)

\* The echo server closes at the end of the stream, but stays in its loop.
EchoEof ==
  /\ program = "echo" /\ RecvStep
  /\ cur \in open /\ unread[cur] = 0 /\ gone[cur] = "closed"
  /\ Close(cur)
  /\ UNCHANGED place

\* There recv() fails with EBADF, and the descriptor, which nobody has been
\* given since, is closed once more.
EchoBadFd ==
  /\ program = "echo" /\ RecvStep
  /\ cur \notin open
  /\ Goto("loop", NoFd)
  /\ UNCHANGED <<open, client, readable>>

Server == \/ EpollWait
          \/ BatchDone
          \/ AcceptStart
          \/ AcceptEnds
          \/ UdpStart
          \/ RecvFrom
          \/ UdpEnds
          \/ EtRecv
          \/ EchoRecv
          \/ RecvAgain
          \/ RecvEnd
          \/ EchoEof
          \/ EchoBadFd
          \/ \E f \in Fds : \/ AcceptOne(f)
                            \/ AcceptEach(f)
                            \/ LtRecv(f)
                            \/ LtEnd(f)
                            \/ RecvStart(f)

Next == \/ Connect
        \/ SendDatagram
        \/ \E f \in Fds : Say(f) \/ Leave(f)
        \/ Server

Spec == Init /\ [][Next]_vars /\ WF_vars(Server)

-----------------------------------------------------------------------------

TypeOK == /\ program \in Programs
          /\ backlog \in 0..Cardinality(Fds) /\ edge \in BOOLEAN
          /\ udpq \in 0..MaxUdp /\ udpEdge \in BOOLEAN
          /\ open \in SUBSET Fds
          /\ unread \in [Fds -> 0..MaxText]
          /\ gone \in [Fds -> {"no", "closed", "reset"}]
          /\ readable \in [Fds -> BOOLEAN]
          /\ events \in [Fds -> BOOLEAN]
          /\ acceptEvent \in BOOLEAN /\ udpEvent \in BOOLEAN
          /\ pc \in {"wait", "loop", "accept", "udp", "recv", "killed"}
          /\ cur \in Fds \cup {NoFd} /\ (pc = "recv" <=> cur # NoFd)

(* When main() goes to sleep nothing is left that no event will report: with   *)
(* edge-triggered descriptors each handler has to take all there was, and the  *)
(* echo server takes the connections of listenfd in the same way.              *)
NothingForgotten ==
  pc = "wait" => /\ \A f \in open : Input(f) => f \in Ready
                 /\ udpq > 0 => UdpReady
                 /\ program = "echo" /\ backlog > 0 => ListenReady

(* lt() and et() do not look at what accept() returns: there is a connection   *)
(* each time they call it, although one event may stand for several.           *)
AcceptSucceeds == pc = "loop" /\ acceptEvent => backlog > 0

(* lt() closes for every result of recv() that is not positive, EAGAIN too, and *)
(* the echo server closes a descriptor twice: yet no connection is closed       *)
(* while its client is there.                                                  *)
ClosedOnlyWhenGone ==
  [][\A f \in Fds : f \in open /\ f \notin open' => gone[f] # "no"]_vars

\* Premise: again and again recvfrom() and recv() find nothing, so that their loops end.
Pauses == []<>(pc \notin {"udp", "recv"})

(* Who has said something is not passed over for ever, though others keep main() *)
(* busy: it is read, again and again if more comes all the time, until all is    *)
(* read, and leaving is answered with a close(), unless SIGPIPE ends the program. *)
InputIsServed ==
  Pauses => \A f \in Fds : \/ []<>(~Input(f) \/ pc = "killed")
                          \/ []<><<unread'[f] < unread[f]>>_vars
==============================================================================
