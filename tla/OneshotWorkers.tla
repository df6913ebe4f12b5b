----------------------------- MODULE OneshotWorkers ----------------------------
(****************************************************************************)
(* src/src/test_epolloneshot/main.cpp: main() waits on an epoll instance and  *)
(* starts one thread for every event of a connection; the thread reads until  *)
(* EAGAIN and sets EPOLLONESHOT again.  The thread is given a pointer to the  *)
(* local fds_for_new_worker, which every turn of main()'s loop writes over.   *)
(*                                                                            *)
(* A place of a thread: "none", "new" (created, its argument not read),       *)
(* "recv" in its loop, "sleep" after some data.                               *)
(****************************************************************************)
EXTENDS Integers, FiniteSets

CONSTANTS Fds,          \* descriptors of connections
          NoFd,
          Threads,      \* bound: threads at one time
          MaxRcv,       \* bound: units that a client may have under way
          ReadsAtOnce   \* pthread_create() returns after the thread has read its argument

\* What the modules that use this one assume.
OneshotAssumption == /\ IsFiniteSet(Fds) /\ NoFd \notin Fds
                     /\ MaxRcv \in Nat \ {0}
                     /\ ReadsAtOnce \in BOOLEAN

VARIABLES backlog, edge,      \* edge: one came since listenfd was reported
          rcvq, gone,         \* units under way; "no", "closed" or "reset" by the client
          open, armed, events, acceptEvent,
          sockfd,             \* fds_for_new_worker.sockfd
          looping,            \* main() is in the for over the batch
          place, holds        \* of a thread: its place, its local sockfd

client == <<rcvq, gone>>
listen == <<backlog, edge, acceptEvent>>
vars   == <<listen, client, open, armed, events, sockfd, looping, place, holds>>

Init == /\ backlog = 0 /\ edge = FALSE /\ acceptEvent = FALSE
        /\ rcvq = [f \in Fds |-> 0] /\ gone = [f \in Fds |-> "no"]
        /\ open = {}
        /\ armed = [f \in Fds |-> FALSE] /\ events = [f \in Fds |-> FALSE]
        /\ sockfd = NoFd
        /\ looping = FALSE
        /\ place = [t \in Threads |-> "none"] /\ holds = [t \in Threads |-> NoFd]

-----------------------------------------------------------------------------
(* The clients *)

ClientStep == UNCHANGED <<open, armed, events, sockfd, looping, place, holds>>

\* Bound: descriptors do not run out, so assert(connfd >= 0) holds in Accept.
Connect == /\ backlog + Cardinality(open) < Cardinality(Fds)
           /\ backlog' = backlog + 1
           /\ edge' = TRUE
           /\ UNCHANGED <<acceptEvent, client>> /\ ClientStep

Send(f) == /\ f \in open /\ gone[f] = "no" /\ rcvq[f] < MaxRcv
           /\ rcvq' = [rcvq EXCEPT ![f] = @ + 1]
           /\ UNCHANGED <<listen, gone>> /\ ClientStep

Leave(f) == /\ f \in open /\ gone[f] = "no"
            /\ \E how \in {"closed", "reset"} : gone' = [gone EXCEPT ![f] = how]
            /\ UNCHANGED <<listen, rcvq>> /\ ClientStep

-----------------------------------------------------------------------------
(* main() *)

\* EPOLLIN is reported for data and for the end of the stream.
Ready == {f \in Fds : armed[f] /\ (rcvq[f] > 0 \/ gone[f] # "no")}

\* Mutant of Disarmed: the connections are registered without EPOLLONESHOT.
StillArmed == armed

Disarmed == [f \in Fds |-> armed[f] /\ f \notin Ready]

EpollWait == /\ ~looping
             /\ edge \/ Ready # {}
             /\ acceptEvent' = edge
             /\ edge' = FALSE
             /\ events' = [f \in Fds |-> f \in Ready]
             /\ armed' = Disarmed
             /\ looping' = TRUE
             /\ UNCHANGED <<backlog, client, open, sockfd, place, holds>>

BatchDone == /\ looping /\ ~acceptEvent /\ \A f \in Fds : ~events[f]
             /\ looping' = FALSE
             /\ UNCHANGED <<listen, client, open, armed, events, sockfd, place, holds>>

\* addfd() of a client: readable, edge triggered, EPOLLONESHOT.
AddFd(f) == armed' = [armed EXCEPT ![f] = TRUE]

\* The event of listenfd, which is edge triggered: one accept() for each edge.
Accept(f) ==
  /\ looping /\ acceptEvent
  /\ acceptEvent' = FALSE
  /\ f \notin open
  /\ backlog' = backlog - 1
  /\ open' = open \cup {f}
  /\ AddFd(f)
  /\ rcvq' = [rcvq EXCEPT ![f] = 0] /\ gone' = [gone EXCEPT ![f] = "no"]
  /\ UNCHANGED <<edge, events, sockfd, looping, place, holds>>

\* The event of connection f: a thread t is created.
StartThread(f, t) ==
  /\ looping /\ events[f]
  /\ ReadsAtOnce => \A u \in Threads : place[u] # "new"
  /\ place[t] = "none"
  /\ events' = [events EXCEPT ![f] = FALSE]
  /\ sockfd' = f
  /\ place' = [place EXCEPT ![t] = "new"]
  /\ UNCHANGED <<listen, client, open, armed, looping, holds>>

-----------------------------------------------------------------------------
(* worker() *)

WorkerStep == UNCHANGED <<listen, events, sockfd, looping>>

Goto(t, to, fd) == /\ place' = [place EXCEPT ![t] = to]
                   /\ holds' = [holds EXCEPT ![t] = fd]

ReadArgument(t) == /\ place[t] = "new"
                   /\ Goto(t, "recv", sockfd)
                   /\ UNCHANGED <<client, open, armed>> /\ WorkerStep

\* t calls recv() on the open connection f.
Recv(t, f) == place[t] = "recv" /\ holds[t] = f /\ f \in open /\ WorkerStep

\* Mutant of Received: more than has come.
ReceivedUnchecked(f) == 1..MaxRcv

\* What one recv() may take, as the buffer of the thread is small.
Received(f) == 1..rcvq[f]

\* Data: it is printed, and the thread sleeps.
RecvData(t, f) == /\ Recv(t, f)
                  /\ rcvq[f] > 0
                  /\ \E n \in Received(f) : rcvq' = [rcvq EXCEPT ![f] = @ - n]
                  /\ Goto(t, "sleep", f)
                  /\ UNCHANGED <<gone, open, armed>>

Wake(t) == /\ place[t] = "sleep"
           /\ Goto(t, "recv", holds[t])
           /\ UNCHANGED <<client, open, armed>> /\ WorkerStep

\* Mutant of ResetOneshot: a thread ends without it.
StayDisarmed(f) == UNCHANGED armed

ResetOneshot(f) == armed' = [armed EXCEPT ![f] = TRUE]

\* EAGAIN: reset_oneshot(), and the thread ends.
RecvAgain(t, f) == /\ Recv(t, f)
                   /\ rcvq[f] = 0 /\ gone[f] = "no"
                   /\ ResetOneshot(f)
                   /\ Goto(t, "none", NoFd)
                   /\ UNCHANGED <<client, open>>

\* The end of the stream: close().
RecvEof(t, f) == /\ Recv(t, f)
                 /\ rcvq[f] = 0 /\ gone[f] = "closed"
                 /\ open' = open \ {f}
                 /\ armed' = [armed EXCEPT ![f] = FALSE]
                 /\ Goto(t, "none", NoFd)
                 /\ UNCHANGED client

\* Another error, or a descriptor that is closed: the thread ends, and does not
\* close anything.
RecvFails(t) == /\ place[t] = "recv"
                /\ holds[t] \notin open \/ (rcvq[holds[t]] = 0 /\ gone[holds[t]] = "reset")
                /\ Goto(t, "none", NoFd)
                /\ UNCHANGED <<client, open, armed>> /\ WorkerStep

-----------------------------------------------------------------------------

MainStep == \/ EpollWait \/ BatchDone
            \/ \E f \in Fds : Accept(f) \/ \E t \in Threads : StartThread(f, t)

Worker(t) == \/ ReadArgument(t) \/ Wake(t) \/ RecvFails(t)
             \/ \E f \in Fds : RecvData(t, f) \/ RecvAgain(t, f) \/ RecvEof(t, f)

Next == \/ MainStep
        \/ \E t \in Threads : Worker(t)
        \/ Connect
        \/ \E f \in Fds : Send(f) \/ Leave(f)

\* Every thread runs; the clients need do nothing.
Spec == Init /\ [][Next]_vars /\ WF_vars(MainStep) /\ \A t \in Threads : WF_vars(Worker(t))

-----------------------------------------------------------------------------

TypeOK == /\ backlog \in 0..Cardinality(Fds) /\ edge \in BOOLEAN /\ acceptEvent \in BOOLEAN
          /\ rcvq \in [Fds -> 0..MaxRcv] /\ gone \in [Fds -> {"no", "closed", "reset"}]
          /\ open \subseteq Fds
          /\ armed \in [Fds -> BOOLEAN] /\ events \in [Fds -> BOOLEAN]
          /\ sockfd \in Fds \cup {NoFd} /\ looping \in BOOLEAN
          /\ place \in [Threads -> {"none", "new", "recv", "sleep"}]
          /\ holds \in [Threads -> Fds \cup {NoFd}]

(* The comment at main.cpp:96: one socket is handled by one thread at a time. *)
OneThread == \A s, t \in Threads : holds[s] = holds[t] /\ holds[s] # NoFd => s = t

(* Whenever there is data of a client, a thread will have received some of it. *)
DataIsRead ==
  \A f \in Fds : rcvq[f] > 0 ~> \E t \in Threads : holds[t] = f /\ place[t] = "sleep"
==============================================================================
