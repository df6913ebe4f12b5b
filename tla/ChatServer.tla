------------------------------- MODULE ChatServer ------------------------------
(****************************************************************************)
(* The chat server of src/src/chat_server/main.cpp: one thread, an epoll      *)
(* instance whose client descriptors are edge triggered and EPOLLONESHOT, an  *)
(* array fds of the users, and per descriptor a buffer for what its client    *)
(* sent and a pointer to the buffer of the user whose words it is to be sent. *)
(* The server runs alone, so a handler is cut only where it calls the kernel  *)
(* again: the clients act between two calls of accept() or recv().            *)
(*                                                                            *)
(* pc: "wait" in epoll_wait(), "loop" in the for over the batch, "accept" and *)
(* "recv" in their loops, "spin" in the loop of recv() after the end of the   *)
(* stream, which adds 0 to len and calls recv() again, "killed" by SIGPIPE,   *)
(* which nobody ignores.                                                      *)
(****************************************************************************)
EXTENDS Integers, FiniteSets

CONSTANTS Fds,          \* descriptors of clients
          NoFd,         \* NULL as a write_buf, 0 in an entry of fds not used yet
          UserLimit,    \* USER_LIMIT
          MaxText,      \* bound: units of BUFFER_SIZE - 1 bytes that one reading
                        \* may collect; more than ten would not fit into buf
          MaxBacklog    \* bound: connections that accept() has not returned

ASSUME ChatAssumption ==
  /\ IsFiniteSet(Fds) /\ NoFd \notin Fds
  /\ UserLimit \in Nat \ {0} /\ Cardinality(Fds) >= UserLimit
  /\ MaxText \in Nat \ {0} /\ MaxBacklog \in Nat \ {0}

VARIABLES backlog, edge,    \* edge: a connection came since listenfd was reported
          inbox, gone,      \* a client's units under way, and whether it has left:
                            \* "no", "closed", "reset", "cleared" after HandleErr
          open, armed,      \* armed: "in" and "out" of the interest, {} after ONESHOT
          events, acceptEvent,
          fds, user_count,
          write_buf,        \* users[fd].write_buf: whose buf
          len,              \* units that the reading under way has put into cur's buf
          pc, cur

client == <<inbox, gone>>
users  == <<fds, user_count>>
texts  == <<write_buf, len>>
vars   == <<backlog, edge, client, open, armed, events, acceptEvent, users, texts, pc, cur>>

Init == /\ backlog = 0 /\ edge = FALSE
        /\ inbox = [f \in Fds |-> 0]
        /\ gone = [f \in Fds |-> "no"]
        /\ open = {}
        /\ armed = [f \in Fds |-> {}]
        /\ events = [f \in Fds |-> {}]
        /\ acceptEvent = FALSE
        /\ fds = [i \in 0..(UserLimit - 1) |-> NoFd]
        /\ user_count = 0
        /\ write_buf = [f \in Fds |-> NoFd]
        /\ len = 0
        /\ pc = "wait" /\ cur = NoFd

UserSlots == 0..(user_count - 1)
Users     == {fds[i] : i \in UserSlots}

-----------------------------------------------------------------------------
(* The clients *)

ClientStep == /\ pc # "killed"
              /\ UNCHANGED <<open, armed, events, acceptEvent, users, texts, pc, cur>>

Connect == /\ backlog < MaxBacklog
           /\ backlog' = backlog + 1
           /\ edge' = TRUE
           /\ UNCHANGED client /\ ClientStep

Collected(f) == IF cur = f THEN len ELSE 0

Say(f) == /\ f \in open /\ gone[f] = "no"
          /\ inbox[f] + Collected(f) < MaxText
          /\ inbox' = [inbox EXCEPT ![f] = @ + 1]
          /\ UNCHANGED <<backlog, edge, gone>> /\ ClientStep

\* The client closes its end, or it resets the connection, before or after that.
Leave(f) == /\ f \in open
            /\ \/ gone[f] = "no" /\ gone' = [gone EXCEPT ![f] = "closed"]
               \/ gone[f] \in {"no", "closed"} /\ gone' = [gone EXCEPT ![f] = "reset"]
            /\ UNCHANGED <<backlog, edge, inbox>> /\ ClientStep

-----------------------------------------------------------------------------
(* epoll *)

Reported(f) == IF armed[f] = {} THEN {}
               ELSE {e \in {"err", "hup", "in", "out"} :
                       \/ e = "err" /\ gone[f] = "reset"
                       \/ e = "hup" /\ gone[f] # "no"
                       \/ e = "in"  /\ (inbox[f] > 0 \/ gone[f] # "no")
                       \/ e = "out" /\ "out" \in armed[f]}

EpollWait == /\ pc = "wait"
             /\ edge \/ \E f \in Fds : Reported(f) # {}
             /\ events' = [f \in Fds |-> Reported(f)]
             /\ armed' = [f \in Fds |-> IF Reported(f) # {} THEN {} ELSE armed[f]]
             /\ acceptEvent' = edge
             /\ edge' = FALSE
             /\ pc' = "loop"
             /\ UNCHANGED <<backlog, client, open, users, texts, cur>>

BatchDone == /\ pc = "loop" /\ ~acceptEvent
             /\ \A f \in Fds : events[f] = {}
             /\ pc' = "wait"
             /\ UNCHANGED <<backlog, edge, client, open, armed, events, acceptEvent,
                            users, texts, cur>>

-----------------------------------------------------------------------------
(* The event of listenfd *)

AcceptStart == /\ pc = "loop" /\ acceptEvent
               /\ acceptEvent' = FALSE
               /\ pc' = "accept"
               /\ UNCHANGED <<backlog, edge, client, open, armed, events, users, texts, cur>>

Full == user_count >= UserLimit

\* addfd() of a client: readable, edge triggered, EPOLLONESHOT.
AddFd(f) == armed' = [armed EXCEPT ![f] = {"in"}]

AcceptUser(f) ==
  /\ pc = "accept" /\ backlog > 0 /\ f \notin open /\ ~Full
  /\ backlog' = backlog - 1
  /\ open' = open \cup {f}
  /\ fds' = [i \in DOMAIN fds \cup {user_count} |-> IF i = user_count THEN f ELSE fds[i]]
  /\ user_count' = user_count + 1
  /\ write_buf' = [write_buf EXCEPT ![f] = NoFd]
  /\ AddFd(f)
  /\ UNCHANGED <<edge, client, events, acceptEvent, len, pc, cur>>

\* "too many users": send() and close().  SIGPIPE comes when the client has closed
\* and reset the connection that waited for accept().
TurnAway == /\ pc = "accept" /\ backlog > 0 /\ Full
            /\ backlog' = backlog - 1
            /\ pc' \in {"accept", "killed"}
            /\ UNCHANGED <<edge, client, open, armed, events, acceptEvent, users, texts, cur>>

\* Mutant of AcceptEnds: accept() is called once only.
AcceptEndsAtOnce == pc = "accept"

\* accept() finds EAGAIN.
AcceptEnds == pc = "accept" /\ backlog = 0

AcceptDone == /\ AcceptEnds
              /\ pc' = "loop"
              /\ UNCHANGED <<backlog, edge, client, open, armed, events, acceptEvent,
                             users, texts, cur>>

-----------------------------------------------------------------------------
(* The events of a client *)

\* Mutant of DeleteUser: the last entry is dropped, whoever it is.
DeleteLast(f) == /\ user_count' = user_count - 1
                 /\ UNCHANGED fds

\* Mutant of DeleteUser: the count is decremented before the search and after it.
DeleteTwice(f) ==
  /\ user_count' = user_count - 2
  /\ fds' = [i \in DOMAIN fds |->
               IF i < user_count - 1 /\ fds[i] = f THEN fds[user_count - 1] ELSE fds[i]]

\* delete_user(): the last entry takes the place of f.
DeleteUser(f) ==
  /\ user_count' = user_count - 1
  /\ fds' = [i \in DOMAIN fds |->
               IF i < user_count - 1 /\ fds[i] = f THEN fds[user_count - 1] ELSE fds[i]]

\* close(); what the client sent or did to this connection goes with it.
Close(f) == /\ open' = open \ {f}
            /\ inbox' = [inbox EXCEPT ![f] = 0]
            /\ gone' = [gone EXCEPT ![f] = "no"]

\* Mutant of ResetOneshot: the interest is not set again.
StayDisarmed(f) == UNCHANGED armed

\* Mutant of ResetOneshot: the interest stays what the loop over the users made it.
KeepOut(f) == armed' = [armed EXCEPT ![f] = {"in", "out"}]

\* resetonshot()
ResetOneshot(f) == armed' = [armed EXCEPT ![f] = {"in"}]

\* The loop takes f's events from the batch, and its branch is the first of
\* EPOLLERR, EPOLLRDHUP, EPOLLIN and EPOLLOUT that is set.
First(E) == CASE "err" \in E -> "err"
              [] "err" \notin E /\ "hup" \in E -> "hup"
              [] E \cap {"err", "hup"} = {} /\ "in" \in E -> "in"
              [] OTHER -> "out"
Take(f, e) == /\ pc = "loop" /\ events[f] # {} /\ First(events[f]) = e
              /\ events' = [events EXCEPT ![f] = {}]
              /\ UNCHANGED <<backlog, edge, acceptEvent>>

\* getsockopt(SO_ERROR) clears the error; the connection is still hung up.
HandleErr(f) == /\ Take(f, "err")
                /\ gone' = [gone EXCEPT ![f] = "cleared"]
                /\ ResetOneshot(f)
                /\ UNCHANGED <<inbox, open, users, texts, pc, cur>>

HandleHup(f) == /\ Take(f, "hup")
                /\ Close(f)
                /\ armed' = [armed EXCEPT ![f] = {}]
                /\ DeleteUser(f)
                /\ UNCHANGED <<texts, pc, cur>>

\* EPOLLIN: memset() of buf, then the loop of recv().
HandleIn(f) == /\ Take(f, "in")
               /\ pc' = "recv" /\ cur' = f
               /\ UNCHANGED <<client, open, armed, users, texts>>

\* send(), after which SIGPIPE may have ended the program when the client has
\* reset the connection since it was reported.
HandleOut(f) == /\ Take(f, "out")
                /\ IF write_buf[f] = NoFd
                   THEN UNCHANGED <<armed, write_buf, pc>>
                   ELSE /\ write_buf' = [write_buf EXCEPT ![f] = NoFd]
                        /\ ResetOneshot(f)
                        /\ pc' \in {"loop"} \cup {k \in {"killed"} : gone[f] = "reset"}
                /\ UNCHANGED <<client, open, users, len, cur>>

-----------------------------------------------------------------------------
(* The loop of recv() for cur *)

Receiving == /\ pc \in {"recv", "spin"}
             /\ UNCHANGED <<backlog, edge, events, acceptEvent>>

RecvData == /\ Receiving
            /\ inbox[cur] > 0
            /\ inbox' = [inbox EXCEPT ![cur] = @ - 1]
            /\ len' = len + 1
            /\ UNCHANGED <<gone, open, armed, users, write_buf, pc, cur>>

\* Whom the loop over the users R tells: all but the speaker.
ToldTo(R) == R \ {cur}

\* The loop over the users R after the reading: their next EPOLLOUT is to send
\* cur's buf.  cur's own interest is by now own.
Tell(R, own) ==
  /\ armed' = [f \in Fds |-> CASE f \in ToldTo(R)                -> {"in", "out"}
                               [] f \notin ToldTo(R) /\ f = cur  -> own
                               [] OTHER                          -> armed[f]]
  /\ write_buf' = [f \in Fds |-> IF f \in ToldTo(R) THEN cur ELSE write_buf[f]]
  /\ pc' = "loop" /\ cur' = NoFd /\ len' = 0

\* EAGAIN: resetonshot(cur), and the loop over the users.
RecvAgain == /\ Receiving
             /\ inbox[cur] = 0 /\ gone[cur] = "no"
             /\ Tell(Users, {"in"})
             /\ UNCHANGED <<client, open, users>>

\* Another error: the user is deleted, and the others are told all the same.
RecvFails == /\ Receiving
             /\ inbox[cur] = 0 /\ gone[cur] = "reset"
             /\ Close(cur)
             /\ DeleteUser(cur)
             /\ Tell(Users \ {cur}, {})

\* recv() returns 0, now and again until the client resets the connection.
RecvEof == /\ Receiving /\ pc = "recv"
           /\ inbox[cur] = 0 /\ gone[cur] = "closed"
           /\ pc' = "spin"
           /\ UNCHANGED <<client, open, armed, users, texts, cur>>

-----------------------------------------------------------------------------

Server == \/ EpollWait \/ BatchDone
          \/ AcceptStart \/ TurnAway \/ AcceptDone
          \/ RecvData \/ RecvAgain \/ RecvFails \/ RecvEof
          \/ \E f \in Fds : \/ AcceptUser(f)
                            \/ HandleErr(f) \/ HandleHup(f) \/ HandleIn(f) \/ HandleOut(f)

Next == \/ Server
        \/ Connect
        \/ \E f \in Fds : Say(f) \/ Leave(f)

\* The server's thread runs; the clients need do nothing.
Spec == Init /\ [][Next]_vars /\ WF_vars(Server)

-----------------------------------------------------------------------------

TypeOK ==
  /\ backlog \in 0..MaxBacklog /\ edge \in BOOLEAN
  /\ inbox \in [Fds -> 0..MaxText] /\ gone \in [Fds -> {"no", "closed", "reset", "cleared"}]
  /\ open \subseteq Fds /\ armed \in [Fds -> SUBSET {"in", "out"}]
  /\ events \in [Fds -> SUBSET {"err", "hup", "in", "out"}] /\ acceptEvent \in BOOLEAN
  /\ user_count \in 0..UserLimit
  /\ fds \in [0..(UserLimit - 1) -> Fds \cup {NoFd}]
  /\ len \in 0..MaxText /\ write_buf \in [Fds -> Fds \cup {NoFd}]
  /\ pc \in {"wait", "loop", "accept", "recv", "spin", "killed"}
  /\ cur \in Fds \cup {NoFd}

(* Through every order of arrivals, departures and errors the first           *)
(* user_count entries of fds are the open connections, each of them once.     *)
UsersAreConnections ==
  Users = open /\ Cardinality(open) = user_count

(* listenfd is edge triggered: a connection that waits for accept() comes     *)
(* with an edge that is not reported yet, or with an accept loop to come.     *)
NoStrandedConnection ==
  backlog > 0 /\ pc # "killed" => edge \/ acceptEvent \/ pc = "accept"

(* EPOLLONESHOT leaves no user deaf: he is armed, or in the batch, or being    *)
(* read.  The branch that finds no words to send and goes on without           *)
(* resetonshot() (main.cpp:212) is never taken, because a user awaits EPOLLOUT  *)
(* only while words are pending for him, also when he answers first, leaves    *)
(* and another comes under his descriptor.                                     *)
NobodyDisarmed == \A f \in open : armed[f] # {} \/ events[f] # {} \/ cur = f

(* New connections do not keep the accept loop busy for ever. *)
AcceptPauses == []<>(pc # "accept")

Stuck == pc \in {"spin", "killed"}

(* What a client says is read while it stays, whatever the others do, unless   *)
(* the server spins or has been killed.  The words of a client who leaves      *)
(* before they are read go with the connection: the branches of EPOLLERR and   *)
(* EPOLLRDHUP come before that of EPOLLIN.                                     *)
WordsAreRead ==
  \A f \in Fds :
    (inbox[f] > 0 /\ gone[f] = "no") ~> (inbox[f] = 0 \/ gone[f] # "no" \/ Stuck)

(* The comment at main.cpp:162: when the peer closes the connection, the      *)
(* local user is deleted.  The loop of recv() that takes the end of the       *)
(* stream for data, and SIGPIPE, are the ways in which this fails.            *)
LeaverIsDeleted ==
  \A f \in Fds : (f \in open /\ gone[f] # "no") ~> f \notin open \/ Stuck

(* Words and departures are answered, as long as connections do not come       *)
(* faster than the loop of accept() takes them.                                *)
ClientsAreServed == AcceptPauses => WordsAreRead /\ LeaverIsDeleted
==============================================================================
