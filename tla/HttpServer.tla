----------------------------- MODULE HttpServer ------------------------------
(****************************************************************************)
(* The web server of src/src/http_server: the reactor of main.cpp, the        *)
(* http_conn objects (users[fd] is http_conn fd), the epoll instance with     *)
(* EPOLLONESHOT (mutil_io.h) and the workers of the pool, whose append() and  *)
(* pop are one step each (ThreadPool shows that they behave so).              *)
(*                                                                            *)
(* Data is counted in units: rcvq and read_index are numbers of units, and    *)
(* what the parser makes of the units it has not checked is its choice.  A    *)
(* call of http_parse() is one step, also where two workers are in one object.*)
(*                                                                            *)
(* pc of Main: "wait"   in epoll_wait()   "loop"  in the for over the batch   *)
(*             "init"   in init(), after addfd() and the load of m_user_count *)
(*             "append" read() returned true                                  *)
(* pc of a worker: "idle"  in the pool, "parse" in process(),                 *)
(*             "page" / "file" in add_response(), between the test of the     *)
(*             room and the update of write_index, "cut" where a file's head  *)
(*             found no room,                                                 *)
(*             "modin" / "modout" before the modfd(EPOLLIN / EPOLLOUT)        *)
(* pc of both in close_conn(): "close" at its test of m_sockfd, "forget"      *)
(*             before m_sockfd = -1, "count" before the store of the counter  *)
(****************************************************************************)
EXTENDS Integers, Sequences, FiniteSets

CONSTANTS Fds,          \* descriptors that connections may have
          NoFd,         \* -1
          StdinFd,      \* 0, the value of m_sockfd before the first init()
          Workers,      \* the threads of the pool
          Main,         \* the thread of main()
          MaxRequests,  \* m_max_requests of the pool
          MaxFd,        \* MAX_FD
          ReadSize,     \* HTTP_READ_BUFFER_SIZE, in units
          WriteSize,    \* number of responses that fit into write_buffer
          MaxRcv,       \* bound: units that a client may have under way
          MaxBacklog,   \* backlog
          RequestsFit,  \* the clients send no request longer than read_buffer
          OneClient     \* bound: nobody connects after the first connection

ASSUME ServerAssumption ==
  /\ IsFiniteSet(Fds) /\ NoFd \notin Fds /\ StdinFd \notin Fds /\ NoFd # StdinFd
  /\ Main \notin Workers
  /\ MaxRequests \in Nat \ {0} /\ MaxFd \in Nat \ {0}
  /\ ReadSize \in Nat \ {0} /\ WriteSize \in Nat \ {0}
  /\ MaxRcv \in Nat \ {0} /\ MaxBacklog \in Nat \ {0}
  /\ RequestsFit \in BOOLEAN /\ OneClient \in BOOLEAN

\* The other names that HolderOf gives are not those of workers.
ASSUME NamesAssumption == Workers \cap {"nobody", "kernel", "reactor", "queue", "lost"} = {}

Threads == Workers \cup {Main}

VARIABLES
  backlog,       \* connections that accept() has not returned yet
  open,          \* descriptors of accepted connections
  armed,         \* epoll interest: "in", "out", or "off" (ONESHOT has fired)
  rcvq,          \* units that recv() would return
  hup,           \* the client has closed or reset the connection
  full,          \* the send buffer has no room: writev() would block
  events,        \* what the batch still holds for a descriptor
  acceptEvent,   \* the batch still holds the event of listenfd
  errno,         \* errno of the main thread
  m_sockfd,      \* users[fd].m_sockfd
  req,           \* users[fd].m_http_req
  m_user_count,
  m_workqueue,
  pc, cur,       \* a thread's place and the connection it works on
  reg            \* the value of m_user_count that ++ or -- has loaded, or that
                 \* of write_index which add_response() has tested

client == <<backlog, rcvq, hup, full>>
epoll  == <<open, armed>>
batch  == <<events, acceptEvent, errno>>
conn   == <<m_sockfd, req>>
place  == <<pc, cur>>
count  == <<m_user_count, reg>>
vars   == <<client, epoll, batch, conn, m_workqueue, place, count>>

\* iv: pending entries of m_iv with data left; write: responses in write_buffer;
\* mapped: m_file_address is not NULL; answered: the parser has ended with a request
\* or an error, which it may find again without a new unit.
HttpReq == [read : 0..ReadSize, checked : 0..ReadSize, write : Nat,
            iv : 0..2, connect : BOOLEAN, mapped : BOOLEAN, answered : BOOLEAN]

NewReq == [read |-> 0, checked |-> 0, write |-> 0,
           iv |-> 0, connect |-> FALSE, mapped |-> FALSE, answered |-> FALSE]

Places == {"wait", "loop", "init", "append", "idle", "parse", "page", "file", "cut",
           "modin", "modout", "close", "forget", "count"}

TypeOK ==
  /\ backlog \in 0..MaxBacklog
  /\ open \in SUBSET Fds
  /\ armed \in [Fds -> {"off", "in", "out"}]
  /\ rcvq \in [Fds -> 0..MaxRcv]
  /\ hup \in [Fds -> BOOLEAN]
  /\ full \in [Fds -> BOOLEAN]
  /\ events \in [Fds -> {"none", "in", "out", "hup"}]
  /\ acceptEvent \in BOOLEAN
  /\ errno \in {"EAGAIN", "other"}
  /\ m_sockfd \in [Fds -> Fds \cup {NoFd, StdinFd}]
  /\ req \in [Fds -> HttpReq]
  /\ m_user_count \in Int
  /\ m_workqueue \in Seq(Fds)
  /\ pc \in [Threads -> Places]
  /\ cur \in [Threads -> Fds \cup {NoFd}]
  /\ reg \in [Threads -> Int]

Init ==
  /\ backlog = 0
  /\ open = {}
  /\ armed = [f \in Fds |-> "off"]
  /\ rcvq = [f \in Fds |-> 0]
  /\ hup = [f \in Fds |-> FALSE]
  /\ full = [f \in Fds |-> FALSE]
  /\ events = [f \in Fds |-> "none"]
  /\ acceptEvent = FALSE
  /\ errno = "other"
  /\ m_sockfd = [f \in Fds |-> StdinFd]
  /\ req = [f \in Fds |-> NewReq]
  /\ m_user_count = -1
  /\ m_workqueue = <<>>
  /\ pc = [t \in Threads |-> IF t = Main THEN "wait" ELSE "idle"]
  /\ cur = [t \in Threads |-> NoFd]
  /\ reg = [t \in Threads |-> 0]

Goto(t, to, fd) == /\ pc' = [pc EXCEPT ![t] = to]
                   /\ cur' = [cur EXCEPT ![t] = fd]

Stay == UNCHANGED place

-----------------------------------------------------------------------------
(* The clients *)

ClientStep == UNCHANGED <<epoll, batch, conn, m_workqueue, place, count>>

Connect == /\ backlog < MaxBacklog
           /\ OneClient => backlog = 0 /\ \A f \in Fds : m_sockfd[f] = StdinFd
           /\ backlog' = backlog + 1
           /\ UNCHANGED <<rcvq, hup, full>>
           /\ ClientStep

Send(f) == /\ f \in open /\ ~hup[f] /\ rcvq[f] < MaxRcv
           /\ rcvq' = [rcvq EXCEPT ![f] = @ + 1]
           /\ UNCHANGED <<backlog, hup, full>>
           /\ ClientStep

Drain(f) == /\ f \in open /\ full[f]
            /\ full' = [full EXCEPT ![f] = FALSE]
            /\ UNCHANGED <<backlog, rcvq, hup>>
            /\ ClientStep

HangUp(f) == /\ f \in open /\ ~hup[f]
             /\ hup' = [hup EXCEPT ![f] = TRUE]
             /\ UNCHANGED <<backlog, rcvq, full>>
             /\ ClientStep

-----------------------------------------------------------------------------
(* epoll and the http_conn helpers that several handlers call *)

\* Mutant of Reported: EPOLLRDHUP is asked for together with EPOLLIN only.
ReportedWithoutHup(f) ==
  CASE armed[f] = "in" /\ hup[f]             -> "hup"
    [] armed[f] = "in" /\ ~hup[f] /\ rcvq[f] > 0 -> "in"
    [] armed[f] = "out" /\ ~full[f]          -> "out"
    [] OTHER                                  -> "none"

\* The events that epoll reports for f: the interest of an armed descriptor
\* that is ready, and with it EPOLLRDHUP / EPOLLHUP / EPOLLERR.
Reported(f) ==
  CASE armed[f] # "off" /\ hup[f]               -> "hup"
    [] armed[f] = "in" /\ ~hup[f] /\ rcvq[f] > 0 -> "in"
    [] armed[f] = "out" /\ ~hup[f] /\ ~full[f]   -> "out"
    [] OTHER                                     -> "none"

Ready == {f \in Fds : Reported(f) # "none"}

\* Mutant of Disarmed: the connections are registered without EPOLLONESHOT.
StillArmed == armed

\* EPOLLONESHOT: a reported descriptor is disarmed until the next modfd().
Disarmed == [f \in Fds |-> IF f \in Ready THEN "off" ELSE armed[f]]

\* users[f].m_sockfd is a descriptor that system calls accept.
Usable(f) == m_sockfd[f] \in open

\* addfd(m_epollfd, fd, true) and removefd(m_epollfd, fd), whose close() ends all
\* that the kernel had of the connection.
AddFd(fd)    == armed' = [armed EXCEPT ![fd] = "in"]
RemoveFd(fd) == /\ armed' = [armed EXCEPT ![fd] = "off"]
                /\ open' = open \ {fd}
                /\ rcvq' = [rcvq EXCEPT ![fd] = 0]
                /\ hup' = [hup EXCEPT ![fd] = FALSE]
                /\ full' = [full EXCEPT ![fd] = FALSE]

\* modfd(m_epollfd, m_sockfd, ev) for users[f].
ModFd(f, ev) == armed' = IF Usable(f) THEN [armed EXCEPT ![m_sockfd[f]] = ev] ELSE armed

\* Mutant of HttpReset: a reset that forgets the response.
ResetRequestOnly(f) == req' = [req EXCEPT ![f].read = 0, ![f].checked = 0]

\* http_reset(), which also unmaps the file.
HttpReset(f) == req' = [req EXCEPT ![f] = NewReq]

-----------------------------------------------------------------------------
(* main() *)

EpollWait ==
  /\ pc[Main] = "wait"
  /\ Ready # {} \/ backlog > 0
  /\ events' = [f \in Fds |-> Reported(f)]
  /\ armed' = Disarmed
  /\ acceptEvent' = (backlog > 0)
  /\ Goto(Main, "loop", NoFd)
  /\ UNCHANGED <<client, open, errno, conn, m_workqueue, count>>

BatchDone ==
  /\ pc[Main] = "loop"
  /\ ~acceptEvent
  /\ \A f \in Fds : events[f] = "none"
  /\ Goto(Main, "wait", NoFd)
  /\ UNCHANGED <<client, epoll, batch, conn, m_workqueue, count>>

\* The event of listenfd; the order of the events in a batch is the kernel's.
TakeAccept == /\ pc[Main] = "loop"
              /\ acceptEvent
              /\ acceptEvent' = FALSE
              /\ UNCHANGED <<events, m_workqueue>>

\* accept() < 0: no descriptor is left.  The connection stays in the backlog.
AcceptFails ==
  /\ TakeAccept
  /\ open = Fds
  /\ errno' = "other"
  /\ UNCHANGED <<client, epoll, conn, place, count>>

Busy == m_user_count >= MaxFd

\* show_error(): the new connection is closed at once, so its descriptor need
\* not be one of Fds.
AcceptBusy ==
  /\ TakeAccept
  /\ Busy
  /\ backlog' = backlog - 1
  /\ UNCHANGED <<rcvq, hup, full, epoll, errno, conn, place, count>>

\* accept() and init() as far as the load of m_user_count.
AcceptConn(f) ==
  /\ TakeAccept
  /\ f \notin open
  /\ ~Busy
  /\ backlog' = backlog - 1
  /\ open' = open \cup {f}
  /\ m_sockfd' = [m_sockfd EXCEPT ![f] = f]
  /\ AddFd(f)
  /\ reg' = [reg EXCEPT ![Main] = m_user_count]
  /\ Goto(Main, "init", f)
  /\ UNCHANGED <<rcvq, hup, full, errno, req, m_user_count>>

\* The rest of init(): the store of m_user_count++ and http_reset().
InitConn ==
  /\ pc[Main] = "init"
  /\ m_user_count' = reg[Main] + 1
  /\ reg' = [reg EXCEPT ![Main] = 0]
  /\ HttpReset(cur[Main])
  /\ Goto(Main, "loop", NoFd)
  /\ UNCHANGED <<client, epoll, batch, m_sockfd, m_workqueue>>

\* The loop takes the event ev of connection f from the batch.
TakeEvent(f, ev) == /\ pc[Main] = "loop"
                    /\ events[f] = ev
                    /\ events' = [events EXCEPT ![f] = "none"]
                    /\ UNCHANGED <<backlog, hup, open, acceptEvent, m_workqueue, count>>

HandleHup(f) ==
  /\ TakeEvent(f, "hup")
  /\ Goto(Main, "close", f)
  /\ UNCHANGED <<rcvq, full, armed, errno, conn>>

BufferFull(f) == req[f].read >= ReadSize

\* Mutant of Received: recv() is given the size of the whole buffer.
ReceivedAll(f) == rcvq[f]

\* The units that one recv() moves into the room that is left.
Received(f) == IF rcvq[f] < ReadSize - req[f].read THEN rcvq[f] ELSE ReadSize - req[f].read

\* read() returns true because recv() returned data.
ReadData(f) ==
  /\ TakeEvent(f, "in")
  /\ ~BufferFull(f)
  /\ Usable(f) /\ rcvq[f] > 0
  /\ req' = [req EXCEPT ![f].read = @ + Received(f)]
  /\ rcvq' = [rcvq EXCEPT ![f] = @ - Received(f)]
  /\ Goto(Main, "append", f)
  /\ UNCHANGED <<full, armed, errno, m_sockfd>>

\* read() finds errno = EAGAIN: recv() set it, or http_read() returned -1
\* without a system call and errno is left from an earlier one.
ReadBlocked(f) ==
  /\ TakeEvent(f, "in")
  /\ IF BufferFull(f) THEN errno = "EAGAIN" ELSE Usable(f) /\ rcvq[f] = 0 /\ ~hup[f]
  /\ ModFd(f, "in")
  /\ errno' = IF Usable(f) THEN "EAGAIN" ELSE "other"
  /\ Goto(Main, "append", f)
  /\ UNCHANGED <<rcvq, full, conn>>

\* read() returns false: recv() failed or met the end of the stream, or the
\* buffer is full and errno happens not to be EAGAIN.
ReadFails(f) ==
  /\ TakeEvent(f, "in")
  /\ IF BufferFull(f) THEN errno # "EAGAIN" ELSE ~Usable(f) \/ hup[f]
  /\ errno' \in {errno, "other"}
  /\ Goto(Main, "close", f)
  /\ UNCHANGED <<rcvq, full, armed, conn>>

\* pool->append(users + sockfd); main() ignores its result.
AppendTask ==
  /\ pc[Main] = "append"
  /\ m_workqueue' = IF Len(m_workqueue) > MaxRequests
                    THEN m_workqueue
                    ELSE Append(m_workqueue, cur[Main])
  /\ Goto(Main, "loop", NoFd)
  /\ UNCHANGED <<client, epoll, batch, conn, count>>

\* write(): the whole response went out, or writev() had nothing to send and
\* returned 0.  A keep-alive connection, and one without a response, is reset and
\* watched for the next request; another one is closed.
WriteAll(f) ==
  /\ TakeEvent(f, "out")
  /\ Usable(f) /\ ~full[f]
  /\ IF req[f].connect \/ req[f].iv = 0
     THEN HttpReset(f) /\ ModFd(f, "in") /\ Stay
     ELSE /\ req' = [req EXCEPT ![f].iv = 0]
          /\ Goto(Main, "close", f)
          /\ UNCHANGED armed
  /\ UNCHANGED <<rcvq, full, errno, m_sockfd>>

\* write(): the send buffer fills up, perhaps after a part of the response.
WriteBlocked(f) ==
  /\ TakeEvent(f, "out")
  /\ Usable(f) /\ req[f].iv > 0
  /\ \E left \in 1..req[f].iv : req' = [req EXCEPT ![f].iv = left]
  /\ full' = [full EXCEPT ![f] = TRUE]
  /\ ModFd(f, "out")
  /\ errno' = "EAGAIN"
  /\ Stay
  /\ UNCHANGED <<rcvq, m_sockfd>>

\* write(): writev() fails on a connection that is gone.
WriteFails(f) ==
  /\ TakeEvent(f, "out")
  /\ ~Usable(f) \/ hup[f]
  /\ errno' = "other"
  /\ Goto(Main, "close", f)
  /\ UNCHANGED <<rcvq, full, armed, conn>>

-----------------------------------------------------------------------------
(* close_conn(), by the reactor or by a worker *)

\* Where the caller goes on: main() with its batch, process() with its modfd.
AfterClose(t) == IF t = Main THEN Goto(Main, "loop", NoFd) ELSE Goto(t, "modout", cur[t])

\* The test of m_sockfd, and removefd(): EPOLL_CTL_DEL and close().
CloseRemove(t) ==
  /\ pc[t] = "close"
  /\ IF m_sockfd[cur[t]] = NoFd
     THEN AfterClose(t) /\ UNCHANGED <<epoll, rcvq, hup, full>>
     ELSE RemoveFd(m_sockfd[cur[t]]) /\ Goto(t, "forget", cur[t])
  /\ UNCHANGED <<backlog, batch, conn, m_workqueue, count>>

\* m_sockfd = -1, and the load of m_user_count--.
CloseForget(t) ==
  /\ pc[t] = "forget"
  /\ m_sockfd' = [m_sockfd EXCEPT ![cur[t]] = NoFd]
  /\ reg' = [reg EXCEPT ![t] = m_user_count]
  /\ Goto(t, "count", cur[t])
  /\ UNCHANGED <<client, epoll, batch, req, m_workqueue, m_user_count>>

Uncounted(t) == reg[t] - 1

CloseCount(t) ==
  /\ pc[t] = "count"
  /\ m_user_count' = Uncounted(t)
  /\ reg' = [reg EXCEPT ![t] = 0]
  /\ AfterClose(t)
  /\ UNCHANGED <<client, epoll, batch, conn, m_workqueue>>

CloseConn(t) == \/ CloseRemove(t)
                \/ CloseForget(t)
                \/ CloseCount(t)

-----------------------------------------------------------------------------
(* A worker: run() of the pool and process() *)

\* Mutant of Popped: front() without pop_front().
NotPopped == m_workqueue

Popped == Tail(m_workqueue)

Take(w) ==
  /\ pc[w] = "idle"
  /\ m_workqueue # <<>>
  /\ m_workqueue' = Popped
  /\ Goto(w, "parse", Head(m_workqueue))
  /\ UNCHANGED <<client, epoll, batch, conn, count>>

\* http_parse() returns NO_REQUEST: all units are checked, the request is not
\* complete.  With RequestsFit that leaves room in the buffer.
ParseIncomplete(w) ==
  /\ pc[w] = "parse"
  /\ RequestsFit => ~BufferFull(cur[w])
  /\ req' = [req EXCEPT ![cur[w]].checked = req[cur[w]].read]
  /\ Goto(w, "modin", cur[w])
  /\ UNCHANGED <<client, epoll, batch, m_sockfd, m_workqueue, count>>

\* A response fits into write_buffer.
RoomInWrite(q) == q.write < WriteSize

\* Mutant of Parsed: a file is not looked at before it is answered.
ParsedUnmapped(q, next, keep) ==
  [q EXCEPT !.checked = q.read, !.connect = keep, !.answered = TRUE]

\* The object after http_parse(); do_request() has mapped a file.
Parsed(q, next, keep) ==
  [q EXCEPT !.checked = q.read, !.connect = keep, !.answered = TRUE,
            !.mapped = @ \/ next \in {"file", "cut"}]

\* http_parse() returns anything else, after units that it had not checked or once
\* more; and add_response() looks, unlocked, whether the response fits.  If not,
\* process() closes the connection, except for a file, where it does not look.
ParseComplete(w) ==
  /\ pc[w] = "parse"
  /\ req[cur[w]].checked < req[cur[w]].read \/ req[cur[w]].answered
  /\ \E next \in IF RoomInWrite(req[cur[w]]) THEN {"page", "file"} ELSE {"close", "cut"},
        keep \in BOOLEAN :
       /\ req' = [req EXCEPT ![cur[w]] = Parsed(@, next, keep)]
       /\ reg' = [reg EXCEPT ![w] = IF next \in {"page", "file"} THEN req[cur[w]].write ELSE 0]
       /\ Goto(w, next, cur[w])
  /\ UNCHANGED <<client, epoll, batch, m_sockfd, m_workqueue, m_user_count>>

\* The object after process_write(), which found write_index at "at": m_iv has one
\* entry, or two with a mapped file.
Responded(q, at, from) == [q EXCEPT !.write = IF from = "cut" THEN @ ELSE at + 1,
                                    !.iv = IF from = "page" THEN 1 ELSE 2]

\* write_index += len loads write_index again, before or after what others stored
\* meanwhile.
AddResponse(w) ==
  /\ pc[w] \in {"page", "file", "cut"}
  /\ \E old \in {reg[w], req[cur[w]].write} :
       req' = [req EXCEPT ![cur[w]] = Responded(@, old, pc[w])]
  /\ reg' = [reg EXCEPT ![w] = 0]
  /\ Goto(w, "modout", cur[w])
  /\ UNCHANGED <<client, epoll, batch, m_sockfd, m_workqueue, m_user_count>>

ModIn(w) ==
  /\ pc[w] = "modin"
  /\ ModFd(cur[w], "in")
  /\ Goto(w, "idle", NoFd)
  /\ UNCHANGED <<client, open, batch, conn, m_workqueue, count>>

ModOut(w) ==
  /\ pc[w] = "modout"
  /\ ModFd(cur[w], "out")
  /\ Goto(w, "idle", NoFd)
  /\ UNCHANGED <<client, open, batch, conn, m_workqueue, count>>

-----------------------------------------------------------------------------

Clients == Connect \/ \E f \in Fds : Send(f) \/ Drain(f) \/ HangUp(f)

Reactor == \/ EpollWait
           \/ BatchDone
           \/ AcceptFails
           \/ AcceptBusy
           \/ InitConn
           \/ AppendTask
           \/ \E f \in Fds : \/ AcceptConn(f)
                             \/ HandleHup(f)
                             \/ ReadData(f)
                             \/ ReadBlocked(f)
                             \/ ReadFails(f)
                             \/ WriteAll(f)
                             \/ WriteBlocked(f)
                             \/ WriteFails(f)

Process(w) == \/ ParseIncomplete(w)
              \/ ParseComplete(w)
              \/ AddResponse(w)
              \/ ModIn(w)
              \/ ModOut(w)

Next == \/ Clients
        \/ Reactor
        \/ \E w \in Workers : Take(w) \/ Process(w)
        \/ \E t \in Threads : CloseConn(t)

(****************************************************************************)
(* The threads run; the clients need do nothing.  Taking a task is fair to   *)
(* the pool as a whole, which is what ThreadPool shows of it.                *)
(****************************************************************************)
Fairness == /\ WF_vars(Reactor \/ CloseConn(Main))
            /\ \A w \in Workers : WF_vars(Process(w) \/ CloseConn(w))
            /\ WF_vars(\E w \in Workers : Take(w))

Spec == Init /\ [][Next]_vars /\ Fairness

-----------------------------------------------------------------------------
(* Who holds a connection.  init() calls addfd() before it has finished with  *)
(* the object; until then the reactor, the one caller of epoll_wait(), has it.*)

InInit(f) == pc[Main] = "init" /\ cur[Main] = f

KernelHas(f)    == armed[f] # "off" /\ ~InInit(f)
ReactorHas(f)   == events[f] # "none" \/ cur[Main] = f
QueueHas(f)     == \E i \in 1..Len(m_workqueue) : m_workqueue[i] = f
WorkerHas(w, f) == cur[w] = f
WorkersHave(f)  == \E w \in Workers : WorkerHas(w, f)

(* EPOLLONESHOT at work: never two of the kernel's interest, the reactor's    *)
(* batch or handler, a queued task and a worker's process() are about the     *)
(* same connection, so http_conn needs no lock of its own.                    *)
OneHolder ==
  /\ \A f \in Fds : /\ KernelHas(f) => ~ReactorHas(f) /\ ~QueueHas(f) /\ ~WorkersHave(f)
                    /\ ReactorHas(f) => ~QueueHas(f) /\ ~WorkersHave(f)
                    /\ QueueHas(f) => ~WorkersHave(f)
                    /\ events[f] # "none" => cur[Main] # f
  /\ \A i, j \in 1..Len(m_workqueue) : m_workqueue[i] = m_workqueue[j] => i = j
  /\ \A w, v \in Workers : cur[w] = cur[v] /\ cur[w] # NoFd => w = v

(* What the comment on EPOLLONESHOT says: one socket is handled by only one   *)
(* thread at a time.                                                          *)
OneThread == \A s, t \in Threads : cur[s] = cur[t] /\ cur[s] # NoFd => s = t

(* The object and the party that holds the connection agree on the phase of   *)
(* the exchange.  While a request is awaited, read, queued or parsed there is *)
(* no response, no mapping that the next mmap() would lose, and nothing       *)
(* unparsed when recv() is awaited; while a response is watched or about to   *)
(* be sent there is one, and its file stays mapped.                           *)
Parsing(f)    == \E w \in Workers : cur[w] = f /\ pc[w] = "parse"
Answering(f)  == \E w \in Workers : cur[w] = f /\ pc[w] = "modout"
Requesting(f) == \/ armed[f] = "in" /\ ~InInit(f)
                 \/ events[f] = "in"
                 \/ pc[Main] = "append" /\ cur[Main] = f
                 \/ QueueHas(f)
                 \/ Parsing(f)
Responding(f) == armed[f] = "out" \/ events[f] = "out" \/ Answering(f)
PhaseMatches ==
  \A f \in Fds :
    /\ Requesting(f) => req[f].iv = 0 /\ req[f].write = 0 /\ ~req[f].mapped
    /\ Responding(f) => req[f].iv > 0 /\ (req[f].iv = 2 => req[f].mapped)
    /\ KernelHas(f) => req[f].checked = req[f].read

(* What main.cpp:134 says of a read() that returned true: the connection is   *)
(* added to the pool as a task.  So no open connection is in nobody's hands.  *)
NotAbandoned ==
  \A f \in open : KernelHas(f) \/ ReactorHas(f) \/ QueueHas(f) \/ WorkersHave(f)

(* m_user_count starts at -1 and is compared before init() counts, so one     *)
(* connection more than MAX_FD is let in, and never a second one.             *)
AdmissionBound == Cardinality(open) <= MaxFd + 1

(* A connection whose client has gone is closed, wherever it is at that time: *)
(* the event is not lost although ONESHOT has disarmed the descriptor.        *)
(* The descriptors are interchangeable, so one of them stands for all.        *)
AnyFd == CHOOSE f \in Fds : TRUE
HangupCloses == (AnyFd \in open /\ hup[AnyFd]) ~> AnyFd \notin open

(* The connections are handed over as ConnOwnership says: each comes back to  *)
(* the kernel or is closed, or is lost because a full queue refused it.       *)
HolderOf(f) == CASE KernelHas(f)   -> "kernel"
                 [] ReactorHas(f)  -> "reactor"
                 [] QueueHas(f)    -> "queue"
                 [] WorkersHave(f) -> CHOOSE w \in Workers : WorkerHas(w, f)
                 [] OTHER          -> IF f \in open THEN "lost" ELSE "nobody"
holder == [f \in Fds |-> HolderOf(f)]
Ownership == INSTANCE ConnOwnership
ImplementsOwnership == Ownership!Spec
==============================================================================
