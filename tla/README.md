# TLA+ models and proofs for linux_server_learn

The repository collects programs written while learning Linux server
programming. The largest is a web server (`src/src/http_server`) with one
reactor thread, `EPOLLONESHOT`, and a thread pool; around it are a chat server, a
program that starts a thread for each event, and demonstrations of single calls.
There are no tests and no documents apart from the comments in the code, so the
code and its comments are the only reference. Paths below leave out the first
`src/`: `http_server/main.cpp` is `src/src/http_server/main.cpp`.

## 1. Inventory

| Component | State | Operations | Interacts with |
|---|---|---|---|
| Thread pool (`thread_pool.hpp`, `locker.hpp`) | `m_workqueue`, `m_queuestat` (semaphore), `m_queuelocker` (mutex), `m_stop` | constructor, `append()`, `run()` of each thread, destructor | main() appends `http_conn`s, `run()` calls `process()` |
| Reactor (`http_server/main.cpp`) | `users[MAX_FD]`, epoll instance, the batch `events` | accept, hang-up, read, write branches | epoll, pool, `http_conn` |
| Connection (`http_conn.hpp`) | `m_sockfd`, `m_http_req`, the static `m_user_count` (unlocked) | `init`, `read`, `write`, `process`, `close_conn` | called by reactor and by workers |
| epoll helpers (`mutil_io.h`) | interest of each descriptor | `addfd`, `removefd`, `modfd` | kernel |
| Request parser (`http_parse.hpp`) | `read_buffer`, `read_index`, `checked_index`, `start_line`, `check_state`, header fields | `http_read`, `http_parse`, `parse_line`, `parse_requestline`, `parse_headers`, `parse_content`, `http_reset` | `read()` fills, `process()` parses |
| Response (`http_parse.hpp`) | `write_buffer`, `m_iv[2]`, `m_file_address`, `m_bytes_have_send` | `do_request`, `add_response`, `http_write_buffer`, `http_write`, `unmap` | `process()` builds, `write()` sends |
| Chat server (`chat_server/main.cpp`) | `fds`, `user_count`, `users[fd].buf`, `users[fd].write_buf`, epoll | accept loop, error, hang-up, read + broadcast, send | chat clients |
| Thread per event (`test_epolloneshot/main.cpp`) | epoll, the local `fds_for_new_worker` | main loop, `worker()`, `reset_oneshot()` | pthreads share the local |
| Signals (`unified_event_source/main.cpp`) | `pipefd`, `errno`, `signals`, `stop_server` | `sig_handler`, loop, shutdown | handler writes into the pair the loop reads, and interrupts the loop |
| Trigger modes (`test_epoll/main.cpp`), echo (`handle_tcp_udp/main.cpp`) | epoll, the batch | `lt()`, `et()`; the loops of `accept()`, `recvfrom()` and `recv()` | clients, over TCP and UDP |
| First parser (`http_parse/http_parse.c`) | buffer and indices, local to `http_parse()` | `parse_line`, `parse_requestline`, `parse_headers`, `parse_content` | its own main(), one connection |
| Chat client, `select`, out-of-band, socket options, accept/listen/getaddrinfo/uid tests, `main.cpp` (rebuild of a binary tree) | none kept between calls | straight-line | |

What is hard in this code, and what makes a component correct:

- **Pool.** The push is under the mutex, the `post()` after `unlock()`, the
  `wait()` before `lock()`. Queue and semaphore must not drift apart, a woken
  worker must find a request, each request is run once and in order, and none waits
  for ever. The destructor waits for nobody.
- **Reactor, connections, workers.** `http_conn` has no lock. What keeps threads
  apart is `EPOLLONESHOT`: one report disarms the descriptor, and whoever has the
  connection then must pass it on or re-arm it. Every branch, early return,
  failure and close must keep "exactly one party has the connection", also when
  descriptors are reused; the object must be in the phase that party expects; the
  unlocked counter is nobody's; a client that leaves must be noticed.
- **Parser.** Bytes come in segments of any size. The verdict must not depend on
  the segments, and fields of one request must not leak into the next on a
  keep-alive connection.
- **Response.** `add_response()` refuses what does not fit and most of its answers
  are ignored, so no response with a hole may be sent. `writev()` may stop
  anywhere. The client must get exactly the head and the file.
- **Chat server.** One thread, edge triggered. The user array must be the set of
  connections, no descriptor may be left unwatched, and the words of a user who
  stays must be read.
- **Thread per event.** One thread for one socket at a time.
- **Signals.** A handler runs between any two steps of main(), also between the
  return of `epoll_wait()` and the test of `errno`, and during the shutdown.
  SIGINT must end the program and nothing else may.
- **Trigger modes and echo.** How much is read for one event must fit how the
  descriptor is registered: no input may be forgotten, no call made for nothing.
- **First parser.** It should accept and reject what its successor does.

`PROJECT.json` lists every hazard at its line.

## 2. Modules

| Module | Models | Uses |
|---|---|---|
| `TaskQueue` | abstract: a FIFO of tasks, each handed to one free worker, none waits for ever | |
| `ThreadPool` | `append()`, `run()`, destructor; one step per access to shared state | implements `TaskQueue` |
| `ThreadPool_proof` | theorems about `ThreadPool` | |
| `ConnOwnership` | abstract: who has a connection, and that it comes back | |
| `HttpServer` | reactor, `http_conn`, epoll, workers | implements `ConnOwnership`; its pool is one step per call, as `ThreadPool` justifies |
| `HttpServer_proof` | theorems about `HttpServer` | |
| `HttpParse` | the receiver: `http_read`, `http_parse`, `http_reset`, a client that leaves | with a reference definition of what a text means |
| `HttpParse_proof` | theorems about `HttpParse`, `HttpParsers` and `MCHttpMessages` | `HttpWrite_proof` |
| `FirstParser` | `http_parse()` of `http_parse.c`, as operators on its local variables | the units of `HttpParse` |
| `HttpParsers` | both parsers, given the same segments | `HttpParse`, `FirstParser` |
| `MCHttpMessages` | the two halves of an `http_req_t`, `HttpParsers` and `HttpWrite`, side by side | both |
| `HttpWrite` | the sender: `http_write_buffer`, `m_iv`, `write()`, `http_write`, mapping | `ResponseBuffer` |
| `HttpWrite_proof` | theorems about `ResponseBuffer` and `HttpWrite` | |
| `ResponseBuffer` | what `http_write_buffer()` prints: `add_response` and its callers, with the lengths of the real texts | operators only, used by `HttpWrite` |
| `ChatServer` | the chat server | |
| `ChatServer_proof` | theorems about `ChatServer` | |
| `OneshotWorkers` | thread per event | |
| `OneshotWorkers_proof` | theorems about `OneshotWorkers` | |
| `SignalPipe` | signal handler, loop and shutdown of `unified_event_source` | |
| `EventLoops` | `lt()`, `et()` and the echo server, by `program` | |
| `EventLoops_proof` | theorems about `EventLoops` | |
| `MCEventPrograms` | `SignalPipe`, `EventLoops` and `OneshotWorkers` side by side | all three |
| `EventPrograms_proof` | theorems about `SignalPipe` and `MCEventPrograms` | `EventLoops_proof`, `OneshotWorkers_proof` |
| other `MC*` | symmetry sets of the TLC runs | |

### How they correspond to the code

**ThreadPool.** `wpc[w]` and `apc[c]` are places in `run()` and `append()`;
the actions `Run*` and `Append*` are the lines between two accesses to shared
state. `Wait`, `Post`, `Lock`, `Unlock` are the methods of `locker.hpp`.
`request[w]` is the local variable of `run()`. The constructor is `Init`. `Destroy` is
the body of the destructor, and `DestroyMember` what the compiler adds to it: semaphore,
mutex, list and memory go one after the other while the detached workers are where
they are. A worker that uses what is gone is at `"undefined"` (`RunUndefined`).

**HttpServer.** `req[f]` is `users[f].m_http_req` reduced to what the threads
tell apart: how many units are read and parsed, how many responses are in
`write_buffer`, how many `m_iv` entries have data left, keep-alive, mapping.
`pc` and `cur` say where main() and each worker are and for which connection.
`init()` and `close_conn()` are cut where another thread can see the difference:
`addfd` before the store of the counter, `removefd` before `m_sockfd = -1`
before the store of the counter. `errno` is a variable because `read()` decides
by a value left from an earlier call (`ReadBlocked`, `ReadFails`). `armed` is the
epoll interest; `Reported` and `Disarmed` are the kernel's part. `events` is the
batch, taken in any order. What a parse yields is a choice of `ParseIncomplete`
and `ParseComplete`; `HttpParse` has the parser itself. A task that finds nothing new
to check may repeat the answer of the one before (`answered`). `add_response()` is cut
between its test of the room and its update of `write_index` (`AddResponse`), so two
workers in one object can move `write_index` past the end.

**ConnOwnership.** `holder[f]` is one of the kernel, the reactor, the queue, a worker,
`"nobody"` for a descriptor that is not open, and `"lost"` for a connection whose
task a full queue refused: nothing leads back from there.

**HttpParse.** The buffer holds units: CR, LF, or a piece of text the parser
treats as one (`get` a request line, `keep`/`close` a Connection field, `len` a
Content-Length field, `text` anything else). `ParseLine` is `parse_line()`, and
one action is one turn of the loop in `http_parse()`. `Malformed`, `Complete`,
`Headers` are the reference: they look at the whole text, not at how it came.
`cut` records whether a segment ended inside the body; no action reads it.
`HangUp` is `read()` when the client is gone: the object keeps a half-read
request until `http_reset()` makes it ready for the next connection. `AfterNul` is
the NUL that `parse_content()` writes behind a body; behind a full buffer it is the
lowest byte of `checked_index` (`http_parse.hpp:159`).

**FirstParser, HttpParsers.** `http_parse()` of the C program keeps everything in
local variables, a record here: `Fed` is one `recv()`, `Ended` the `recv()` that
returns 0, `parse_content` one turn of the loop after it, and `running` says that
it is in this loop. `HttpParsers` adds the record `first` to `HttpParse` and feeds it
whatever the receiver reads; in between each goes on by itself (`Alone`, `FirstTurn`).

**HttpWrite.** A unit of the response is `<<"head", i>>` or `<<"file", i>>`, so
loss, repetition and reordering show. `Passed` is one turn of the `for` of
`http_write()`. `received` is what the client has; `first` records how much the
first `writev()` took. No action but their own update reads them. `buffer` is
`write_buffer` as `ResponseBuffer` prints it, with the real lengths; `m_iv` keeps
the units apart, `HeadLen` of them for any head.

**ResponseBuffer.** A response is a fold of `Add`, which is `add_response()`, over
its pieces; a piece is a name and the length of its text, and the lengths are
those of the strings in `http_parse.hpp`. `index` is `write_index`, `end` the
place where `vsnprintf()` put its terminator, `ok` the answer of the last call.
`Page` is the branches of `http_write_buffer()` with a content, `FileHead` the
one with a mapped file. `HttpServer` keeps of all this only whether there is room
(`RoomInWrite`) and that the branch for a file does not ask.

**ChatServer.** One thread, so a handler is one step except where it calls the
kernel again and a client can act in between: the loops of `accept()` and
`recv()`. `write_buf[f]` names the user whose buffer it points into. `len` is the
local variable of the reading. A `send()` to a connection that was reset meanwhile can raise SIGPIPE, which the
program does not ignore; `pc` is `"killed"` then and nothing happens any more.

**OneshotWorkers.** `sockfd` is `fds_for_new_worker.sockfd`, the local variable
that every thread is given a pointer to; `ReadArgument` is the thread's read of
it. With `ReadsAtOnce` a thread is created only when the one before has read its
argument, which the code does not ensure.

**SignalPipe.** `Raise` makes a signal pending, `sig_handler` handles it: one step,
since all signals are masked in the handler, and enabled between any two steps of
main(). `pipe` is what is in the socket pair, `ends` which ends are open, `errno`
and `number` what the test after `epoll_wait()` looks at. A handler that interrupts
a sleeping `epoll_wait()` leads to `"intr"`, after which it returns -1 with `EINTR`.
`listenfd` is never added to the epoll instance, so the branch of `accept()` is
not reached. `missed` records that a SIGINT found the pair full; only the liveness
property reads it.

**EventLoops.** `program` says which of the three loops runs. `readable[f]` is
epoll's edge: something came since `f` was last reported, and a descriptor on the
ready list is looked at again before it is reported, as the kernel does. `lt()`
reads once for an event (`LtRecv`, `LtEnd`), `et()` and the echo server in a loop
(`RecvStart` to `RecvAgain`), and the clients act between two turns of it. The echo
server closes at the end of a stream without leaving its loop (`EchoEof`); the
next `recv()` fails with `EBADF`, and it calls `close()` again (`EchoBadFd`). What is
echoed leaves no trace but SIGPIPE.

**MCEventPrograms, MCHttpMessages.** What they put side by side shares nothing that is
modelled; `running` says which one runs, and the variables of the others do not change. It
saves runs, no more. They instantiate the `_proof` modules, which extend the
specifications, so that the theorems about the parts can be cited of the whole.

## 3. Runs

The type invariant of a module is checked in one run (`server_long` has that of
`HttpServer`); the table names the other properties.

| Run | Instance | Question |
|---|---|---|
| `pool` | 2 workers, 2 callers, 2 requests and NULL, `m_max_requests` 1 | `SemaphoreAccount`, `NoFutileWakeup`, `ImplementsTaskQueue` (order and progress) |
| `pool_limit` | as before | **violated**: `QueueWithinMax` |
| `server` | 2 descriptors, 1 worker, a buffer of 1 unit, a queue with room | `OneHolder`, `PhaseMatches`, `HangupCloses`, `ImplementsOwnership` |
| `server_long` | 1 connection, 2 workers, a buffer of 3 units and requests in parts, some longer than it | `read_buffer` is not overrun, `HangupCloses` even with two threads in a connection |
| `two_threads` | 1 connection, 2 workers, a buffer of 2 units | **violated**: `OneThread` |
| `refused` | 3 connections, 1 worker, `m_max_requests` 1 | **violated**: `NotAbandoned` |
| `messages` | 93 requests, every segmentation, one after another on one object; and a head of 3 units, files of 0, 2, 3, 5, a `write_buffer` of 1024 | `SegmentsIrrelevant`, `FileOnlyForWhole`, `KeepAliveOfThisRequest`, `ParsersAgree` with the first parser; `EntriesPointIntoBuffers`, `AllReceived`, `HeadIsThisResponse`, `WriteReturns`, and from every `write_index` `ContentImpliesWhole`, `OnlyPrintedIsSent` |
| `split_body` | as before | **violated**: `CompleteIsAnswered` |
| `short_write` | as before | **violated**: `PrefixReceived` |
| `chat` | 2 descriptors, `USER_LIMIT` 2, readings of 2 units, 2 in the backlog | `UsersAreConnections`, `NoStrandedConnection`, `NobodyDisarmed`, `ClientsAreServed` |
| `oneshot_argument` | 2 descriptors, 3 threads | **violated**: `OneThread` |
| `programs` | 3 signals, a pair of 3, `signals[]` of 2; 2 connections, `recv()` of 2 units, 3 unread, 2 datagrams; 2 descriptors, 2 threads, `ReadsAtOnce` | `StopsOnlyForInterrupt`, `InterruptEnds`; `EventsStandForInput`, `ClosedOnlyWhenGone`, `InputIsServed`; `OneThread`, `DataIsRead` |

### What the violated runs show

- `pool_limit`. The comment on `m_max_requests` (`thread_pool.hpp:30`) calls it the
  largest number of requests in the queue; `append()` tests with `>` (line 70), before
  the push, so the queue comes to hold one more.
- `refused`. `append()` refuses a task when the queue is full, and main() does not
  look at the result (`main.cpp:135`). The event is used up, the descriptor disarmed:
  nobody looks at the connection again, not even when its client leaves. The queue
  takes 10001 tasks and `MAX_FD` is 65536.
- `two_threads`. `http_read()` returns -1 for a full `read_buffer` without a
  system call (`http_parse.hpp:743`). `http_conn::read()` then finds an `EAGAIN`
  left from an earlier call, re-arms the descriptor *and* returns true
  (`http_conn.hpp:105`), so main() queues a task while the kernel may report the
  connection again. From there two threads are in one `http_conn`.
- `split_body`. After an incomplete body `parse_content()` returns, line 719 of
  `http_parse.hpp` sets `LINE_OPEN`, the loop calls `parse_line()` on the body and
  `checked_index` moves past it; line 661 then asks for `content_length` bytes
  more. A body in two segments is never complete.
- `short_write`. In the `for` of `http_write()` the branch at line 224 does not
  zero `bytes_to_send`. When `writev()` stops inside the head or exactly at its
  end the same number is taken from the file's entry too, and that part of the
  file is never sent, although `write()` takes the response for finished.
- `oneshot_argument`. Every thread is given the address of one local variable
  (`test_epolloneshot/main.cpp:142`); the next turn of the loop can write over it
  before the thread has read it.

### Properties that say how far the code goes

Some properties state the code's real bound rather than what a comment suggests,
and the difference is worth knowing:

- `QueueBound` (proved): the queue takes `m_max_requests + 1` requests, and no more
  however many callers race.
- `AdmissionBound` (proved): `m_user_count` starts at -1, so it is one less than the
  number of connections, which the comment at `http_conn.hpp:25` says it counts. It is
  compared before it is incremented, and `MAX_FD + 1` connections can be open.
- The properties of the pool hold as long as no worker has used what the destructor
  destroyed (`Defined`), and progress until `m_stop` is set. That the workers come to
  an end is not claimed: the code does not see to it. The web server deletes its pool
  just before main() returns.
- Of `write_index` no bound is claimed where two threads are in one connection
  (`server_long`): `add_response()` does not keep it.
- `ContentImpliesWhole` is why it does no harm that `http_write_buffer()` ignores
  what `add_response()` answers for the status line and the headers: the content
  is longer than each of them, so when one of them does not fit it does not fit
  either. It rests on the texts, and a shorter error page would break it. For a
  mapped file nothing is looked at; `HeadIsThisResponse` says that its head fits
  because `http_reset()` sets `write_index` back.
  And `ContentImpliesWhole` speaks of pages only: a file's head that did not fit
  would be sent as it is.
- `ImplementsOwnership` lets a connection be lost where the queue is full
  (`ConnOwnership!Lose`); in `server` the queue has room for all, and there every
  connection comes back to the kernel or is closed.
- `HangupCloses` names one descriptor (`AnyFd`): they are interchangeable, and a
  formula for each would only repeat the search.
- The branch at `http_conn.hpp:89`, where a worker closes the connection and then calls
  `modfd()` for descriptor -1, is reached in `server_long` only. Two workers must have
  met in a connection before, and nobody connects after that client.
- `ClientsAreServed` (`WordsAreRead` and `LeaverIsDeleted`) exempts the states
  `"spin"` and `"killed"`. `recv() == 0` is taken for data (`chat_server/main.cpp:192`),
  so a client that closes while the server reads from it keeps the only thread in
  the loop until it resets the connection, for ever if it does not. And a `send()`
  to a client that has reset its connection ends the program by SIGPIPE.
- The chat model also has the behaviour in which a user's own reading
  (`resetonshot()`, line 180) takes back the `EPOLLOUT` a broadcast had set for
  him; the words meant for him are not sent before the next broadcast, by which time
  the speaker's buffer may hold others. `ClientsAreServed` shows that what
  he says himself, while he stays, and his leaving are seen nevertheless. A user who
  speaks and leaves at once is deleted with his words unread: the branch for
  `EPOLLRDHUP` comes before that for `EPOLLIN`.
- `NobodyDisarmed` is why the branch of `EPOLLOUT` that finds nothing to send and goes
  on without `resetonshot()` (line 212) does no harm: it is not reached.
- `SegmentsIrrelevant` holds for requests of which no segment ends inside the
  body. In `AllReceived` the file is all there for responses whose first `writev()`
  takes more than the head, the head for every response (`HeadIntact`, a part of it).
- `FileOnlyForWhole` says when `do_request()` is called, not that nothing is answered
  early: when a cut body has a stray CR or LF in it, line 719 sends `parse_line()` over
  it and the answer is 400 before the rest has come. `split_body`'s defect again.
- `ParsersAgree` is about accepting and rejecting. The first parser takes any
  Connection header for keep-alive and knows no bodies: it answers a request with
  a body at the end of its head. A client that leaves early makes it return what
  it returns for a complete request (`Ended`).
- `InterruptEnds` exempts a SIGINT that finds the socket pair full: `send()` in the
  handler fails and the signal is gone (`unified_event_source/main.cpp:42`).
- `NothingForgotten`, the first half of `EventsStandForInput`, promises nothing for
  the backlog of `lt()` and `et()`: they call `accept()` once for an event of an
  edge-triggered listening socket, so of two connections that come together the
  second waits for a third. The second half, `AcceptSucceeds`, is why it does no
  harm that they pass the result of `accept()` on unchecked.
- `InputIsServed` has the premise `Pauses`, that main() leaves the loops of `recv()` and
  `recvfrom()` again and again. The code does not ensure it: a client of `et()` or of
  the echo server who never lets `recv()` find nothing keeps the program to himself.
- `ClosedOnlyWhenGone` holds for the second `close()` of the echo server because the
  one thread opens no descriptor between the two.

### Bounds, and why they are enough

- Pool: two workers and two callers give every pair of races (two pushes at the
  limit, a pop between another worker's `wait` and `lock`); with `m_max_requests` 1
  the third request is refused. The theorems hold for any number.
- Server: `MaxRcv` (units under way per client) and `MaxBacklog` bound the
  environment. Two descriptors are the least with which one connection is closed
  and reused while another is in a handler or in the same batch; a third client is
  refused because `MaxFd` is 1. In `server` a request is one unit, so it comes whole
  (`ParseIncomplete` is not taken there) and every property fits one run; in `server_long`
  `ReadSize` 3 lets it arrive in parts, with `read_buffer` filling up or not.
  `WriteSize` 1: a second response in one buffer does not fit (the real one takes a
  few, and only two threads in one connection get that far). `OneClient` keeps
  the runs about one long connection to the races inside it; with `RequestsFit`
  false the buffer fills and workers close connections, with descriptor reuse
  after that left out. In `refused` three connections are the least: while the worker
  is late two tasks wait, and the third is refused. The theorems hold for all sizes, all but
  `ServerTypeOK` with `RequestsFit`.
- Parser: heads of at most two fields in each order with a repeated, an unknown
  and a conflicting one; bodies with text, line ends and the start of a next
  request; eight broken line structures. The buffer of 14 units is as long as the longest
  request that is accepted, so a body ends with the buffer's last unit; the longest texts
  have 17, a request and the start of the next, and fill it.
- Response: files shorter than, as long as and longer than the head, and none. The
  texts need no bound: every page is printed in a buffer of the real size, and for
  each every `write_index` is tried; of the files those with the shortest and the
  longest head are taken.
- Chat: two users are enough for the swap in `delete_user()`, for a broadcast, and
  for a descriptor that comes back under a pending `write_buf`. `MaxText` bounds what is
  collected in one reading and waits behind it, and stands for what fits into `buf`: a
  client whose text is longer than ten times `BUFFER_SIZE` in one reading is left out.
- Signals: two kinds besides SIGINT, so that a full `signals[]` can come before,
  with or after it; the pair of 3 is larger than `signals[]` of 2, so it can be read
  in two turns, and small enough to overflow. The theorems hold for all sizes.
- Event loops: texts of 3 units are longer than a reading of 2, so `lt()` needs two
  events and `et()` two turns; two connections let one come, talk or leave while
  the other is served. `MaxText` bounds what is unread, not what is said in all: a client
  may talk without end. What a client says before it is accepted is chosen by
  `accept()`, which keeps the backlog a number.
- Symmetry is used in `two_threads` and `oneshot_argument` only, which check no
  temporal property.

### Deadlock checking

It is off where the program really stops: after the destructor (`pool`), one client
served and gone (`OneClient`), a client with nothing left to send (`messages`), the
endless `recv()` loop, which changes nothing, and SIGPIPE (`chat`), the end after
SIGINT and SIGPIPE, and connections that a worker has dropped (`programs`).

### Fairness

- Pool: threads are scheduled (WF); `sem_wait()` lets some waiter through while
  the value is positive (WF of the disjunction, it does not say which); a thread
  waiting for a mutex that is released again and again gets it (SF). Calls of
  `append()` and the destructor are not fair. `TaskQueue`'s progress follows.
- Server: reactor and each worker run (WF); taking a task is fair for the pool as
  a whole only. Clients are not fair at all.
- Sender: only the thread inside `write()` goes on; the client need not drain.
- Chat: the server's thread runs. `AcceptPauses`, the premise of `ClientsAreServed`,
  excludes clients that connect faster than the loop accepts.
- Oneshot: main() and the threads run.
- Signals: main() runs, and a pending signal is handled (WF for each kind); signals
  need not come.
- Event loops: the thread runs. `Pauses`, the premise of `InputIsServed`, excludes that
  datagrams come faster than the loop of `recvfrom()` takes them, or a client's text
  faster than that of `recv()`, from some time on for ever. The loop of `accept()` needs
  no such premise only because the descriptors of a run bound the connections.
- The parser has safety properties only.

## 4. Proofs

Checked by TLAPS for every value of the constants (with the module's assumption).

**ThreadPool_proof.** `PoolTypeOK`, `PoolSemaphoreAccount`, `PoolNoFutileWakeup`,
`PoolQueueBound`, the second and third for as long as no worker has used what the destructor
destroyed, for any finite set of workers and callers, any requests and any
`m_max_requests`; and `PoolImplementsTaskQueue`, that every initial state and step
of the pool is one of `TaskQueue`, or changes nothing there. The account

    Len(m_workqueue) = m_queuestat + |woken workers| + |callers that pushed|

is close to inductive. It needs who holds the mutex (`LockInv`), so that `pop` and
`push` exclude each other, and that a worker in `pop` saw the queue not empty
under the lock (`PopInv`). `PushInv` keeps what a caller learned from its test of
the size; `RequestInv` gives the refinement a free worker at each pop; `DestroyInv`
says that no call is under way when the pool stops. A step of a caller changes
one of the two counted sets and the semaphore or the queue, never both sides
apart, which is what `CallerKeepsAccount` and `WorkerKeepsAccount` prove with the
cardinality theorems.

**HttpServer_proof.** `ServerTypeOK` needs no assumption: whatever the clients send,
and wherever two threads meet in one `http_conn`, `read_index` stays within
`read_buffer`. Of `write_index` it says only that it is a number. Its invariant `TInv` adds to the
types that the event of `listenfd` stands for a connection in the backlog and that
`append()` is reached with a connection in hand. From the assumption `RequestsFit` (no
request fills `read_buffer`): `ServerOneHolder`, `ServerOneThread`, `ServerPhaseMatches`,
`ServerAdmissionBound`, for any finite set of descriptors, any workers, any queue limit and any buffer sizes. The
inductive invariant is the conjunction of

- `PlaceInv`: a thread has a connection exactly in the places that work on one,
  and workers never reach `close_conn()` (a response always fits in a clean buffer);
- `BatchInv`: what a batch says is still so when it is handled;
- `OpenInv`: nobody holds a closed connection, and `m_sockfd` of an open one is
  its descriptor, which is why a worker never touches a reused descriptor;
- `OneHolder` itself;
- `PhaseInv`: `PhaseMatches` extended to the places between two phases, with the
  room that an incomplete request leaves in the buffer;
- `CountInv`: the counter with the loads under way;
- `AdmissionBound`.

`PhaseInv` and `OneHolder` depend on each other: the phase excludes the re-arming
`ReadBlocked`, which would break `OneHolder`, and one holder is why no other party
disturbs the phase. `CountInv` is here for `AdmissionBound` only; under `RequestsFit`
every `++` and `--` is the reactor's, so it says nothing of the missing lock. There is one lemma per action.
`RequestsFit` cannot be dropped here: `two_threads` is the counterexample.

From `RequestsFit` too: `ServerHandsOver`, that every initial state and step of
the server is one of `ConnOwnership` under `holder`, or changes nothing there, whatever
the size of the queue; a connection becomes `"lost"` only where `append()` refuses its
task. `Refused` shows by counting that the abstract queue is as full as the real one,
which holds distinct connections. For the rest
each action has a lemma `...Hands`: it moves one connection from one holder to
another (`OneMoves`), or leaves each where it was (`Keeps`), and `OneHolder`,
proved before, is why `HolderOf` names the new one.

**HttpWrite_proof.** `BufferPageIsWhole` and `BufferIsPrinted` about the operators
of `ResponseBuffer`, and from them `WriteContentImpliesWhole` and
`WriteOnlyPrintedIsSent` about `HttpWrite`, for a buffer of any size. The
argument of the first: a line that is refused leaves `write_index` where it was,
so at the place where the content is printed there is no room for that line
(`StatusMoves`, `HeadersMove`), and the content is longer than any line
(`Lengths`); hence an accepted content means no refusal. `WriteOnlyPrintedIsSent` speaks
of the buffer as it is, with a page or with a file's head in it.

`WriteEntriesPointIntoBuffers` and `WriteAllReceived` hold for heads and files of any
length and wherever `writev()` stops. Their invariant `WInv` gives both entries of
`m_iv` from what the client has got (`SendingInv`): `m_iv[1]` is the part of the
head that has not arrived, and `m_iv[2]` the part of the file that has not, if the
first `writev()` took more than the head. `ReceivedInv` says what has arrived, unit by
unit. `Writev` is the step that needs it: `http_write()` moves each entry
by what that call sent, and the sum over all calls must come out right.

`WriteTypeOK` is for a buffer of any size. `WriteHeadIsThisResponse` has the hypothesis
that `write_buffer` has two bytes more than the longest response (140; the code has
1024): with a smaller one the text would be cut. `TextInv` says
that the text is that of the response whose sending has not begun.

**EventLoops_proof.** `LoopsInvariant` and `LoopsClosedOnlyWhenGone` for any number of
connections, any texts, and buffers of any size. `ClosedOnlyWhenGone` is an action
property: `lt()` closes for every result of `recv()` that is not positive, EAGAIN too. The invariant has three parts: `ConnInv`, that the connections that
wait and those that are open have a descriptor each, counted; `BatchInv`, where the
batch is empty, that in `lt()` an event of the batch stands for input that is there, and an event
of `listenfd` for a connection; and `InputInv`, that input is
still to be reported, in the batch, or being read. `InputInv` is where level and
edge triggering differ: each lemma `...Keeps` of a step that takes an event must
show that the reader goes on to EAGAIN or that the descriptor is reported again.

**EventPrograms_proof.** About the specification that the run `programs` checks:
`ProgramsOneThread` and `ProgramsWorkersTypeOK` from `OneshotWorkers_proof`, with its
assumption `ReadsAtOnce`; and
`ProgramsTypesOK`, `ProgramsEventsStandForInput`, `ProgramsClosedOnlyWhenGone`, each from
`EventLoops_proof` and from the theorems about `SignalPipe` of the same module,
`SignalTypeOK` and `SignalStopsOnlyForInterrupt`, for any set of
signals with SIGINT in it, any capacity of the pair and any size of `signals[]`. What
`StopsOnlyForInterrupt` needs beside the types is `ErrnoInv`, that a failed
`epoll_wait()` is tested while `errno` is still its own, so that the loop is not left
for it, and `EndsInv`, which ends are open at each place of main(), so that a handler
never writes to a pair whose other end is closed. `HandlerKeeps` is the step that
matters: `sig_handler` puts `errno` back, and it moves main() only from `"wait"` to
`"intr"`.

**ChatServer_proof.** `ChatTypeOK`, `ChatUsersAreConnections`, `ChatNoStrandedConnection`,
`ChatNobodyDisarmed`, for any descriptors and any `USER_LIMIT`. The array needs that its first
`user_count` entries are distinct (`UsersInv`), since `delete_user()` overwrites every
entry that names the user; `DeletedUser` and `AddedUser` prove that its swap, and the
append, keep it an enumeration of the connections. `HoldInv` says that interest and events
are those of connections, so a branch never deletes a user who is not there, and that
the connection that is being read has no event left in the batch. `ArmedInv` adds to
`NobodyDisarmed` that `EPOLLOUT` is awaited only where there are words to send. `ChatTypeOK` includes that
`fds` is not written beyond its end, which the run with as many descriptors as
`USER_LIMIT` cannot show.

**OneshotWorkers_proof.** From the assumption `ReadsAtOnce`: `OneshotOneThread` and
`OneshotTypeOK`, for any connections and threads. A connection is with one party at most:
armed, in the batch, the argument of the new thread, or held by a thread
(`OneParty`). `StartKeeps` is the only step that needs the assumption: without it
`sockfd` is written while another new thread has still to read it, which is
`oneshot_argument`'s counterexample. `ListenInv` is why `accept()` always finds a
connection although it is called once for an edge.

**HttpParse_proof.** For any texts, any segments and any buffer. `ParseTypeOK`:
`start_line <= checked_index <= read_index` and `read_index` within the buffer; so the
parser reads nothing that was not received, and `recv()` does not write beyond the
buffer. The NUL behind a body that ends at the full buffer is in it: it makes
`checked_index` smaller, so these bounds survive it. It rests on `LineForward` about `parse_line()`. `ParseLineAdvances` says that each
line it finds leaves less to parse, so the loop of `http_parse()` ends.

`ParseFileOnlyForWhole`, `ParseSegmentsIrrelevant` and `ParseKeepAliveOfThisRequest` compare
the parser, which sees a line at a time, with the reference of `HttpParse`, which
sees the whole text. None of the three is inductive, since between two calls they
say nothing of `checked_index`. `TextInv` says what the indices mean:

- in the head (`InHead`) all up to `start_line` is clean, that is every CR and LF
  of it belongs to a line end of the reference, `start_line` follows one of them,
  what follows up to `checked_index` is text (`Plain`), no empty line is among it, and
  `connect` and `content_length` are those of the header lines before `start_line`
  (`FieldsOf`);
- after it (`HeadAt`) the first empty line is behind `checked_index`, and the
  fields are those of the lines before it. What `parse_line()` does to the
  indices while it searches a body does not matter to this;
- in a body that no segment has cut (`InBodyAt`), `checked_index` is its first unit, and
  nothing of it is there when `parse_line()` is called;
- between two calls (`Finished`) no CR or LF is left but a CR at the very end.

`Kept` is why more text changes none of this: whether a line ends at `i` depends on
the units up to `i + 1` only. `FindsLine`, `FindsNone` and `FindsBad` translate the three
results of `parse_line()` into the reference's words; the branch of `parse_line()` for
an LF after a CR that has been passed is shown never to be taken in a head.
`LinesGrow` and `HeadGoesOn` are the step from line to line. The premise `~cut` of
`SegmentsIrrelevant` is needed: `split_body` is the counterexample without it. The
run checks `ParsersSpec`, in which the receiver takes the steps of `Spec` (`ParsersStep`).

`Messages...`: the six theorems of `HttpWrite_proof` about properties of the run
`messages`, for its specification, each step of which is one of `HttpWrite` or none of its
(`StepOfSender`).

`BothParsersAgree` compares the two parsers through the reference. What is said above of
the head is stated of any text and any indices (`HeadUpTo`, `EndsAt`, `ReadTo`), and so
are the lemmas on the next line (`NextHead`), the empty line (`EmptyLine`), a bad
first line and a stray CR or LF (`FirstLineBad`, `StrayIsBad`) and more text
(`HeadKept`). `FirstInv` says them of the first parser's own indices, which are not
those of the receiver while one of them is ahead. An answer of either is a fact about the text
(the head ends, or it is malformed), so once both have returned they agree
(`BothKnow`). The strengthening that this takes of `TextInv` is that a receiver that rejects
outside of a body rejects a malformed text, cut or not.

Model-checked only: everything temporal (`ImplementsTaskQueue`'s and
`ImplementsOwnership`'s progress, `HangupCloses`, `WriteReturns`, the liveness of
the chat server, of the thread-per-event program, of the signals and of the event
loops). Liveness and `ENABLED` are beyond the prover. Every invariant and every
action property of a passing run is stated by a theorem, those of `HttpServer` but
its types, and of `OneshotWorkers`, under the hypotheses named above, which hold in the
runs that check them. `SenderRuns` and `OneshotRuns` carry those of the sender and of the
thread-per-event program over to the specifications of the runs.

## 5. Not modelled

- `http_server/main.cpp`: failures of `epoll_wait()` and the shutdown code that
  only they reach (it deletes `users` before the pool, while workers may be in them), set-up calls, the `send()` of `show_error()`. A descriptor at
  or above `MAX_FD` indexes `users` out of its bounds; the model has no such one.
- Parser: header fields that nothing reads, other methods, the check of the URL,
  and negative or overflowing Content-Length values.
- Response: `strcmp()` with NULL for the name of a file without a dot
  (`http_parse.hpp:432`), an `mmap()` that fails, and the wording of the texts.
- Data races between a stale task and the reactor are modelled at the places where
  the threads' steps are cut; within one such step the model has no torn values, and
  `http_parse()` is one step.
- Chat server: a reading that does not fit into `buf`, failures of `accept()` for
  want of descriptors, after which its loop does not end.
- Signals: the branch of `listenfd`, which epoll never reports, and a failing
  `epoll_wait()` for another reason than a signal.
- Event loops: what the echo server sends back, a `send()` whose socket does not take
  all of it (the result is ignored), a `recvfrom()` that fails, after which `udpfd` is
  closed and the loop goes on, and failures of `accept()`.
- First parser: a full buffer, a `recv()` that fails, the URL and version of the
  request line, header fields other than Connection.
- `chat_client` copies between its input and the socket and keeps nothing between
  turns; `main.cpp` is one recursive function on two vectors, called once. The
  demonstrations are straight lines around one system call. See `PROJECT.json`.

## 6. Plan

Done, in this order: `TaskQueue`, `ThreadPool` and its proofs; `ConnOwnership`,
`HttpServer` and its proofs; `HttpParse`; `HttpWrite`, `ResponseBuffer` and its
proofs; `ChatServer`; `OneshotWorkers`; `SignalPipe` and its proofs; `EventLoops`;
`FirstParser` and `HttpParsers`.

Then the proofs of `ChatServer`, `OneshotWorkers`, of `HttpWrite` for every size, of the
steps of `HttpServer` as steps of `ConnOwnership`, of `EventLoops` for any number of
connections, and of the parser against its reference.

Next: the safety part of `TaskQueue` and `ConnOwnership` (what an abstract queue and an abstract
owner promise) as theorems that the refinements carry over.
