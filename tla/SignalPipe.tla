------------------------------- MODULE SignalPipe -------------------------------
(****************************************************************************)
(* src/src/unified_event_source/main.cpp: the signal handler writes the        *)
(* number of the signal into a socket pair, and main() reads it in its epoll   *)
(* loop like any other event.  listenfd is never added to the epoll instance,  *)
(* so pipefd[0] is the only descriptor that epoll_wait() can report.           *)
(*                                                                            *)
(* There is one thread, and sigfillset() masks every signal while the handler *)
(* runs: a handler is one step, taken between any two steps of main().         *)
(*                                                                            *)
(* pc: "loop"  at the test of stop_server    "wait"  in epoll_wait()           *)
(*     "intr"  a handler has interrupted epoll_wait(), which has not returned  *)
(*     "test"  at the test of number and errno                                 *)
(*     "recv", "dispatch"  in the branch of pipefd[0]                          *)
(*     "close1", "close0"  at the close() of pipefd[1] and of pipefd[0]        *)
(*     "ended", and "killed" by SIGPIPE                                        *)
(****************************************************************************)
EXTENDS Integers, SequencesExt

CONSTANTS Kinds,        \* the signals that addsig() was called for
          Capacity,     \* bytes that the socket pair holds
          ReadSize      \* sizeof(signals)

ASSUME SignalAssumption == /\ "INT" \in Kinds
                           /\ Capacity \in Nat \ {0} /\ ReadSize \in Nat \ {0}

VARIABLES pending,      \* signals that were raised and not handled
          pipe,         \* what was written to pipefd[1] and not read from pipefd[0]
          ends,         \* which of pipefd[0], pipefd[1] are open
          errno,
          number,       \* what epoll_wait() returned
          signals,      \* what is left to dispatch of signals[]
          stop_server,
          missed,       \* a SIGINT found the socket pair full
          pc

kernel == <<pending, pipe, ends>>
main   == <<number, signals, stop_server>>
vars   == <<kernel, main, errno, missed, pc>>

Init == /\ pending = {} /\ pipe = <<>> /\ ends = {0, 1}
        /\ errno = "none" /\ number = 0
        /\ signals = <<>> /\ stop_server = FALSE
        /\ missed = FALSE
        /\ pc = "loop"

Running == pc \notin {"ended", "killed"}

-----------------------------------------------------------------------------
(* Signals.  A kind that is pending already is not queued a second time. *)

Raise(sig) == /\ Running
              /\ pending' = pending \cup {sig}
              /\ UNCHANGED <<pipe, ends, main, errno, missed, pc>>

\* send() of the handler fails: pipefd[1] is closed, or would block.
SendFails == 1 \notin ends \/ Len(pipe) >= Capacity

\* Mutant of Restored: errno is not put back.
NotRestored == IF SendFails THEN "EAGAIN" ELSE errno

\* errno when the handler returns.
Restored == errno

\* Where main() goes on.  epoll_wait() looks for events before it sleeps, so
\* only one that found nothing is interrupted.
Resumed == CASE 1 \in ends /\ 0 \notin ends -> "killed"
             [] pc = "wait" /\ pipe = <<>>  -> "intr"
             [] OTHER                       -> pc

sig_handler(sig) ==
  /\ Running
  /\ sig \in pending
  /\ pending' = pending \ {sig}
  /\ pipe' = IF SendFails THEN pipe ELSE Append(pipe, sig)
  /\ missed' = (missed \/ (sig = "INT" /\ SendFails))
  /\ errno' = Restored
  /\ pc' = Resumed
  /\ UNCHANGED <<ends, main>>

-----------------------------------------------------------------------------
(* main() *)

MainStep == UNCHANGED <<pending, missed>>

Goto(from, to) == pc = from /\ pc' = to

\* while (!stop_server)
Loop == /\ Goto("loop", IF stop_server THEN "close1" ELSE "wait")
        /\ UNCHANGED <<pipe, ends, main, errno>> /\ MainStep

EpollWait == /\ Goto("wait", "test")
             /\ pipe # <<>>
             /\ number' = 1
             /\ UNCHANGED <<pipe, ends, signals, stop_server, errno>> /\ MainStep

\* The wrapper of the system call sets errno after the handlers have run.
Interrupted == /\ Goto("intr", "test")
               /\ number' = -1
               /\ errno' = "EINTR"
               /\ UNCHANGED <<pipe, ends, signals, stop_server>> /\ MainStep

Test == /\ Goto("test", CASE number < 0 /\ errno # "EINTR" -> "close1"
                          [] number < 0 /\ errno = "EINTR" -> "loop"
                          [] OTHER                         -> "recv")
        /\ UNCHANGED <<pipe, ends, main, errno>> /\ MainStep

\* Mutant of Shorter: signals[] is taken to be as long as the pair.
Whole(m, n) == m

Shorter(m, n) == IF m < n THEN m ELSE n

\* There is something to read: main() alone reads from the pair.
Recv == LET ret == Shorter(Len(pipe), ReadSize)
        IN  /\ Goto("recv", "dispatch")
            /\ signals' = SubSeq(pipe, 1, ret)
            /\ pipe' = SubSeq(pipe, ret + 1, Len(pipe))
            /\ UNCHANGED <<ends, number, stop_server, errno>> /\ MainStep

\* Mutant of Rest: the loop over signals[] is left after the first one.
NoRest == <<>>

Rest == Tail(signals)

\* One turn of the loop over signals[]: only SIGINT does more than print.
Dispatch == /\ Goto("dispatch", "dispatch")
            /\ signals # <<>>
            /\ stop_server' = (stop_server \/ Head(signals) = "INT")
            /\ signals' = Rest
            /\ UNCHANGED <<pipe, ends, number, errno>> /\ MainStep

Dispatched == /\ Goto("dispatch", "loop")
              /\ signals = <<>>
              /\ UNCHANGED <<pipe, ends, main, errno>> /\ MainStep

\* Which end of the pair is closed first.
ClosedFirst == 1

Close1 == /\ Goto("close1", "close0")
          /\ ends' = ends \ {ClosedFirst}
          /\ UNCHANGED <<pipe, main, errno>> /\ MainStep

Close0 == /\ Goto("close0", "ended")
          /\ ends' = {}
          /\ UNCHANGED <<pipe, main, errno>> /\ MainStep

Main == \/ Loop
        \/ EpollWait
        \/ Interrupted
        \/ Test
        \/ Recv
        \/ Dispatch
        \/ Dispatched
        \/ Close1
        \/ Close0

Next == \/ \E sig \in Kinds : Raise(sig) \/ sig_handler(sig)
        \/ Main

(* main() runs, and a pending signal is handled however many others come.     *)
Fairness == /\ WF_vars(Main)
            /\ \A sig \in Kinds : WF_vars(sig_handler(sig))

Spec == Init /\ [][Next]_vars /\ Fairness

-----------------------------------------------------------------------------

TypeOK == /\ pending \in SUBSET Kinds
          /\ pipe \in Seq(Kinds) /\ Len(pipe) <= Capacity
          /\ ends \in SUBSET {0, 1}
          /\ errno \in {"none", "EINTR", "EAGAIN"}
          /\ number \in {-1, 0, 1}
          /\ signals \in Seq(Kinds) /\ Len(signals) <= ReadSize
          /\ stop_server \in BOOLEAN /\ missed \in BOOLEAN
          /\ pc \in {"loop", "wait", "intr", "test", "recv", "dispatch",
                     "close1", "close0", "ended", "killed"}

(* The loop is left for a SIGINT only.  It is not taken for an error of        *)
(* epoll_wait() that a handler runs between its return and the test of errno,  *)
(* even when that handler's send() fails: the comment at main.cpp:39.          *)
NoSpuriousStop == pc \in {"close1", "close0", "ended"} => stop_server

(* A signal during the shutdown does not kill the process with SIGPIPE: the    *)
(* end that the handler writes to is closed before the one it is read from.    *)
NeverKilled == pc # "killed"

(* The program is ended by SIGINT alone, in whatever line other signals come.  *)
StopsOnlyForInterrupt == NoSpuriousStop /\ NeverKilled

(* And SIGINT ends it, in whatever line it comes and with whatever others it   *)
(* is read, unless it finds the socket pair full.                              *)
InterruptEnds == "INT" \in pending ~> pc = "ended" \/ missed
==============================================================================
