---------------------------- MODULE MCEventPrograms ----------------------------
(****************************************************************************)
(* The specifications of the small programs around one epoll loop, SignalPipe, *)
(* EventLoops and OneshotWorkers, for one TLC run.  They share nothing: the     *)
(* initial state says which of them runs, and the variables of the others stay  *)
(* as they are.                                                               *)
(****************************************************************************)
EXTENDS SignalPipe, FiniteSets

CONSTANTS Fds, NoFd, Programs, Chunk, MaxText, MaxUdp, Threads, MaxRcv, ReadsAtOnce

VARIABLES running,      \* "signals", "loops" with one of the three programs, or "oneshot"
          program, backlog, edge, udpq, udpEdge, open, unread, gone, readable,
          events, acceptEvent, udpEvent, place, cur,
          waiting, fresh, rcvq, left, sockets, armed, reported, listenEvent, sockfd,
          looping, threadAt, holds

loopVars == <<program, backlog, edge, udpq, udpEdge, open, unread, gone, readable,
              events, acceptEvent, udpEvent, place, cur>>

oneshotVars == <<waiting, fresh, rcvq, left, sockets, armed, reported, listenEvent, sockfd,
                 looping, threadAt, holds>>

\* EventLoops and OneshotWorkers, from the modules of their theorems, which extend them.
Loops == INSTANCE EventLoops_proof WITH pc <- place

Oneshot == INSTANCE OneshotWorkers_proof
             WITH backlog <- waiting, edge <- fresh, gone <- left, open <- sockets,
                  events <- reported, acceptEvent <- listenEvent, place <- threadAt

ASSUME ProgramsAssumption == Loops!LoopsAssumption /\ Oneshot!OneshotAssumption

\* SIGINT, and two of the three signals that are only printed.
SomeKinds == {"INT", "HUP", "CHLD"}

AllPrograms == {"lt", "et", "echo"}

RunInit == /\ Init /\ Loops!Init /\ Oneshot!Init
           /\ \/ running \in {"signals", "oneshot"} /\ program = "lt"
              \/ running = "loops"

\* A step of the program that runs.
Signals(step) == running = "signals" /\ step /\ UNCHANGED <<running, loopVars, oneshotVars>>
Looping(step) == running = "loops" /\ step /\ UNCHANGED <<running, vars, oneshotVars>>
Serving(step) == running = "oneshot" /\ step /\ UNCHANGED <<running, vars, loopVars>>

SignalStep == \/ \E sig \in Kinds : Signals(Raise(sig)) \/ Signals(sig_handler(sig))
              \/ Signals(Loop) \/ Signals(EpollWait) \/ Signals(Interrupted)
              \/ Signals(Test) \/ Signals(Recv)
              \/ Signals(Dispatch) \/ Signals(Dispatched)
              \/ Signals(Close1) \/ Signals(Close0)

LoopStep == \/ Looping(Loops!Connect) \/ Looping(Loops!SendDatagram)
            \/ \E f \in Fds : \/ Looping(Loops!Say(f)) \/ Looping(Loops!Leave(f))
                              \/ Looping(Loops!AcceptOne(f)) \/ Looping(Loops!AcceptEach(f))
                              \/ Looping(Loops!LtRecv(f)) \/ Looping(Loops!LtEnd(f))
                              \/ Looping(Loops!RecvStart(f))
            \/ Looping(Loops!EpollWait) \/ Looping(Loops!BatchDone)
            \/ Looping(Loops!AcceptStart) \/ Looping(Loops!AcceptEnds)
            \/ Looping(Loops!UdpStart) \/ Looping(Loops!RecvFrom) \/ Looping(Loops!UdpEnds)
            \/ Looping(Loops!EtRecv) \/ Looping(Loops!EchoRecv)
            \/ Looping(Loops!RecvAgain) \/ Looping(Loops!RecvEnd)
            \/ Looping(Loops!EchoEof) \/ Looping(Loops!EchoBadFd)

OneshotStep == \/ Serving(Oneshot!EpollWait) \/ Serving(Oneshot!BatchDone)
               \/ Serving(Oneshot!Connect)
               \/ \E f \in Fds : \/ Serving(Oneshot!Send(f)) \/ Serving(Oneshot!Leave(f))
                                 \/ Serving(Oneshot!Accept(f))
               \/ \E t \in Threads : \/ Serving(Oneshot!ReadArgument(t))
                                     \/ Serving(Oneshot!Wake(t)) \/ Serving(Oneshot!RecvFails(t))
               \/ \E f \in Fds, t \in Threads : \/ Serving(Oneshot!StartThread(f, t))
                                               \/ Serving(Oneshot!RecvData(t, f))
                                               \/ Serving(Oneshot!RecvAgain(t, f))
                                               \/ Serving(Oneshot!RecvEof(t, f))

RunNext == SignalStep \/ LoopStep \/ OneshotStep

\* The fairness of each specification, for the one that runs.
RunSpec == /\ RunInit
           /\ [][RunNext]_<<running, vars, loopVars, oneshotVars>>
           /\ WF_vars(running = "signals" /\ Main)
           /\ \A sig \in Kinds : WF_vars(running = "signals" /\ sig_handler(sig))
           /\ WF_loopVars(running = "loops" /\ Loops!Server)
           /\ WF_oneshotVars(running = "oneshot" /\ Oneshot!MainStep)
           /\ \A t \in Threads : WF_oneshotVars(running = "oneshot" /\ Oneshot!Worker(t))

-----------------------------------------------------------------------------

(* The type invariants of SignalPipe and EventLoops. *)
TypesOK == TypeOK /\ Loops!TypeOK

(* The type invariant of OneshotWorkers: accept(), whose result is asserted, is *)
(* called for a connection that waits.                                         *)
WorkersTypeOK == Oneshot!TypeOK

(* An event stands for input that is there: when main() goes to sleep no input *)
(* is left that no event will report, and accept(), whose result lt() and et() *)
(* do not look at, is called for a connection that waits.                      *)
EventsStandForInput == Loops!NothingForgotten /\ Loops!AcceptSucceeds

(* The comment at test_epolloneshot/main.cpp:96: one socket is handled by one  *)
(* thread at a time.                                                          *)
OneThread == Oneshot!OneThread

(* No connection is closed while its client is there, though lt() closes for   *)
(* EAGAIN too and the echo server closes a descriptor twice.                   *)
ClosedOnlyWhenGone == Loops!ClosedOnlyWhenGone

(* What clients say to lt(), et() and the echo server is read, and their       *)
(* leaving answered with a close().                                           *)
InputIsServed == Loops!InputIsServed

(* Data that clients send to test_epolloneshot reaches a thread.               *)
DataIsRead == Oneshot!DataIsRead
==============================================================================
