--------------------------- MODULE EventPrograms_proof ---------------------------
(* Theorems about SignalPipe, for any signals, any capacity of the socket pair    *)
(* and any size of signals[], and about the three specifications that run in        *)
(* MCEventPrograms: those of EventLoops_proof and of OneshotWorkers_proof carry     *)
(* over.                                                                            *)
EXTENDS MCEventPrograms, TLAPS

\* The two ends are closed in the order of close1, close0.
EndsInv == ends = CASE pc = "close0" -> {0}
                    [] pc = "ended"  -> {}
                    [] OTHER         -> {0, 1}

\* A failed epoll_wait() is tested while errno is still its own.
ErrnoInv == pc = "test" /\ number < 0 => errno = "EINTR"

IInv == TypeOK /\ EndsInv /\ ErrnoInv /\ StopsOnlyForInterrupt

USE SignalAssumption DEF SignalAssumption

\* Nothing has been raised.
LEMMA InitHolds == Init => IInv
<1> SUFFICES ASSUME Init PROVE IInv
  OBVIOUS
<1>1. pipe \in Seq(Kinds) /\ signals \in Seq(Kinds) /\ Len(pipe) = 0 /\ Len(signals) = 0
  BY DEF Init
<1>2. TypeOK
  BY <1>1, Capacity >= 0, ReadSize >= 0 DEF Init, TypeOK
<1> QED BY <1>2 DEF Init, IInv, EndsInv, ErrnoInv, StopsOnlyForInterrupt, NoSpuriousStop,
                    NeverKilled

\* A signal is raised: only pending changes.
LEMMA RaiseKeeps == ASSUME IInv, NEW sig \in Kinds, Raise(sig) PROVE IInv'
  BY DEF IInv, Raise, main, TypeOK, EndsInv, ErrnoInv, StopsOnlyForInterrupt,
         NoSpuriousStop, NeverKilled

\* A handler between two steps of main(): it writes into the pair, leaves errno as it
\* was, and at most wakes epoll_wait().
LEMMA HandlerKeeps == ASSUME IInv, NEW sig \in Kinds, sig_handler(sig) PROVE IInv'
<1>1. pc' = pc \/ (pc = "wait" /\ pc' = "intr")
  BY DEF IInv, EndsInv, sig_handler, Running, Resumed
<1>2. errno' = errno /\ ends' = ends /\ number' = number /\ stop_server' = stop_server
      /\ signals' = signals
  BY DEF sig_handler, Restored, main
<1>3. TypeOK'
  <2>1. pending' \in SUBSET Kinds /\ missed' \in BOOLEAN
    BY DEF IInv, TypeOK, sig_handler
  <2>2. pipe' \in Seq(Kinds) /\ Len(pipe') <= Capacity
    BY DEF IInv, TypeOK, sig_handler, SendFails
  <2> QED BY <1>1, <1>2, <2>1, <2>2 DEF IInv, TypeOK
<1> QED BY <1>1, <1>2, <1>3 DEF IInv, TypeOK, EndsInv, ErrnoInv, StopsOnlyForInterrupt,
                                NoSpuriousStop, NeverKilled

\* The steps of main() up to the reading of the pair.
LEMMA WaitKeeps == ASSUME IInv, Loop \/ EpollWait \/ Interrupted \/ Test PROVE IInv'
<1> USE DEF IInv, TypeOK, EndsInv, ErrnoInv, StopsOnlyForInterrupt, NoSpuriousStop,
            NeverKilled, Goto, MainStep, main
<1>1. CASE Loop
  BY <1>1 DEF Loop
<1>2. CASE EpollWait
  BY <1>2 DEF EpollWait
<1>3. CASE Interrupted
  BY <1>3 DEF Interrupted
<1>4. CASE Test
  BY <1>4 DEF Test
<1> QED BY <1>1, <1>2, <1>3, <1>4

\* The two parts of the pair that recv() makes are sequences of signals.
LEMMA RecvKeeps == ASSUME IInv, Recv PROVE IInv'
<1> DEFINE ret == Shorter(Len(pipe), ReadSize)
<1>1. ret \in Nat /\ ret <= Len(pipe) /\ ret <= ReadSize
  BY DEF IInv, TypeOK, Shorter
<1>2. signals' = SubSeq(pipe, 1, ret) /\ pipe' = SubSeq(pipe, ret + 1, Len(pipe))
  BY DEF Recv
<1>3. signals' \in Seq(Kinds) /\ Len(signals') <= ReadSize
  BY <1>1, <1>2 DEF IInv, TypeOK
<1>4. pipe' \in Seq(Kinds) /\ Len(pipe') <= Capacity
  BY <1>1, <1>2 DEF IInv, TypeOK
<1> QED BY <1>3, <1>4 DEF IInv, TypeOK, EndsInv, ErrnoInv, StopsOnlyForInterrupt,
                          NoSpuriousStop, NeverKilled, Recv, Goto, MainStep

\* The loop over signals[], which alone sets stop_server.
LEMMA DispatchKeeps == ASSUME IInv, Dispatch \/ Dispatched PROVE IInv'
<1> USE DEF IInv, TypeOK, EndsInv, ErrnoInv, StopsOnlyForInterrupt, NoSpuriousStop,
            NeverKilled, Goto, MainStep
<1>1. CASE Dispatch
  BY <1>1 DEF Dispatch, Rest
<1>2. CASE Dispatched
  BY <1>2 DEF Dispatched, main
<1> QED BY <1>1, <1>2

\* The shutdown, which is reached with stop_server only.
LEMMA CloseKeeps == ASSUME IInv, Close1 \/ Close0 PROVE IInv'
<1> USE DEF IInv, TypeOK, EndsInv, ErrnoInv, StopsOnlyForInterrupt, NoSpuriousStop,
            NeverKilled, Goto, MainStep, main
<1>1. CASE Close1
  BY <1>1 DEF Close1, ClosedFirst
<1>2. CASE Close0
  BY <1>2 DEF Close0
<1> QED BY <1>1, <1>2

\* Stuttering changes nothing.
LEMMA StutterKeeps == ASSUME IInv, UNCHANGED vars PROVE IInv'
  BY DEF vars, kernel, main, IInv, TypeOK, EndsInv, ErrnoInv, StopsOnlyForInterrupt,
         NoSpuriousStop, NeverKilled

\* Every step keeps IInv.
LEMMA NextKeeps == ASSUME IInv, [Next]_vars PROVE IInv'
  BY RaiseKeeps, HandlerKeeps, WaitKeeps, RecvKeeps, DispatchKeeps, CloseKeeps,
     StutterKeeps DEF Next, Main

\* The invariant is inductive.
THEOREM SignalInvariant == Spec => []IInv
<1>1. IInv /\ [Next]_vars => IInv'
  BY NextKeeps
<1> QED BY <1>1, InitHolds, PTL DEF Spec

\* The pair never holds more than its capacity, nor signals[] more than its size.
THEOREM SignalTypeOK == Spec => []TypeOK
<1>1. IInv => TypeOK
  BY DEF IInv
<1> QED BY <1>1, SignalInvariant, PTL

\* However signals come, the program is ended by SIGINT alone.
THEOREM SignalStopsOnlyForInterrupt == Spec => []StopsOnlyForInterrupt
<1>1. IInv => StopsOnlyForInterrupt
  BY DEF IInv
<1> QED BY <1>1, SignalInvariant, PTL

-----------------------------------------------------------------------------
(* SignalPipe and EventLoops in MCEventPrograms.                                 *)

\* The invariants of SignalPipe and EventLoops.
BothInv == IInv /\ Loops!IInv

\* A step of one program is a step of its specification, and none of the other's.
LEMMA StepOfOne ==
  ASSUME [RunNext]_<<running, vars, loopVars, oneshotVars>>
  PROVE  [Next]_vars /\ [Loops!Next]_Loops!vars
<1>1. UNCHANGED loopVars => UNCHANGED Loops!vars
  BY DEF loopVars, Loops!vars, Loops!listen, Loops!udp, Loops!client, Loops!batch, Loops!place
<1>2. CASE SignalStep
  <2>1. UNCHANGED loopVars
    BY <1>2 DEF SignalStep, Signals
  <2>2. Next
    BY <1>2 DEF SignalStep, Signals, Next, Main
  <2> QED BY <1>1, <2>1, <2>2
<1>3. CASE LoopStep
  <2>1. UNCHANGED vars
    BY <1>3 DEF LoopStep, Looping
  <2>2. Loops!Next
    BY <1>3 DEF LoopStep, Looping, Loops!Next, Loops!Server
  <2> QED BY <2>1, <2>2
<1>4. CASE OneshotStep
  <2>1. UNCHANGED <<vars, loopVars>>
    BY <1>4 DEF OneshotStep, Serving
  <2> QED BY <1>1, <2>1
<1>5. CASE UNCHANGED <<running, vars, loopVars, oneshotVars>>
  BY <1>1, <1>5
<1> QED BY <1>2, <1>3, <1>4, <1>5 DEF RunNext

\* Both invariants hold whichever of the programs runs.
THEOREM ProgramsInvariant == RunSpec => []BothInv
<1>0. Loops!LoopsAssumption
  BY ProgramsAssumption
<1>1. RunInit => BothInv
  BY <1>0, InitHolds, Loops!InitHolds DEF RunInit, BothInv
<1>2. BothInv /\ [RunNext]_<<running, vars, loopVars, oneshotVars>> => BothInv'
  <2> SUFFICES ASSUME BothInv, [RunNext]_<<running, vars, loopVars, oneshotVars>>
               PROVE  BothInv'
    OBVIOUS
  <2>1. [Next]_vars /\ [Loops!Next]_Loops!vars
    BY StepOfOne
  <2>2. IInv'
    BY <2>1, NextKeeps DEF BothInv
  <2>3. Loops!IInv'
    BY <1>0, <2>1, Loops!NextKeeps DEF BothInv
  <2> QED BY <2>2, <2>3 DEF BothInv
<1> QED BY <1>1, <1>2, PTL DEF RunSpec

\* The types of both.
THEOREM ProgramsTypesOK == RunSpec => []TypesOK
<1>1. BothInv => TypesOK
  BY DEF BothInv, TypesOK, IInv, Loops!IInv
<1> QED BY <1>1, ProgramsInvariant, PTL

\* In all three loops, with any number of connections and texts of any length: what
\* main() has not read when it goes to sleep will be reported, edge triggered or not,
\* and accept() is called only when a connection waits.
THEOREM ProgramsEventsStandForInput == RunSpec => []EventsStandForInput
<1>1. BothInv => EventsStandForInput
  BY ProgramsAssumption, Loops!SleepsWell, Loops!AcceptsOne
     DEF BothInv, EventsStandForInput
<1> QED BY <1>1, ProgramsInvariant, PTL

\* And none closes a connection whose client is there.
THEOREM ProgramsClosedOnlyWhenGone == RunSpec => ClosedOnlyWhenGone
<1>1. BothInv /\ [RunNext]_<<running, vars, loopVars, oneshotVars>>
        => [\A f \in Fds : f \in open /\ f \notin open' => gone[f] # "no"]_(Loops!vars)
  <2> SUFFICES ASSUME BothInv, [RunNext]_<<running, vars, loopVars, oneshotVars>>,
                      NEW f \in Fds, f \in open, f \notin open'
               PROVE  gone[f] # "no"
    OBVIOUS
  <2>1. [Loops!Next]_Loops!vars
    BY StepOfOne
  <2> QED BY <2>1, Loops!ClosesGone DEF BothInv
<1> QED BY <1>1, ProgramsInvariant, PTL DEF RunSpec, ClosedOnlyWhenGone, Loops!ClosedOnlyWhenGone

\* The program with the signals stops only for SIGINT, beside the others too.
THEOREM ProgramsStopsOnlyForInterrupt == RunSpec => []StopsOnlyForInterrupt
<1>1. BothInv => StopsOnlyForInterrupt
  BY DEF BothInv, IInv
<1> QED BY <1>1, ProgramsInvariant, PTL

\* A step of RunNext is one of OneshotWorkers, or none of its.
LEMMA StepOfOneshot ==
  ASSUME [RunNext]_<<running, vars, loopVars, oneshotVars>>
  PROVE  [Oneshot!Next]_Oneshot!vars
<1>1. UNCHANGED oneshotVars => UNCHANGED Oneshot!vars
  BY DEF oneshotVars, Oneshot!vars, Oneshot!listen, Oneshot!client
<1>2. CASE SignalStep \/ LoopStep
  BY <1>1, <1>2 DEF SignalStep, Signals, LoopStep, Looping
<1>3. CASE OneshotStep
  BY <1>3 DEF OneshotStep, Serving, Oneshot!Next, Oneshot!MainStep, Oneshot!Worker
<1>4. CASE UNCHANGED <<running, vars, loopVars, oneshotVars>>
  BY <1>1, <1>4
<1> QED BY <1>2, <1>3, <1>4 DEF RunNext

LEMMA OneshotRuns == ASSUME ReadsAtOnce PROVE RunSpec => []Oneshot!IInv
<1>1. Oneshot!OneshotAssumption
  BY ProgramsAssumption
<1>2. RunInit => Oneshot!IInv
  BY <1>1, Oneshot!InitHolds DEF RunInit
<1>3. Oneshot!IInv /\ [RunNext]_<<running, vars, loopVars, oneshotVars>> => Oneshot!IInv'
  BY <1>1, StepOfOneshot, Oneshot!NextKeeps
<1> QED BY <1>2, <1>3, PTL DEF RunSpec

\* In the program that starts a thread for each event, if a thread has read its argument
\* before the next one is created, no two threads handle one socket.
THEOREM ProgramsOneThread == ASSUME ReadsAtOnce PROVE RunSpec => []OneThread
<1>1. Oneshot!IInv => OneThread
  BY DEF Oneshot!IInv, OneThread
<1> QED BY <1>1, OneshotRuns, PTL

\* And accept() is called for a connection that waits.
THEOREM ProgramsWorkersTypeOK == ASSUME ReadsAtOnce PROVE RunSpec => []WorkersTypeOK
<1>1. Oneshot!IInv => WorkersTypeOK
  BY DEF Oneshot!IInv, WorkersTypeOK
<1> QED BY <1>1, OneshotRuns, PTL
==================================================================================
