----------------------------- MODULE CoptProofs -----------------------------
(***************************************************************************)
(* Proofs about Copt, for every set of messages, every retention limit,    *)
(* every number of retries, restarts and signals.                          *)
(*                                                                         *)
(* The unit around the lifecycle manager disturbs nothing Lifecycle        *)
(* promises: its invariant IInv (module LifecycleProofs) is one of Copt's, *)
(* although a process of Copt ends at any point, with its neb, and is      *)
(* launched again.  GoneOK is what that needs: the process that was        *)
(* launched again had ended.                                               *)
(***************************************************************************)
EXTENDS Copt, LifecycleProofs

GoneOK == run = "gone" => pc = "exited"

\* The inductive invariant.
CoptInv == CoptTypeOK /\ IInv /\ GoneOK

-----------------------------------------------------------------------------
(* The steps of the unit, as the parts of Lifecycle see them *)

\* The process ends: nothing it had in the pipes is left, and the directory is
\* as it was.
LEMMA GoneStep ==
    ASSUME IInv, NEW status, Gone(status), stopped' = stopped
    PROVE  IInv' /\ GoneOK'
<1> USE DEF IInv
<1>1. /\ pc' = "exited" /\ nebUp' = FALSE /\ requests' = <<>> /\ replies' = <<>>
      /\ UNCHANGED <<stream, cur, saved, dead, snapshot, current, known, state,
                     request, response, stopped, broken, sent, handled, reached,
                     retained, late, crashes>>
    BY DEF Gone, storeVars, history
<1>2. Len(<<>>) = 0 /\ \A S : <<>> \in Seq(S)
    BY EmptySeq
<1>3. TypeOK'
    BY <1>1, <1>2 DEF TypeOK, StoreTypeOK, Pcs
<1>4. ControlOK'
    BY <1>1 DEF ControlOK, StateFollowsPump, Sending
<1>5. TransportOK'
    BY <1>1, <1>2 DEF TransportOK, OneAtATime, ReplyAnswersRequest
<1>6. AnswersOK'
    BY <1>1 DEF AnswersOK
<1>7. CursorsOK'
    BY <1>1 DEF CursorsOK, Handling, Sending
<1>8. StreamOK'
    BY <1>1, <1>2 DEF StreamOK, RequestsOK, OneRedelivery, BetweenSnapshotAndTruncate
<1>9. QED
    BY <1>1, <1>3, <1>4, <1>5, <1>6, <1>7, <1>8 DEF GoneOK

\* The handler calls Stop, also a second time or when the pump has ended.
LEMMA HandleFirstStep ==
    ASSUME IInv, HandleFirst
    PROVE  IInv'
<1> USE DEF IInv
<1>1. /\ stopped' = TRUE
      /\ UNCHANGED <<stream, cur, saved, dead, snapshot, current, known, pc, state,
                     request, response, nebUp, broken, requests, replies, sent,
                     handled, reached, retained, late, crashes>>
    BY DEF HandleFirst, storeVars, transport, history
<1>2. TypeOK'
    BY <1>1 DEF TypeOK, StoreTypeOK
<1>3. ControlOK'
    BY <1>1 DEF ControlOK, StateFollowsPump, Sending, CanRetry
<1>4. TransportOK'
    BY <1>1 DEF TransportOK, OneAtATime, ReplyAnswersRequest
<1>5. AnswersOK'
    BY <1>1 DEF AnswersOK, Accepted
<1>6. CursorsOK'
    BY <1>1 DEF CursorsOK, Handling, Sending, AtCursor
<1>7. StreamOK'
    BY <1>1 DEF StreamOK, RequestsOK, OneRedelivery, BetweenSnapshotAndTruncate
<1>8. QED
    BY <1>2, <1>3, <1>4, <1>5, <1>6, <1>7

\* Each step of Copt is one of Lifecycle, or keeps its invariant all the same.
LEMMA CoptStep == CoptInv /\ [CoptNext]_coptVars => IInv' /\ GoneOK'
<1>1. SUFFICES ASSUME CoptInv, [CoptNext]_coptVars PROVE IInv' /\ GoneOK'
    OBVIOUS
<1> USE DEF CoptInv
<1>2. ASSUME [Next]_vars PROVE IInv'
    BY <1>1, <1>2, NextStep
<1>3. CASE Boot \/ Return \/ UNCHANGED coptVars
  <2>1. UNCHANGED vars /\ (run' = "gone" => run = "gone")
      BY <1>3 DEF Boot, Return, coptVars, process
  <2>2. pc' = pc
      BY <2>1 DEF vars
  <2>3. QED
      BY <1>1, <1>2, <2>1, <2>2 DEF GoneOK
<1>4. CASE Pump
  <2>1. Next /\ run' = "running"
      BY <1>4 DEF Pump, Next, process
  <2>2. QED
      BY <1>2, <2>1 DEF GoneOK
<1>5. CASE Environment
  <2>1. Next /\ run' = run
      BY <1>5 DEF Environment, Next, process
  <2>2. pc' = pc \/ pc = "writing"
      BY <1>5 DEF Environment, SendMessage, NebReads, NebAnswer, NebDies
  <2>3. QED
      BY <1>1, <1>2, <2>1, <2>2 DEF GoneOK
<1>6. CASE Launch
  <2>1. Next /\ run' = "booting"
      BY <1>1, <1>6 DEF Launch, GoneOK, Next, Crash
  <2>2. QED
      BY <1>2, <2>1 DEF GoneOK
<1>7. CASE HandleFirst
  <2>1. run' # "gone"
      BY <1>7 DEF HandleFirst, TakeSignal
  <2>2. QED
      BY <1>1, <1>7, <2>1, HandleFirstStep DEF GoneOK
<1>8. CASE BootFails \/ WaitReturns \/ HandleSecond \/ Kill
    BY <1>1, <1>8, GoneStep DEF BootFails, WaitReturns, HandleSecond, Kill
<1>9. CASE Signal
  <2>1. CASE run = "running"
    <3>1. UNCHANGED vars /\ run' = run
        BY <1>9, <2>1 DEF Signal
    <3>2. QED
        BY <1>2, <2>1, <3>1 DEF GoneOK
  <2>2. CASE run # "running"
      BY <1>1, <1>9, <2>2, GoneStep DEF Signal
  <2>3. QED
      BY <2>1, <2>2
<1>10. QED
    BY <1>1, <1>3, <1>4, <1>5, <1>6, <1>7, <1>8, <1>9 DEF CoptNext

\* The process variables keep their types: no signal is counted twice, and the
\* channel never holds more than it has room for.
LEMMA ProcessStep == CoptInv /\ IInv' /\ [CoptNext]_coptVars => CoptTypeOK'
<1>1. SUFFICES ASSUME CoptInv, IInv', [CoptNext]_coptVars PROVE CoptTypeOK'
    OBVIOUS
<1>2. CASE UNCHANGED process
    BY <1>1, <1>2 DEF CoptInv, IInv, CoptTypeOK, process
<1>3. CASE Boot \/ Return \/ BootFails \/ WaitReturns \/ Kill
    BY <1>1, <1>3 DEF CoptInv, IInv, CoptTypeOK, Boot, Return, BootFails, WaitReturns,
        Kill, Gone
<1>4. CASE Signal
    BY <1>1, <1>4, CoptAssumption DEF CoptInv, IInv, CoptTypeOK, Signal, Gone, SigChSize
<1>5. CASE HandleFirst \/ HandleSecond
    BY <1>1, <1>5 DEF CoptInv, IInv, CoptTypeOK, HandleFirst, HandleSecond, TakeSignal,
        Gone, SigChSize
<1>6. CASE Launch
    BY <1>1, <1>6, CoptAssumption DEF CoptInv, IInv, CoptTypeOK, Launch, SigChSize
<1>7. QED
    BY <1>1, <1>2, <1>3, <1>4, <1>5, <1>6 DEF CoptNext, coptVars, Pump, Environment

-----------------------------------------------------------------------------
(* The theorems *)

\* The inductive invariant holds in every reachable state, with or without the
\* fairness of CoptSpec.
THEOREM CoptInvariance == CoptSpec => []CoptInv
<1>1. CoptInit => CoptInv
    BY InitInv, CoptAssumption DEF CoptInit, CoptInv, CoptTypeOK, IInv, GoneOK, SigChSize
<1>2. CoptInv /\ [CoptNext]_coptVars => CoptInv'
    BY CoptStep, ProcessStep DEF CoptInv
<1>3. QED
    BY <1>1, <1>2, PTL DEF CoptSpec

\* Type correctness: the signal channel has room for two and the bound on
\* signals is kept (cmdRun).
THEOREM CoptTypeCorrect == CoptSpec => []CoptTypeOK
<1>1. CoptInv => CoptTypeOK
    BY DEF CoptInv
<1>2. QED
    BY <1>1, CoptInvariance, PTL

\* A unit that is killed, signalled and restarted keeps what the runtime
\* promises about its messages: none is lost, each is delivered in its turn and
\* one at a time, and a restart repeats one at most.
THEOREM CoptDelivers ==
    CoptSpec => [](NothingLost /\ InOrderDelivery /\ OneAtATime /\ OneRedelivery)
<1>1. CoptInv => NothingLost /\ InOrderDelivery /\ OneAtATime /\ OneRedelivery
    BY InvariantDelivers DEF CoptInv
<1>2. QED
    BY <1>1, CoptInvariance, PTL
=============================================================================
