--------------------------- MODULE LifecycleProofs ---------------------------
(***************************************************************************)
(* Proofs about Lifecycle, for every set of messages, every retention      *)
(* limit, and every number of retries and restarts.                        *)
(*                                                                         *)
(* The inductive invariant IInv has five parts.  ControlOK: where the pump *)
(* is determines the manager's state and what the request is about.        *)
(* TransportOK: a transport in use has at most the line of the request     *)
(* under way in its pipes.  AnswersOK: what an answer that is not an error *)
(* says has happened.  CursorsOK: the two cursors, and the message being   *)
(* handled at the cursor.  StreamOK: where each message is that was ever   *)
(* sent.                                                                   *)
(***************************************************************************)
EXTENDS Lifecycle, SequenceTheorems, TLAPS

\* The pump is in Stdio.Send or has just left it.
Sending == pc \in {"send", "writing", "await", "returned"}

\* The pump handles a message that its cursor has not passed.
Handling ==
    \/ pc \in {"backoff", "dead", "bury"}
    \/ Sending /\ request.method = "message"

ControlOK ==
    /\ StateFollowsPump
    /\ pc = "created" => state = "created"
    /\ Sending =>
        \/ request.method = "init" /\ state = "starting"
        \/ request.method = "message" /\ state = "processing"
        \/ request.method = "retain" /\ state = "retaining"
        \/ request.method = "shutdown" /\ state = "stopping"
    /\ pc \in {"writing", "backoff", "dead", "bury", "post"} => request.method = "message"
    /\ pc = "truncate" => request.method = "retain"
    /\ pc = "backoff" => CanRetry

TransportOK ==
    /\ OneAtATime
    /\ ~nebUp => Len(requests) = 0
    /\ pc = "writing" => ~broken
    /\ pc = "await" =>
        /\ ~broken
        /\ \A i \in 1..Len(requests) : requests[i] = request
        /\ \A i \in 1..Len(replies) : replies[i].to = request
    /\ pc # "await" /\ ~broken => Len(requests) = 0 /\ Len(replies) = 0
    /\ ReplyAnswersRequest

\* What the neb has done when it has answered the request with success.
Accepted ==
    /\ request.method = "message" => request.msg \in handled
    /\ request.method = "retain" => Range(snapshot) \subseteq retained

AnswersOK ==
    /\ pc = "await" =>
        \A i \in 1..Len(replies) : replies[i].status # "error" => Accepted
    /\ pc = "returned" /\ response.status # "error" => ~broken /\ Accepted
    /\ pc = "truncate" => ~broken /\ Accepted

\* The current message is the one at the cursor, and the request is about it.
AtCursor ==
    /\ cur.consumed < Len(stream)
    /\ current \in [offset : Nat, msg : Msgs]
    /\ current.offset = cur.consumed
    /\ current.msg = stream[cur.consumed + 1]
    /\ request.msg = current.msg

CursorsOK ==
    /\ pc # "exited" => saved = cur
    /\ saved.consumed <= cur.consumed
    /\ cur.consumed <= Len(stream)
    /\ \A p \in 1..cur.consumed : stream[p] \in handled \cup Range(dead)
    /\ Handling => AtCursor

\* A request for a message can be before the neb, also after the runtime gave
\* it up, only if the durable cursor has come to that message.
RequestsOK ==
    \A i \in 1..Len(requests) :
        requests[i].method = "message" =>
            \E o \in 1..Len(stream) :
                stream[o] = requests[i].msg /\ o <= saved.consumed + 1

StreamOK ==
    /\ \A o, p \in 1..Len(stream) : stream[o] = stream[p] => o = p
    /\ Range(stream) \subseteq sent
    /\ handled \subseteq sent
    /\ sent \subseteq Range(stream) \cup handled \cup Range(dead) \cup retained \cup late
    /\ BetweenSnapshotAndTruncate => Range(stream) \subseteq Range(snapshot) \cup late
    /\ RequestsOK
    /\ OneRedelivery

IInv == TypeOK /\ ControlOK /\ TransportOK /\ AnswersOK /\ CursorsOK /\ StreamOK

-----------------------------------------------------------------------------
(* Control *)

\* The transitions the pump asks for.
LEMMA Transitions ==
    /\ CanTransition("created", "starting")
    /\ CanTransition("starting", "idle")
    /\ CanTransition("starting", "failed")
    /\ CanTransition("idle", "processing")
    /\ CanTransition("idle", "draining")
    /\ CanTransition("processing", "post_processing")
    /\ CanTransition("processing", "idle")
    /\ CanTransition("post_processing", "idle")
    /\ CanTransition("draining", "retaining")
    /\ CanTransition("retaining", "idle")
    /\ CanTransition("retaining", "failed")
BY DEF CanTransition, ValidTransitions

\* Where the pump is determines the state, after every step.
LEMMA ControlStep == ControlOK /\ [Next]_vars => ControlOK'
<1>1. SUFFICES ASSUME ControlOK, [Next]_vars PROVE ControlOK'
    OBVIOUS
<1> USE Transitions DEF ControlOK, StateFollowsPump, Sending, CanRetry
<1>2. CASE SendWrite \/ NebReads \/ SendBlocks
    BY <1>1, <1>2 DEF SendWrite, NebReads, Written, SendBlocks
<1>3. CASE SendFail
    BY <1>1, <1>3 DEF SendFail, SendReturns
<1>4. CASE Receive
    BY <1>1, <1>4 DEF Receive
<1>5. CASE ReceiveEOF
    BY <1>1, <1>5 DEF ReceiveEOF, SendReturns
<1>6. CASE Timeout
    BY <1>1, <1>6 DEF Timeout, SendReturns
<1>7. CASE Start
    BY <1>1, <1>7 DEF Start, TransitionThen, Transition, Call, NewRequest
<1>8. CASE InitDone
    BY <1>1, <1>8 DEF InitDone, Returned, TransitionThen, Transition
<1>9. CASE InitFailed
    BY <1>1, <1>9 DEF InitFailed, Returned, Transition, Exit
<1>10. CASE Poll
    BY <1>1, <1>10 DEF Poll, TransitionThen, Transition, Call, NewRequest
<1>11. CASE PollIdle
    BY <1>1, <1>11 DEF PollIdle, TransitionThen, Transition
<1>12. CASE CheckRetention
    BY <1>1, <1>12 DEF CheckRetention, TransitionThen, Transition
<1>13. CASE MessageDone
    BY <1>1, <1>13 DEF MessageDone, Returned, ToIdle, Transition, Exit
<1>14. CASE PostProcess
    BY <1>1, <1>14 DEF PostProcess, ToIdle, Transition, Exit
<1>15. CASE MessageFailed
    BY <1>1, <1>15 DEF MessageFailed, Returned
<1>16. CASE Retry
    BY <1>1, <1>16 DEF Retry
<1>17. CASE BackoffStopped
    BY <1>1, <1>17 DEF BackoffStopped, ToIdle, Transition
<1>18. CASE WriteDeadLetter
    BY <1>1, <1>18 DEF WriteDeadLetter
<1>19. CASE AdvancePastDead
    BY <1>1, <1>19 DEF AdvancePastDead, ToIdle, Transition, Exit
<1>20. CASE TakeSnapshot
    BY <1>1, <1>20 DEF TakeSnapshot, TransitionThen, Transition, Call, NewRequest
<1>21. CASE RetainDone
    BY <1>1, <1>21 DEF RetainDone, Returned
<1>22. CASE RetainFailed
    BY <1>1, <1>22 DEF RetainFailed, Returned, Transition, Exit
<1>23. CASE TruncateStream
    BY <1>1, <1>23 DEF TruncateStream, Transition
<1>24. CASE StoreFails
    BY <1>1, <1>24 DEF StoreFails, Transition, Exit
<1>25. CASE Shutdown
    BY <1>1, <1>25 DEF Shutdown, Call, NewRequest
<1>26. CASE ShutdownDone
    BY <1>1, <1>26 DEF ShutdownDone, Returned, Exit
<1>27. CASE Stop
    BY <1>1, <1>27 DEF Stop
<1>28. CASE NebAnswer
    BY <1>1, <1>28 DEF NebAnswer
<1>29. CASE NebDies
    BY <1>1, <1>29 DEF NebDies
<1>30. CASE Crash
    BY <1>1, <1>30 DEF Crash, StartAgain, NewRequest
<1>31. ASSUME NEW m \in Msgs, SendMessage(m) PROVE ControlOK'
    BY <1>1, <1>31 DEF SendMessage
<1>32. CASE UNCHANGED vars
    BY <1>1, <1>32 DEF vars
<1>33. QED
    BY <1>1, <1>2, <1>3, <1>4, <1>5, <1>6, <1>7, <1>8, <1>9, <1>10, <1>11,
        <1>12, <1>13, <1>14, <1>15, <1>16, <1>17, <1>18, <1>19, <1>20, <1>21,
        <1>22, <1>23, <1>24, <1>25, <1>26, <1>27, <1>28, <1>29, <1>30, <1>31,
        <1>32 DEF Next, PumpStep

-----------------------------------------------------------------------------
(* Types *)

\* The messages of a stream after one more is appended.
LEMMA RangeAppend ==
    ASSUME NEW S, NEW seq \in Seq(S), NEW e \in S
    PROVE  Range(Append(seq, e)) = Range(seq) \cup {e}
<1>1. /\ Append(seq, e) \in Seq(S) /\ Len(Append(seq, e)) = Len(seq) + 1
      /\ \A i \in 1..Len(seq) : Append(seq, e)[i] = seq[i]
      /\ Append(seq, e)[Len(seq) + 1] = e
    BY AppendProperties
<1>2. /\ DOMAIN seq = 1..Len(seq) /\ Len(seq) \in Nat
      /\ DOMAIN Append(seq, e) = 1..Len(seq) + 1
    BY <1>1, LenProperties
<1>3. \A i \in 1..Len(seq) + 1 : i \in 1..Len(seq) \/ i = Len(seq) + 1
    BY <1>2
<1>4. Len(seq) + 1 \in 1..Len(seq) + 1 /\ \A i \in 1..Len(seq) : i \in 1..Len(seq) + 1
    BY <1>2
<1>5. QED
    BY <1>1, <1>2, <1>3, <1>4 DEF Range

\* The elements of a sequence are those at its positions.
LEMMA RangeType ==
    ASSUME NEW S, NEW seq \in Seq(S)
    PROVE  /\ Range(seq) \subseteq S
           /\ \A x : x \in Range(seq) <=> \E i \in 1..Len(seq) : seq[i] = x
BY ElementOfSeq, LenProperties DEF Range

\* A message that is handled, or that a request in the pipe is about, is one.
LEMMA MessageTypes ==
    ASSUME IInv
    PROVE  /\ Handling => request.msg \in Msgs /\ current \in [offset : Nat, msg : Msgs]
           /\ \A i \in 1..Len(requests) :
                requests[i].method = "message" => requests[i].msg \in Msgs
<1>1. Handling => request.msg \in Msgs /\ current \in [offset : Nat, msg : Msgs]
    BY DEF IInv, CursorsOK, AtCursor, TypeOK, StoreTypeOK
<1>2. stream \in Seq(Msgs)
    BY DEF IInv, TypeOK, StoreTypeOK
<1>3. \A o \in 1..Len(stream) : stream[o] \in Msgs
    BY <1>2, ElementOfSeq
<1>4. QED
    BY <1>1, <1>3 DEF IInv, StreamOK, RequestsOK

\* The pump's steps that touch neither the store nor the neb.
PumpOnly ==
    \/ SendBlocks
    \/ SendFail
    \/ ReceiveEOF
    \/ Start
    \/ InitDone
    \/ InitFailed
    \/ PollIdle
    \/ CheckRetention
    \/ MessageFailed
    \/ Retry
    \/ BackoffStopped
    \/ RetainDone
    \/ RetainFailed
    \/ StoreFails
    \/ Shutdown
    \/ ShutdownDone

\* ... they change neither of the two.
LEMMA PumpOnlyFrame ==
    ASSUME PumpOnly
    PROVE  /\ UNCHANGED <<stream, cur, saved, dead, snapshot, current>>
           /\ UNCHANGED <<broken, requests, replies, nebUp>>
           /\ UNCHANGED <<sent, handled, reached, retained, late, crashes>>
           /\ UNCHANGED stopped
BY DEF PumpOnly, storeVars, transport, history, SendBlocks, SendFail, ReceiveEOF,
    Start, InitDone, InitFailed, PollIdle, CheckRetention, MessageFailed, Retry,
    BackoffStopped, RetainDone, RetainFailed, StoreFails, Shutdown, ShutdownDone

\* Another attempt of a request that may be tried again is a request.
LEMMA RetryType ==
    ASSUME TypeOK, Retry, CanRetry
    PROVE  /\ request' \in Request
           /\ request'.method = request.method
           /\ request'.msg = request.msg
BY LifecycleAssumption DEF TypeOK, Retry, CanRetry, Request

\* So is the first attempt.
LEMMA NewRequestType ==
    ASSUME NEW method \in Methods, NEW msg \in Msgs \cup {None}
    PROVE  /\ NewRequest(method, msg) \in Request
           /\ NewRequest(method, msg).method = method
           /\ NewRequest(method, msg).msg = msg
BY LifecycleAssumption DEF NewRequest, Request

\* The pump's own steps keep the types.
LEMMA PumpOnlyType ==
    ASSUME IInv, PumpOnly
    PROVE  TypeOK'
<1> USE DEF IInv
<1>1. known' \in Nat
  <2>1. Len(stream) \in Nat /\ known \in Nat
    BY LenProperties DEF TypeOK, StoreTypeOK
  <2>2. QED
    BY <2>1 DEF PumpOnly, SendBlocks, SendFail, ReceiveEOF, Start, InitDone,
        InitFailed, PollIdle, Refreshed, CheckRetention, MessageFailed, Retry,
        BackoffStopped, RetainDone, RetainFailed, StoreFails, Shutdown, ShutdownDone
<1>2. request' \in Request
  <2>1. CASE Retry
    BY <2>1, RetryType DEF ControlOK, Retry
  <2>2. CASE Start \/ Shutdown
    BY <2>2, NewRequestType DEF Start, Shutdown, Call, Methods
  <2>3. QED
    BY <2>1, <2>2 DEF PumpOnly, TypeOK, SendBlocks, SendFail, ReceiveEOF, InitDone,
        InitFailed, PollIdle, CheckRetention, MessageFailed, BackoffStopped, RetainDone,
        RetainFailed, StoreFails, ShutdownDone
<1>3. response' \in Response
    BY DEF PumpOnly, TypeOK, Response, Statuses, SendReturns, SendBlocks, SendFail,
        ReceiveEOF, Start, InitDone, InitFailed, PollIdle, CheckRetention,
        MessageFailed, Retry, BackoffStopped, RetainDone, RetainFailed, StoreFails,
        Shutdown, ShutdownDone
<1>4. pc' \in Pcs
    BY DEF PumpOnly, TypeOK, Pcs, SendReturns, ToIdle, Exit, TransitionThen,
        SendBlocks, SendFail, ReceiveEOF, Start, InitDone, InitFailed, PollIdle,
        CheckRetention, MessageFailed, Retry, BackoffStopped, RetainDone, RetainFailed,
        StoreFails, Shutdown, ShutdownDone
<1>5. state' \in States
    BY DEF PumpOnly, TypeOK, States, Transition, ToIdle, TransitionThen, SendBlocks,
        SendFail, ReceiveEOF, Start, InitDone, InitFailed, PollIdle, CheckRetention,
        MessageFailed, Retry, BackoffStopped, RetainDone, RetainFailed, StoreFails,
        Shutdown, ShutdownDone
<1>6. QED
    BY <1>1, <1>2, <1>3, <1>4, <1>5, PumpOnlyFrame DEF TypeOK, StoreTypeOK

\* Passing the message at the cursor moves the cursor by one, in memory and,
\* if the save succeeds, on disk.
LEMMA Consume ==
    ASSUME TypeOK, current.offset = cur.consumed,
           SaveCursor(AdvanceConsumed(cur, current.offset))
    PROVE  /\ cur' \in CursorState /\ saved' \in CursorState
           /\ cur.consumed \in Nat /\ saved.consumed \in Nat
           /\ cur'.consumed = cur.consumed + 1
           /\ saved' \in {saved, cur'}
<1>1. cur \in CursorState /\ saved \in CursorState
    BY DEF TypeOK, StoreTypeOK
<1>2. cur.consumed \in Nat /\ saved.consumed \in Nat
    BY <1>1 DEF CursorState
<1>3. cur' = [cur EXCEPT !.consumed = cur.consumed + 1] /\ saved' \in {saved, cur'}
    BY <1>2 DEF SaveCursor, AdvanceConsumed
<1>4. cur' \in CursorState /\ cur'.consumed = cur.consumed + 1
    BY <1>1, <1>2, <1>3 DEF CursorState
<1>5. QED
    BY <1>1, <1>2, <1>3, <1>4

\* Marking a message post-processed leaves the consumed count alone.
LEMMA PostConsume ==
    ASSUME TypeOK, current # None,
           SaveCursor(AdvancePostProcessed(cur, current.offset))
    PROVE  /\ cur' \in CursorState /\ saved' \in CursorState
           /\ cur'.consumed = cur.consumed
           /\ saved' \in {saved, cur'}
<1>1. cur \in CursorState /\ saved \in CursorState /\ current.offset \in Nat
    BY DEF TypeOK, StoreTypeOK
<1>2. cur' = AdvancePostProcessed(cur, current.offset) /\ saved' \in {saved, cur'}
    BY DEF SaveCursor
<1>3. cur' \in CursorState /\ cur'.consumed = cur.consumed
    BY <1>1, <1>2 DEF AdvancePostProcessed, CursorState
<1>4. QED
    BY <1>1, <1>2, <1>3

\* A request is written into empty pipes.
LEMMA WritePipes ==
    ASSUME TypeOK, TransportOK, SendWrite \/ NebReads
    PROVE  /\ requests' \in Seq(Request) /\ Len(requests') = 1 /\ requests'[1] = request
           /\ Len(replies) = 0
<1>1. Len(requests) = 0 /\ Len(replies) = 0
    BY DEF TransportOK, SendWrite, NebReads
<1>2. request \in Request /\ requests \in Seq(Request) /\ requests' = Append(requests, request)
    BY DEF TypeOK, SendWrite, NebReads, Written
<1>3. QED
    BY <1>1, <1>2, AppendProperties

\* Lengths of the pipes are numbers, and at most one of them is not 0.
LEMMA PipeLengths ==
    ASSUME TypeOK, TransportOK
    PROVE  /\ Len(requests) \in Nat /\ Len(replies) \in Nat /\ Len(replies) <= 1
           /\ requests # <<>> => Len(requests) = 1 /\ Len(replies) = 0
           /\ replies # <<>> => Len(replies) = 1 /\ Len(requests) = 0
<1>1. requests \in Seq(Request) /\ replies \in Seq(Response)
    BY DEF TypeOK
<1>2. Len(requests) \in Nat /\ Len(replies) \in Nat
    BY <1>1, LenProperties
<1>3. /\ requests # <<>> => Len(requests) > 0
      /\ replies # <<>> => Len(replies) > 0
    BY <1>1, EmptySeq
<1>4. Len(requests) + Len(replies) <= 1
    BY DEF TransportOK, OneAtATime
<1>5. ASSUME NEW m \in Nat, NEW n \in Nat, m + n <= 1
      PROVE  (m > 0 => m = 1 /\ n = 0) /\ (n > 0 => n = 1 /\ m = 0) /\ n <= 1
    BY <1>5
<1>6. QED
    BY <1>2, <1>3, <1>4, <1>5

\* The response read is the only line in the pipes.
LEMMA ReceivePipes ==
    ASSUME TypeOK, TransportOK, Receive
    PROVE  /\ Len(requests) = 0 /\ Len(replies) = 1
           /\ replies' \in Seq(Response) /\ Len(replies') = 0
           /\ response' = replies[1] /\ response' \in Response
<1>1. replies \in Seq(Response) /\ replies # <<>> /\ response' = Head(replies)
      /\ replies' = Tail(replies)
    BY DEF TypeOK, Receive
<1>2. Len(replies) = 1 /\ Len(requests) = 0
    BY <1>1, PipeLengths
<1>3. /\ Head(replies) \in Response /\ Head(replies) = replies[1]
      /\ Tail(replies) \in Seq(Response) /\ Len(Tail(replies)) = 0
    BY <1>1, <1>2, HeadTailProperties
<1>4. QED
    BY <1>1, <1>2, <1>3

\* The neb answers the only request there is.
LEMMA AnswerPipes ==
    ASSUME TypeOK, TransportOK, NebAnswer
    PROVE  /\ Len(requests) = 1 /\ requests[1] \in Request
           /\ requests' \in Seq(Request) /\ Len(requests') = 0
           /\ \E status \in Statuses :
                /\ replies' \in Seq(Response) /\ Len(replies') = 1
                /\ replies'[1] = [to |-> requests[1], status |-> status]
                /\ handled' = IF requests[1].method = "message" /\ status # "error"
                              THEN handled \cup {requests[1].msg} ELSE handled
                /\ retained' = IF requests[1].method = "retain" /\ status # "error"
                               THEN retained \cup Range(snapshot) ELSE retained
<1>1. /\ requests \in Seq(Request) /\ requests # <<>> /\ requests' = Tail(requests)
      /\ replies \in Seq(Response)
    BY DEF TypeOK, NebAnswer
<1>2. Len(requests) = 1 /\ Len(replies) = 0
    BY <1>1, PipeLengths
<1>3. /\ Head(requests) = requests[1] /\ Head(requests) \in Request
      /\ Tail(requests) \in Seq(Request) /\ Len(Tail(requests)) = 0
    BY <1>1, <1>2, HeadTailProperties
<1>4. PICK status \in Statuses :
        LET r == requests[1]
        IN  /\ replies' = Append(replies, [to |-> r, status |-> status])
            /\ handled' = IF r.method = "message" /\ status # "error"
                          THEN handled \cup {r.msg} ELSE handled
            /\ retained' = IF r.method = "retain" /\ status # "error"
                           THEN retained \cup Range(snapshot) ELSE retained
    BY <1>3 DEF NebAnswer
<1>5. [to |-> requests[1], status |-> status] \in Response
    BY <1>3 DEF Response
<1>6. /\ replies' \in Seq(Response) /\ Len(replies') = 1
      /\ replies'[1] = [to |-> requests[1], status |-> status]
    BY <1>1, <1>2, <1>4, <1>5, AppendProperties
<1>7. QED
    BY <1>1, <1>2, <1>3, <1>4, <1>6

\* No step takes a variable out of its type.
LEMMA TypeStep == IInv /\ [Next]_vars => TypeOK'
<1>1. SUFFICES ASSUME IInv, [Next]_vars PROVE TypeOK'
    OBVIOUS
<1> USE DEF IInv
<1>2. CASE PumpOnly
    BY <1>1, <1>2, PumpOnlyType
<1>3. CASE SendWrite \/ NebReads
  <2>1. requests' \in Seq(Request) /\ pc' \in Pcs
    BY <1>1, <1>3, WritePipes DEF SendWrite, NebReads, Written, Pcs
  <2>2. reached' \subseteq Msgs
    <3>1. request.method = "message" => request.msg \in Msgs
      BY <1>1, <1>3, MessageTypes DEF SendWrite, NebReads, Handling, Sending
    <3>2. QED
      BY <1>1, <1>3, <3>1 DEF SendWrite, NebReads, Written, TypeOK
  <2>3. QED
    BY <1>1, <1>3, <2>1, <2>2 DEF SendWrite, NebReads, Written, TypeOK, StoreTypeOK,
        storeVars
<1>4. CASE Receive
  <2>1. replies' \in Seq(Response) /\ response' \in Response /\ pc' \in Pcs
    BY <1>1, <1>4, ReceivePipes DEF Receive, Pcs
  <2>2. QED
    BY <1>1, <1>4, <2>1 DEF Receive, TypeOK, StoreTypeOK, storeVars, history
<1>5. CASE Timeout
    BY <1>1, <1>5 DEF Timeout, SendReturns, TypeOK, StoreTypeOK, storeVars, history, Pcs,
        Response, Statuses
<1>6. CASE Poll
  <2>1. stream \in Seq(Msgs) /\ cur.consumed \in Nat /\ cur.consumed < Len(stream)
    BY <1>1, <1>6 DEF TypeOK, StoreTypeOK, CursorState, Poll, NextUnprocessed
  <2>2. Len(stream) \in Nat /\ cur.consumed + 1 \in 1..Len(stream)
    BY <2>1, LenProperties
  <2>3. stream[cur.consumed + 1] \in Msgs
    BY <2>1, <2>2, ElementOfSeq
  <2>4. current' = [offset |-> cur.consumed, msg |-> stream[cur.consumed + 1]]
    BY <1>6 DEF Poll, NextUnprocessed
  <2>5. current' \in [offset : Nat, msg : Msgs] /\ current'.msg \in Msgs
    BY <2>1, <2>3, <2>4
  <2>6. request' \in Request
    BY <1>6, <2>5, NewRequestType DEF Poll, Call, Methods
  <2>7. known' \in Nat
    BY <1>1, <1>6, <2>2 DEF Poll, Refreshed, TypeOK
  <2>8. pc' \in Pcs /\ state' \in States
    BY <1>1, <1>6 DEF Poll, TransitionThen, Transition, TypeOK, Pcs, States
  <2>9. QED
    BY <1>1, <1>6, <2>5, <2>6, <2>7, <2>8 DEF Poll, NextUnprocessed, TypeOK, StoreTypeOK,
        transport, history
<1>7. CASE MessageDone \/ PostProcess \/ AdvancePastDead
  <2>1. cur' \in CursorState /\ saved' \in CursorState
    <3>1. CASE PostProcess
      BY <1>1, <3>1, PostConsume DEF PostProcess, MarkPostProcessed
    <3>2. CASE MessageDone \/ AdvancePastDead
      <4>1. current # None /\ SaveCursor(AdvanceConsumed(cur, current.offset))
        BY <3>2 DEF MessageDone, MarkProcessed, AdvancePastDead, DeadLetterAdvance
      <4>2. current.offset = cur.consumed
        BY <1>1, <3>2 DEF MessageDone, Returned, AdvancePastDead, CursorsOK, Handling,
            Sending, AtCursor
      <4>3. QED
        BY <1>1, <4>1, <4>2, Consume
    <3>3. QED
      BY <1>7, <3>1, <3>2
  <2>2. pc' \in Pcs /\ state' \in States
    BY <1>1, <1>7 DEF MessageDone, PostProcess, AdvancePastDead, ToIdle, Transition, Exit,
        TypeOK, Pcs, States
  <2>3. UNCHANGED <<stream, dead, snapshot, current, known, request, response, stopped>>
        /\ UNCHANGED <<transport, history>>
    BY <1>7 DEF MessageDone, PostProcess, AdvancePastDead, MarkProcessed,
        MarkPostProcessed, DeadLetterAdvance
  <2>4. QED
    BY <1>1, <2>1, <2>2, <2>3 DEF TypeOK, StoreTypeOK, transport, history
<1>8. CASE WriteDeadLetter
  <2>1. current.msg \in Msgs
    BY <1>1, <1>8, MessageTypes DEF WriteDeadLetter, Handling
  <2>2. dead' \in Seq(Msgs)
    BY <1>1, <1>8, <2>1, AppendProperties DEF WriteDeadLetter, DeadLetterWrite, TypeOK,
        StoreTypeOK
  <2>3. QED
    BY <1>1, <1>8, <2>2 DEF WriteDeadLetter, DeadLetterWrite, TypeOK, StoreTypeOK, Pcs,
        transport, history
<1>9. CASE TakeSnapshot
  <2>1. request' \in Request
    BY <1>9, NewRequestType DEF TakeSnapshot, Call, Methods
  <2>2. pc' \in Pcs /\ state' \in States
    BY <1>1, <1>9 DEF TakeSnapshot, TransitionThen, Transition, TypeOK, Pcs, States
  <2>3. QED
    BY <1>1, <1>9, <2>1, <2>2 DEF TakeSnapshot, Snapshot, TypeOK, StoreTypeOK, transport,
        history
<1>10. CASE TruncateStream
  <2>1. <<>> \in Seq(Msgs) /\ ZeroCursor \in CursorState
    BY EmptySeq DEF ZeroCursor, CursorState
  <2>2. pc' \in Pcs /\ state' \in States
    BY <1>1, <1>10 DEF TruncateStream, Transition, TypeOK, Pcs, States
  <2>3. QED
    BY <1>1, <1>10, <2>1, <2>2 DEF TruncateStream, Truncate, TypeOK, StoreTypeOK,
        transport, history
<1>11. ASSUME NEW m \in Msgs, SendMessage(m) PROVE TypeOK'
  <2>1. stream' \in Seq(Msgs)
    BY <1>1, <1>11, AppendProperties DEF SendMessage, AppendMessage, TypeOK, StoreTypeOK
  <2>2. QED
    BY <1>1, <1>11, <2>1 DEF SendMessage, AppendMessage, TypeOK, StoreTypeOK, transport
<1>12. CASE Stop \/ UNCHANGED vars
    BY <1>1, <1>12 DEF Stop, vars, TypeOK, StoreTypeOK, storeVars, transport, history
<1>13. CASE NebAnswer
  <2>1. requests' \in Seq(Request) /\ replies' \in Seq(Response)
    BY <1>1, <1>13, AnswerPipes
  <2>2. handled' \subseteq Msgs /\ retained' \subseteq Msgs
    <3>1. 1 \in 1..Len(requests)
      BY <1>1, <1>13, AnswerPipes
    <3>2. requests[1].method = "message" => requests[1].msg \in Msgs
      BY <1>1, <3>1, MessageTypes
    <3>3. Range(snapshot) \subseteq Msgs
      BY <1>1, RangeType DEF TypeOK, StoreTypeOK
    <3>4. QED
      BY <1>1, <1>13, <3>2, <3>3, AnswerPipes DEF TypeOK
  <2>3. QED
    BY <1>1, <1>13, <2>1, <2>2 DEF NebAnswer, TypeOK, StoreTypeOK, storeVars
<1>14. CASE NebDies
  <2>1. requests' \in Seq(Request)
    BY <1>14, EmptySeq DEF NebDies
  <2>2. QED
    BY <1>1, <1>14, <2>1 DEF NebDies, TypeOK, StoreTypeOK, storeVars, history
<1>15. CASE Crash
  <2>1. request' \in Request /\ response' \in Response
    BY <1>15, NewRequestType DEF Crash, StartAgain, Methods, Response, Statuses
  <2>2. Len(stream) \in Nat
    BY <1>1, LenProperties DEF TypeOK, StoreTypeOK
  <2>3. requests' \in Seq(Request) /\ replies' \in Seq(Response)
    BY <1>15, EmptySeq DEF Crash, StartAgain
  <2>4. pc' \in Pcs /\ state' \in States /\ crashes' \in Nat /\ known' \in Nat
    BY <1>1, <1>15, <2>2 DEF Crash, StartAgain, TypeOK, Pcs, States
  <2>5. QED
    BY <1>1, <1>15, <2>1, <2>3, <2>4 DEF Crash, StartAgain, Restart, TypeOK, StoreTypeOK
<1>16. QED
    BY <1>1, <1>2, <1>3, <1>4, <1>5, <1>6, <1>7, <1>8, <1>9, <1>10, <1>11, <1>12, <1>13,
        <1>14, <1>15 DEF Next, PumpStep, PumpOnly

-----------------------------------------------------------------------------
(* The transport *)

\* Steps that leave the pipes alone while no Send waits for an answer.
LEMMA TransportFrame ==
    ASSUME TransportOK, UNCHANGED <<broken, requests, replies, nebUp>>,
           pc # "await", pc' \notin {"await", "returned"},
           pc' = "writing" => ~broken
    PROVE  TransportOK'
BY DEF TransportOK, OneAtATime, ReplyAnswersRequest

\* At most the line of the request under way is in the pipes, whatever the
\* neb, the timer and a restart do.
LEMMA TransportStep == TypeOK /\ TransportOK /\ [Next]_vars => TransportOK'
<1>1. SUFFICES ASSUME TypeOK, TransportOK, [Next]_vars PROVE TransportOK'
    OBVIOUS
<1>2. CASE SendFail \/ ReceiveEOF
  <2>1. /\ UNCHANGED <<broken, requests, replies, nebUp, request>>
        /\ pc' = "returned" /\ response'.to = request
    BY <1>2 DEF SendFail, ReceiveEOF, SendReturns, transport
  <2>2. ~broken => Len(requests) = 0 /\ Len(replies) = 0
    BY <1>1, <1>2, EmptySeq DEF TransportOK, SendFail, ReceiveEOF
  <2>3. QED
    BY <1>1, <2>1, <2>2 DEF TransportOK, OneAtATime, ReplyAnswersRequest
<1>3. CASE PumpOnly /\ ~SendFail /\ ~ReceiveEOF
  <2>1. UNCHANGED <<broken, requests, replies, nebUp>>
    BY <1>3, PumpOnlyFrame
  <2>2. /\ pc # "await" /\ pc' \notin {"await", "returned"}
        /\ pc' = "writing" => ~broken
    BY <1>3 DEF PumpOnly, SendBlocks, Start, InitDone, InitFailed, PollIdle,
        CheckRetention, MessageFailed, Retry, BackoffStopped, RetainDone, RetainFailed,
        StoreFails, Shutdown, ShutdownDone, Returned, TransitionThen, ToIdle, Exit
  <2>3. QED
    BY <1>1, <2>1, <2>2, TransportFrame
<1>4. CASE \/ Poll \/ MessageDone \/ PostProcess \/ WriteDeadLetter \/ AdvancePastDead
           \/ TakeSnapshot \/ TruncateStream
  <2>1. UNCHANGED <<broken, requests, replies, nebUp>>
    BY <1>4 DEF Poll, MessageDone, PostProcess, WriteDeadLetter, AdvancePastDead,
        TakeSnapshot, TruncateStream, transport
  <2>2. pc # "await" /\ pc' \notin {"writing", "await", "returned"}
    BY <1>4 DEF Poll, MessageDone, PostProcess, WriteDeadLetter, AdvancePastDead,
        TakeSnapshot, TruncateStream, Returned, TransitionThen, ToIdle, Exit
  <2>3. QED
    BY <1>1, <2>1, <2>2, TransportFrame
<1>5. CASE SendWrite \/ NebReads
  <2>1. Len(requests') = 1 /\ requests'[1] = request /\ Len(replies) = 0
    BY <1>1, <1>5, WritePipes
  <2>2. /\ pc' = "await" /\ ~broken /\ nebUp
        /\ UNCHANGED <<request, broken, replies, nebUp>>
    BY <1>1, <1>5 DEF SendWrite, NebReads, Written, TransportOK
  <2>3. QED
    BY <2>1, <2>2 DEF TransportOK, OneAtATime, ReplyAnswersRequest
<1>6. CASE Receive
  <2>1. /\ Len(requests) = 0 /\ Len(replies) = 1 /\ Len(replies') = 0
        /\ response' = replies[1]
    BY <1>1, <1>6, ReceivePipes
  <2>2. /\ pc = "await" /\ pc' = "returned"
        /\ UNCHANGED <<request, broken, requests, nebUp>>
    BY <1>6 DEF Receive
  <2>3. 1 \in 1..Len(replies)
    BY <2>1
  <2>4. response'.to = request
    BY <1>1, <2>1, <2>2, <2>3 DEF TransportOK
  <2>5. QED
    BY <2>1, <2>2, <2>4 DEF TransportOK, OneAtATime, ReplyAnswersRequest
<1>7. CASE Timeout
    BY <1>1, <1>7 DEF Timeout, SendReturns, TransportOK, OneAtATime, ReplyAnswersRequest
<1>8. CASE Stop \/ UNCHANGED vars \/ \E m \in Msgs : SendMessage(m)
    BY <1>1, <1>8 DEF Stop, SendMessage, vars, transport, TransportOK, OneAtATime,
        ReplyAnswersRequest
<1>9. CASE NebAnswer
  <2>1. PICK status \in Statuses :
          /\ Len(requests) = 1 /\ Len(requests') = 0
          /\ Len(replies') = 1
          /\ replies'[1] = [to |-> requests[1], status |-> status]
    BY <1>1, <1>9, AnswerPipes
  <2>2. nebUp /\ UNCHANGED <<pc, request, response, broken, nebUp>>
    BY <1>9 DEF NebAnswer
  <2>3. 1 \in 1..Len(requests)
    BY <2>1
  <2>4. pc = "await" => replies'[1].to = request
    BY <1>1, <2>1, <2>3 DEF TransportOK
  <2>5. pc # "await" => broken
    BY <1>1, <2>1 DEF TransportOK
  <2>6. QED
    BY <1>1, <2>1, <2>2, <2>4, <2>5 DEF TransportOK, OneAtATime, ReplyAnswersRequest
<1>10. CASE NebDies
  <2>1. Len(requests') = 0 /\ UNCHANGED <<pc, request, response, broken, replies>>
    BY <1>10, EmptySeq DEF NebDies
  <2>2. Len(replies) \in Nat /\ Len(replies) <= 1
    BY <1>1, PipeLengths
  <2>3. QED
    BY <1>1, <2>1, <2>2 DEF TransportOK, OneAtATime, ReplyAnswersRequest
<1>11. CASE Crash
  <2>1. Len(requests') = 0 /\ Len(replies') = 0 /\ pc' = "created"
    BY <1>11, EmptySeq DEF Crash, StartAgain
  <2>2. QED
    BY <2>1 DEF TransportOK, OneAtATime, ReplyAnswersRequest
<1>12. QED
    BY <1>1, <1>2, <1>3, <1>4, <1>5, <1>6, <1>7, <1>8, <1>9, <1>10, <1>11
        DEF Next, PumpStep, PumpOnly

\* What the answers say, after every step.
LEMMA AnswersStep == TypeOK /\ TransportOK /\ AnswersOK /\ [Next]_vars => AnswersOK'
<1>1. SUFFICES ASSUME TypeOK, TransportOK, AnswersOK, [Next]_vars PROVE AnswersOK'
    OBVIOUS
<1>2. CASE PumpOnly
  <2>1. UNCHANGED <<broken, handled, retained, snapshot>>
    BY <1>2, PumpOnlyFrame
  <2>2. CASE RetainDone
    BY <1>1, <2>1, <2>2 DEF RetainDone, Returned, AnswersOK, Accepted
  <2>3. CASE ~RetainDone
    BY <1>2, <2>3 DEF PumpOnly, AnswersOK, SendBlocks, SendFail, ReceiveEOF,
        SendReturns, Start, InitDone, InitFailed, PollIdle, CheckRetention,
        MessageFailed, Retry, BackoffStopped, RetainFailed, StoreFails, Shutdown,
        ShutdownDone, TransitionThen, ToIdle, Exit
  <2>4. QED
    BY <2>2, <2>3
<1>3. CASE \/ Poll \/ MessageDone \/ PostProcess \/ WriteDeadLetter \/ AdvancePastDead
           \/ TakeSnapshot \/ TruncateStream \/ Crash
    BY <1>3 DEF Poll, MessageDone, PostProcess, WriteDeadLetter, AdvancePastDead,
        TakeSnapshot, TruncateStream, Crash, StartAgain, TransitionThen, ToIdle, Exit,
        AnswersOK
<1>4. CASE SendWrite \/ NebReads
    BY <1>1, <1>4, WritePipes DEF SendWrite, NebReads, Written, AnswersOK
<1>5. CASE Receive
  <2>1. Len(replies) = 1 /\ response' = replies[1]
    BY <1>1, <1>5, ReceivePipes
  <2>2. /\ pc = "await" /\ pc' = "returned"
        /\ UNCHANGED <<request, broken, snapshot, handled, retained>>
    BY <1>5 DEF Receive, storeVars, history
  <2>3. 1 \in 1..Len(replies)
    BY <2>1
  <2>4. response'.status # "error" => Accepted
    BY <1>1, <2>1, <2>2, <2>3 DEF AnswersOK
  <2>5. ~broken
    BY <1>1, <2>2 DEF TransportOK
  <2>6. QED
    BY <2>2, <2>4, <2>5 DEF AnswersOK, Accepted
<1>6. CASE Timeout
    BY <1>6 DEF Timeout, SendReturns, AnswersOK
<1>7. CASE Stop \/ UNCHANGED vars \/ NebDies \/ \E m \in Msgs : SendMessage(m)
    BY <1>1, <1>7 DEF Stop, NebDies, SendMessage, AppendMessage, vars, storeVars,
        transport, history, AnswersOK, Accepted
<1>8. CASE NebAnswer
  <2>1. PICK status \in Statuses :
          /\ Len(requests) = 1
          /\ Len(replies') = 1
          /\ replies'[1] = [to |-> requests[1], status |-> status]
          /\ handled' = IF requests[1].method = "message" /\ status # "error"
                        THEN handled \cup {requests[1].msg} ELSE handled
          /\ retained' = IF requests[1].method = "retain" /\ status # "error"
                         THEN retained \cup Range(snapshot) ELSE retained
    BY <1>1, <1>8, AnswerPipes
  <2>2. UNCHANGED <<pc, request, response, broken, snapshot>>
    BY <1>8 DEF NebAnswer, storeVars
  <2>3. 1 \in 1..Len(requests)
    BY <2>1
  <2>4. pc = "await" => requests[1] = request
    BY <1>1, <2>3 DEF TransportOK
  <2>5. pc = "await" /\ status # "error" => Accepted'
    BY <2>1, <2>2, <2>4 DEF Accepted
  <2>6. Accepted => Accepted'
    BY <2>1, <2>2 DEF Accepted
  <2>7. \A i \in 1..Len(replies') : replies'[i].status = status
    BY <2>1
  <2>8. QED
    BY <1>1, <2>2, <2>5, <2>6, <2>7 DEF AnswersOK
<1>9. QED
    BY <1>1, <1>2, <1>3, <1>4, <1>5, <1>6, <1>7, <1>8 DEF Next, PumpStep, PumpOnly

-----------------------------------------------------------------------------
(* The cursors *)

\* A handled message stays handled, a dead letter stays a dead letter.
LEMMA SettledGrows ==
    ASSUME TypeOK, TransportOK, [Next]_vars, ~WriteDeadLetter
    PROVE  handled \subseteq handled' /\ dead' = dead
<1>1. CASE NebAnswer
    BY <1>1, AnswerPipes DEF NebAnswer, storeVars
<1>2. CASE PumpOnly
    BY <1>2, PumpOnlyFrame
<1>3. CASE ~NebAnswer /\ ~PumpOnly
    BY <1>3 DEF Next, PumpStep, PumpOnly, vars, storeVars, history, SendWrite,
        NebReads, Written, Receive, Timeout, Poll, NextUnprocessed, MessageDone,
        MarkProcessed, PostProcess, MarkPostProcessed, AdvancePastDead,
        DeadLetterAdvance, TakeSnapshot, Snapshot, TruncateStream, Truncate,
        SendMessage, AppendMessage, Stop, NebDies, Crash, StartAgain, Restart
<1>4. QED
    BY <1>1, <1>2, <1>3

\* Numbers and positions in the stream.
LEMMA StreamTypes ==
    ASSUME TypeOK
    PROVE  /\ stream \in Seq(Msgs) /\ Len(stream) \in Nat
           /\ DOMAIN stream = 1..Len(stream)
           /\ cur.consumed \in Nat /\ saved.consumed \in Nat
           /\ current # None => current.offset \in Nat
BY LenProperties DEF TypeOK, StoreTypeOK, CursorState

\* Steps that leave the stream and the cursors alone.
LEMMA CursorsFrame ==
    ASSUME CursorsOK, UNCHANGED <<stream, cur, saved, current>>,
           handled \subseteq handled', Range(dead) \subseteq Range(dead)',
           pc' # "exited" => pc # "exited",
           Handling' => Handling /\ request'.msg = request.msg
    PROVE  CursorsOK'
BY DEF CursorsOK, AtCursor

\* The message being handled stays at the cursor, and only a message that was
\* answered or is a dead letter is passed.
LEMMA CursorsStep == IInv /\ [Next]_vars => CursorsOK'
<1>1. SUFFICES ASSUME IInv, [Next]_vars PROVE CursorsOK'
    OBVIOUS
<1> USE DEF IInv
<1>2. ~WriteDeadLetter => handled \subseteq handled' /\ dead' = dead
    BY <1>1, SettledGrows
<1>3. CASE PumpOnly
  <2>1. UNCHANGED <<stream, cur, saved, current, dead, handled>>
    BY <1>3, PumpOnlyFrame
  <2>2. pc # "exited"
    BY <1>3 DEF PumpOnly, SendBlocks, SendFail, ReceiveEOF, Start, InitDone,
        InitFailed, PollIdle, CheckRetention, MessageFailed, Retry, BackoffStopped,
        RetainDone, RetainFailed, StoreFails, Shutdown, ShutdownDone, Returned
  <2>3. Handling' => Handling /\ request'.msg = request.msg
    <3>1. CASE Retry
      BY <1>1, <3>1, RetryType DEF Retry, ControlOK, Handling
    <3>2. CASE Start \/ Shutdown
      BY <3>2 DEF Start, Shutdown, Call, NewRequest, TransitionThen, Handling, Sending
    <3>3. CASE SendBlocks \/ SendFail \/ ReceiveEOF \/ MessageFailed
      BY <3>3 DEF SendBlocks, SendFail, ReceiveEOF, SendReturns, MessageFailed, Returned,
          Handling, Sending
    <3>4. CASE \/ InitDone \/ InitFailed \/ PollIdle \/ CheckRetention \/ BackoffStopped
               \/ RetainDone \/ RetainFailed \/ StoreFails \/ ShutdownDone
      BY <3>4 DEF InitDone, InitFailed, PollIdle, CheckRetention, BackoffStopped,
          RetainDone, RetainFailed, StoreFails, ShutdownDone, TransitionThen, ToIdle,
          Exit, Handling, Sending
    <3>5. QED
      BY <1>3, <3>1, <3>2, <3>3, <3>4 DEF PumpOnly
  <2>4. QED
    BY <1>1, <2>1, <2>2, <2>3, CursorsFrame
<1>4. CASE SendWrite \/ NebReads \/ Receive \/ Timeout
    BY <1>1, <1>2, <1>4, CursorsFrame DEF SendWrite, NebReads, Written, Receive,
        Timeout, SendReturns, WriteDeadLetter, storeVars, history, Handling, Sending
<1>5. CASE Poll
  <2>1. /\ pc = "top" /\ UNCHANGED <<stream, cur, saved, dead, handled>>
        /\ cur.consumed < Len(stream)
        /\ current' = [offset |-> cur.consumed, msg |-> stream[cur.consumed + 1]]
        /\ request'.msg = current'.msg
    BY <1>5 DEF Poll, NextUnprocessed, Call, NewRequest, history
  <2>2. current' \in [offset : Nat, msg : Msgs]
    <3>1. stream \in Seq(Msgs) /\ cur.consumed + 1 \in 1..Len(stream)
      BY <1>1, <2>1, StreamTypes
    <3>2. stream[cur.consumed + 1] \in Msgs
      BY <3>1, ElementOfSeq
    <3>3. QED
      BY <1>1, <2>1, <3>2, StreamTypes
  <2>3. QED
    BY <1>1, <2>1, <2>2 DEF CursorsOK, AtCursor
<1>6. CASE MessageDone \/ AdvancePastDead
  <2>1. /\ current # None /\ SaveCursor(AdvanceConsumed(cur, current.offset))
        /\ UNCHANGED <<stream, dead, current, handled>>
        /\ pc # "exited"
        /\ pc' \in {"post", "check", "exited"}
        /\ pc' # "exited" => saved' = cur'
    BY <1>6 DEF MessageDone, MarkProcessed, AdvancePastDead, DeadLetterAdvance, Returned,
        history, SaveOutcome, Exit, ToIdle
  <2>2. AtCursor
    BY <1>1, <1>6 DEF MessageDone, Returned, AdvancePastDead, CursorsOK, Handling, Sending
  <2>3. /\ cur.consumed \in Nat /\ saved.consumed \in Nat
        /\ cur'.consumed = cur.consumed + 1 /\ saved' \in {saved, cur'}
    BY <1>1, <2>1, <2>2, Consume DEF AtCursor
  <2>4. /\ Len(stream) \in Nat /\ cur.consumed < Len(stream)
        /\ saved.consumed <= cur.consumed
        /\ \A p \in 1..cur.consumed : stream[p] \in handled \cup Range(dead)
    BY <1>1, <2>2, StreamTypes DEF AtCursor, CursorsOK
  <2>5. stream[cur.consumed + 1] \in handled \cup Range(dead)
    <3>1. CASE MessageDone
      BY <1>1, <2>2, <3>1 DEF MessageDone, Returned, AnswersOK, Accepted, AtCursor
    <3>2. CASE AdvancePastDead
      BY <2>2, <3>2 DEF AdvancePastDead, DeadLetterAdvance, AtCursor
    <3>3. QED
      BY <1>6, <3>1, <3>2
  <2>6. \A p \in 1..cur'.consumed : stream[p] \in handled \cup Range(dead)
    <3>1. \A p \in 1..cur'.consumed : p \in 1..cur.consumed \/ p = cur.consumed + 1
      BY <2>3
    <3>2. QED
      BY <2>4, <2>5, <3>1
  <2>7. saved'.consumed <= cur'.consumed /\ cur'.consumed <= Len(stream)
    BY <2>3, <2>4
  <2>8. QED
    BY <2>1, <2>6, <2>7 DEF CursorsOK, Handling, Sending
<1>7. CASE PostProcess
  <2>1. /\ current # None /\ SaveCursor(AdvancePostProcessed(cur, current.offset))
        /\ UNCHANGED <<stream, dead, current, handled>>
        /\ pc = "post"
        /\ pc' \in {"check", "exited"}
        /\ pc' # "exited" => saved' = cur'
    BY <1>7 DEF PostProcess, MarkPostProcessed, history, SaveOutcome, Exit, ToIdle
  <2>2. cur'.consumed = cur.consumed /\ saved' \in {saved, cur'}
    BY <1>1, <2>1, PostConsume
  <2>3. cur.consumed \in Nat
    BY <1>1, StreamTypes
  <2>4. QED
    BY <1>1, <2>1, <2>2, <2>3 DEF CursorsOK, Handling, Sending
<1>8. CASE WriteDeadLetter
  <2>1. /\ dead' = Append(dead, current.msg)
        /\ pc = "dead" /\ pc' \in {"bury", "exited"}
        /\ UNCHANGED <<stream, cur, saved, current, request, handled>>
    BY <1>8 DEF WriteDeadLetter, DeadLetterWrite, history
  <2>2. current.msg \in Msgs /\ dead \in Seq(Msgs)
    BY <1>1, <2>1, MessageTypes DEF Handling, TypeOK, StoreTypeOK
  <2>3. Range(dead) \subseteq Range(dead)'
    BY <2>1, <2>2, RangeAppend
  <2>4. QED
    BY <1>1, <2>1, <2>3, CursorsFrame DEF Handling
<1>9. CASE TakeSnapshot
  <2>1. /\ UNCHANGED <<stream, cur, saved, current, dead, handled>>
        /\ pc = "snapshot" /\ pc' \in {"send", "exited"} /\ request'.method = "retain"
    BY <1>9 DEF TakeSnapshot, Snapshot, TransitionThen, Call, NewRequest, history
  <2>2. QED
    BY <1>1, <2>1, CursorsFrame DEF Handling, Sending
<1>10. CASE TruncateStream
  <2>1. /\ stream' = <<>> /\ cur' = ZeroCursor /\ saved' = ZeroCursor /\ pc' = "top"
    BY <1>10 DEF TruncateStream, Truncate
  <2>2. Len(stream') = 0 /\ cur'.consumed = 0 /\ saved'.consumed = 0
    BY <2>1, EmptySeq DEF ZeroCursor
  <2>3. QED
    BY <2>1, <2>2 DEF CursorsOK, Handling, Sending
<1>11. ASSUME NEW m \in Msgs, SendMessage(m) PROVE CursorsOK'
  <2>1. /\ stream' = Append(stream, m)
        /\ UNCHANGED <<cur, saved, dead, current, pc, request, handled>>
    BY <1>11 DEF SendMessage, AppendMessage
  <2>2. /\ Len(stream') = Len(stream) + 1
        /\ \A i \in 1..Len(stream) : stream'[i] = stream[i]
    BY <1>1, <2>1, StreamTypes, AppendProperties
  <2>3. /\ Len(stream) \in Nat /\ cur.consumed \in Nat /\ cur.consumed <= Len(stream)
        /\ saved.consumed <= cur.consumed
    BY <1>1, StreamTypes DEF CursorsOK
  <2>4. \A p \in 1..cur.consumed : p \in 1..Len(stream)
    BY <2>3
  <2>5. cur'.consumed <= Len(stream')
    BY <2>1, <2>2, <2>3
  <2>6. AtCursor => AtCursor'
    <3>1. cur.consumed < Len(stream) => cur.consumed + 1 \in 1..Len(stream)
                                        /\ cur.consumed < Len(stream')
      BY <2>2, <2>3
    <3>2. QED
      BY <2>1, <2>2, <3>1 DEF AtCursor
  <2>7. QED
    BY <1>1, <2>1, <2>2, <2>4, <2>5, <2>6 DEF CursorsOK, Handling, Sending
<1>12. CASE Stop \/ NebAnswer \/ NebDies \/ UNCHANGED vars
  <2>1. /\ UNCHANGED <<stream, cur, saved, dead, current, pc, request>>
        /\ handled \subseteq handled'
    <3>1. UNCHANGED <<stream, cur, saved, dead, current, pc, request>>
      BY <1>12 DEF Stop, NebAnswer, NebDies, vars, storeVars
    <3>2. CASE ~WriteDeadLetter
      BY <1>2, <3>1, <3>2
    <3>3. CASE WriteDeadLetter
      BY <3>1, <3>3 DEF WriteDeadLetter, history
    <3>4. QED
      BY <3>1, <3>2, <3>3
  <2>2. QED
    BY <1>1, <2>1, CursorsFrame DEF Handling, Sending
<1>13. CASE Crash
  <2>1. /\ cur' = saved /\ UNCHANGED <<stream, saved, dead, handled>>
        /\ pc' = "created"
    BY <1>13 DEF Crash, StartAgain, Restart
  <2>2. saved.consumed \in Nat /\ cur.consumed \in Nat /\ Len(stream) \in Nat
    BY <1>1, StreamTypes
  <2>3. \A p \in 1..saved.consumed : p \in 1..cur.consumed
    BY <1>1, <2>2 DEF CursorsOK
  <2>4. saved.consumed <= saved.consumed /\ saved.consumed <= Len(stream)
    BY <1>1, <2>2 DEF CursorsOK
  <2>5. QED
    BY <1>1, <2>1, <2>3, <2>4 DEF CursorsOK, Handling, Sending
<1>14. QED
    BY <1>1, <1>3, <1>4, <1>5, <1>6, <1>7, <1>8, <1>9, <1>10, <1>11, <1>12, <1>13
        DEF Next, PumpStep, PumpOnly

-----------------------------------------------------------------------------
(* Where the messages are *)

\* Steps that leave the stream, the snapshot and the history alone.
LEMMA StreamFrame ==
    ASSUME StreamOK,
           UNCHANGED <<stream, snapshot, sent, handled, retained, late, saved, requests>>,
           Range(dead) \subseteq Range(dead)',
           BetweenSnapshotAndTruncate' => BetweenSnapshotAndTruncate
    PROVE  StreamOK'
BY DEF StreamOK, RequestsOK, OneRedelivery

\* The durable cursor moves forward.
LEMMA CursorForward ==
    ASSUME TypeOK, StreamOK, saved'.consumed \in Nat, saved.consumed <= saved'.consumed,
           UNCHANGED <<stream, sent, handled, retained, late, dead, requests>>,
           ~BetweenSnapshotAndTruncate'
    PROVE  StreamOK'
<1>1. /\ saved.consumed \in Nat /\ Len(stream) \in Nat /\ DOMAIN stream = 1..Len(stream)
    BY StreamTypes
<1>2. \A o \in 1..Len(stream) : o <= saved.consumed + 1 => o <= saved'.consumed + 1
    BY <1>1
<1>3. RequestsOK'
    BY <1>2 DEF StreamOK, RequestsOK
<1>4. OneRedelivery'
    BY <1>1, <1>2 DEF StreamOK, OneRedelivery
<1>5. QED
    BY <1>3, <1>4 DEF StreamOK

\* Another message at the end of the stream, where none was before.
LEMMA SendStream ==
    ASSUME IInv, NEW m \in Msgs, SendMessage(m)
    PROVE  StreamOK'
<1> DEFINE n == Len(stream)
<1> USE DEF IInv
<1>1. /\ m \notin sent /\ stream' = Append(stream, m) /\ sent' = sent \cup {m}
      /\ late' = IF BetweenSnapshotAndTruncate THEN late \cup {m} ELSE late
      /\ UNCHANGED <<cur, saved, dead, snapshot, handled, retained, requests, pc, request>>
    BY DEF SendMessage, AppendMessage, transport
<1>2. /\ Len(stream') = n + 1 /\ DOMAIN stream' = 1..n + 1
      /\ \A i \in 1..n : stream'[i] = stream[i]
      /\ stream'[n + 1] = m
      /\ n \in Nat
      /\ DOMAIN stream = 1..n /\ saved.consumed \in Nat
    <2>1. stream' \in Seq(Msgs) /\ Len(stream') = n + 1
      BY <1>1, StreamTypes, AppendProperties
    <2>2. QED
      BY <1>1, <2>1, StreamTypes, AppendProperties, LenProperties
<1>3. Range(stream') = Range(stream) \cup {m}
    BY <1>1, StreamTypes, RangeAppend
<1> HIDE DEF n
<1>4. \A i \in 1..n + 1 : i \in 1..n \/ i = n + 1
    BY <1>2
<1>5. \A i \in 1..n : stream[i] \in sent /\ stream[i] # m
    BY <1>1, <1>2 DEF StreamOK, Range
<1>6. \A o, p \in 1..Len(stream') : stream'[o] = stream'[p] => o = p
  <2>1. \A o, p \in 1..n : stream[o] = stream[p] => o = p
    BY DEF StreamOK, n
  <2>2. QED
    BY <1>2, <1>4, <1>5, <2>1
<1>7. /\ Range(stream') \subseteq sent' /\ handled' \subseteq sent'
      /\ sent' \subseteq Range(stream') \cup handled' \cup Range(dead') \cup retained' \cup late'
    BY <1>1, <1>3 DEF StreamOK
<1>8. BetweenSnapshotAndTruncate' => Range(stream') \subseteq Range(snapshot') \cup late'
  <2>1. BetweenSnapshotAndTruncate' = BetweenSnapshotAndTruncate
    BY <1>1 DEF BetweenSnapshotAndTruncate
  <2>2. QED
    BY <1>1, <1>3, <2>1 DEF StreamOK
<1>9. RequestsOK'
  <2>1. \A o \in 1..n : o \in 1..Len(stream')
    BY <1>2
  <2>2. QED
    BY <1>1, <1>2, <2>1 DEF StreamOK, RequestsOK, n
<1>10. OneRedelivery'
  <2>1. m \notin handled
    BY <1>1 DEF StreamOK
  <2>2. QED
    BY <1>1, <1>2, <1>4, <2>1 DEF StreamOK, OneRedelivery
<1>11. QED
    BY <1>6, <1>7, <1>8, <1>9, <1>10 DEF StreamOK

\* The neb's answer makes a message handled that the durable cursor has reached.
LEMMA AnswerStream == ASSUME IInv, NebAnswer PROVE StreamOK'
<1> USE DEF IInv
<1>1. PICK status \in Statuses :
        /\ Len(requests) = 1 /\ Len(requests') = 0
        /\ handled' = IF requests[1].method = "message" /\ status # "error"
                      THEN handled \cup {requests[1].msg} ELSE handled
        /\ retained' = IF requests[1].method = "retain" /\ status # "error"
                       THEN retained \cup Range(snapshot) ELSE retained
    BY AnswerPipes
<1>2. UNCHANGED <<stream, saved, dead, snapshot, sent, late, pc, request>>
    BY DEF NebAnswer, storeVars
<1>3. 1 \in 1..Len(requests) /\ DOMAIN stream = 1..Len(stream)
    BY <1>1, StreamTypes
<1>4. requests[1].method = "message" =>
        \E o \in 1..Len(stream) : /\ stream[o] = requests[1].msg
                                  /\ o <= saved.consumed + 1
    BY <1>3 DEF StreamOK, RequestsOK
<1>5. handled' \subseteq sent'
    BY <1>1, <1>2, <1>3, <1>4 DEF StreamOK, Range
<1>6. OneRedelivery'
  <2>1. CASE requests[1].method = "message"
    <3>1. PICK o \in 1..Len(stream) : /\ stream[o] = requests[1].msg
                                      /\ o <= saved.consumed + 1
      BY <1>4, <2>1
    <3>2. \A p \in 1..Len(stream) : stream[p] = requests[1].msg => p = o
      BY <3>1 DEF StreamOK
    <3>3. QED
      BY <1>1, <1>2, <1>3, <3>1, <3>2 DEF StreamOK, OneRedelivery
  <2>2. CASE requests[1].method # "message"
    BY <1>1, <1>2, <2>2 DEF StreamOK, OneRedelivery
  <2>3. QED
    BY <2>1, <2>2
<1>7. RequestsOK'
    BY <1>1 DEF RequestsOK
<1>8. handled \subseteq handled' /\ retained \subseteq retained'
    BY <1>1
<1>9. QED
    BY <1>2, <1>5, <1>6, <1>7, <1>8 DEF StreamOK, BetweenSnapshotAndTruncate

\* The request for the message at the cursor comes before the neb.
LEMMA WriteStream == ASSUME IInv, SendWrite \/ NebReads PROVE StreamOK'
<1> USE DEF IInv
<1>1. Len(requests') = 1 /\ requests'[1] = request
    BY WritePipes
<1>2. /\ UNCHANGED <<stream, cur, saved, dead, snapshot, sent, handled, retained, late>>
      /\ pc \in {"send", "writing"} /\ pc' = "await" /\ request' = request
    BY DEF SendWrite, NebReads, Written, storeVars
<1>3. RequestsOK'
  <2>1. ASSUME request.method = "message"
        PROVE  \E o \in 1..Len(stream) : stream[o] = request.msg /\ o <= saved.consumed + 1
    <3>1. AtCursor /\ saved = cur
      BY <1>2, <2>1 DEF CursorsOK, Handling, Sending
    <3>2. /\ cur.consumed \in Nat /\ Len(stream) \in Nat /\ cur.consumed < Len(stream)
          /\ stream[cur.consumed + 1] = request.msg
      BY <3>1, StreamTypes DEF AtCursor
    <3>3. cur.consumed + 1 \in 1..Len(stream) /\ cur.consumed + 1 <= saved.consumed + 1
      BY <3>1, <3>2
    <3>4. QED
      BY <3>2, <3>3
  <2>2. QED
    BY <1>1, <1>2, <2>1 DEF RequestsOK
<1>4. QED
    BY <1>2, <1>3 DEF StreamOK, OneRedelivery, BetweenSnapshotAndTruncate, ControlOK

\* All that is truncated is handled, a dead letter, retained or late.
LEMMA TruncateStreamOK == ASSUME IInv, TruncateStream PROVE StreamOK'
<1> USE DEF IInv
<1>1. /\ pc = "truncate" /\ stream' = <<>> /\ pc' = "top"
      /\ UNCHANGED <<dead, sent, handled, retained, late, requests>>
    BY DEF TruncateStream, Truncate, transport, history
<1>2. ~broken /\ Range(snapshot) \subseteq retained
    BY <1>1 DEF AnswersOK, Accepted, ControlOK
<1>3. Len(requests) = 0
    BY <1>1, <1>2 DEF TransportOK
<1>4. Range(stream) \subseteq Range(snapshot) \cup late
    BY <1>1 DEF StreamOK, BetweenSnapshotAndTruncate
<1>5. Range(stream') = {} /\ Len(stream') = 0 /\ DOMAIN stream' = {}
  <2>1. <<>> \in Seq(Msgs) /\ Len(<<>>) = 0
    BY EmptySeq
  <2>2. QED
    BY <1>1, <2>1, LenProperties DEF Range
<1>6. RequestsOK' /\ OneRedelivery'
    BY <1>1, <1>3, <1>5 DEF RequestsOK, OneRedelivery
<1>7. sent' \subseteq handled' \cup Range(dead') \cup retained' \cup late'
    BY <1>1, <1>2, <1>4 DEF StreamOK
<1>8. ~BetweenSnapshotAndTruncate'
    BY <1>1 DEF BetweenSnapshotAndTruncate
<1>9. QED
    BY <1>1, <1>5, <1>6, <1>7, <1>8 DEF StreamOK

\* No step loses sight of a message.
LEMMA StreamStep == IInv /\ [Next]_vars => StreamOK'
<1>1. SUFFICES ASSUME IInv, [Next]_vars PROVE StreamOK'
    OBVIOUS
<1> USE DEF IInv
<1>2. CASE PumpOnly
  <2>1. UNCHANGED <<stream, snapshot, sent, handled, retained, late, saved, requests, dead>>
    BY <1>2, PumpOnlyFrame
  <2>2. BetweenSnapshotAndTruncate' => BetweenSnapshotAndTruncate
    <3>1. CASE Start \/ Shutdown
      BY <3>1 DEF Start, Shutdown, Call, NewRequest, TransitionThen,
          BetweenSnapshotAndTruncate
    <3>2. CASE Retry
      BY <1>1, <3>2, RetryType DEF Retry, ControlOK, BetweenSnapshotAndTruncate
    <3>3. CASE \/ InitDone \/ InitFailed \/ PollIdle \/ CheckRetention \/ BackoffStopped
               \/ RetainDone \/ RetainFailed \/ StoreFails \/ ShutdownDone
      BY <3>3 DEF InitDone, InitFailed, PollIdle, CheckRetention, BackoffStopped,
          RetainDone, RetainFailed, StoreFails, ShutdownDone, TransitionThen, ToIdle,
          Exit, Returned, BetweenSnapshotAndTruncate
    <3>4. CASE SendBlocks \/ SendFail \/ ReceiveEOF \/ MessageFailed
      BY <1>1, <3>4 DEF SendBlocks, SendFail, ReceiveEOF, SendReturns, MessageFailed,
          ControlOK, BetweenSnapshotAndTruncate
    <3>5. QED
      BY <1>2, <3>1, <3>2, <3>3, <3>4 DEF PumpOnly
  <2>3. QED
    BY <1>1, <2>1, <2>2, StreamFrame
<1>3. CASE SendWrite \/ NebReads
    BY <1>1, <1>3, WriteStream
<1>4. CASE Receive \/ Timeout \/ Stop \/ UNCHANGED vars
    BY <1>1, <1>4, StreamFrame DEF Receive, Timeout, SendReturns, Stop, vars, storeVars,
        transport, history, BetweenSnapshotAndTruncate
<1>5. CASE Poll
    BY <1>1, <1>5, StreamFrame DEF Poll, NextUnprocessed, TransitionThen, Call,
        NewRequest, transport, history, BetweenSnapshotAndTruncate
<1>6. CASE MessageDone \/ PostProcess \/ AdvancePastDead
  <2>1. saved'.consumed \in Nat /\ saved.consumed <= saved'.consumed
    <3>1. /\ saved.consumed \in Nat /\ cur.consumed \in Nat
          /\ saved.consumed <= cur.consumed
      BY <1>1, StreamTypes DEF CursorsOK
    <3>2. CASE PostProcess
      BY <1>1, <3>1, <3>2, PostConsume DEF PostProcess, MarkPostProcessed
    <3>3. CASE MessageDone \/ AdvancePastDead
      <4>1. SaveCursor(AdvanceConsumed(cur, current.offset))
        BY <3>3 DEF MessageDone, MarkProcessed, AdvancePastDead, DeadLetterAdvance
      <4>2. current.offset = cur.consumed
        BY <1>1, <3>3 DEF MessageDone, Returned, AdvancePastDead, CursorsOK, Handling,
            Sending, AtCursor
      <4>3. QED
        BY <1>1, <3>1, <4>1, <4>2, Consume
    <3>4. QED
      BY <1>6, <3>2, <3>3
  <2>2. /\ UNCHANGED <<stream, sent, handled, retained, late, dead, requests>>
        /\ pc' \in {"post", "check", "exited"}
    BY <1>6 DEF MessageDone, PostProcess, AdvancePastDead, MarkProcessed,
        MarkPostProcessed, DeadLetterAdvance, ToIdle, Exit, transport, history
  <2>3. QED
    BY <1>1, <2>1, <2>2, CursorForward DEF BetweenSnapshotAndTruncate
<1>7. CASE WriteDeadLetter
  <2>1. current.msg \in Msgs /\ dead \in Seq(Msgs)
    BY <1>1, <1>7, MessageTypes DEF WriteDeadLetter, Handling, TypeOK, StoreTypeOK
  <2>2. Range(dead) \subseteq Range(dead)'
    BY <1>7, <2>1, RangeAppend DEF WriteDeadLetter, DeadLetterWrite
  <2>3. QED
    BY <1>1, <1>7, <2>2, StreamFrame DEF WriteDeadLetter, DeadLetterWrite, transport,
        history, BetweenSnapshotAndTruncate
<1>8. CASE TakeSnapshot
    BY <1>1, <1>8 DEF TakeSnapshot, Snapshot, transport, history, StreamOK, RequestsOK,
        OneRedelivery
<1>9. CASE TruncateStream
    BY <1>1, <1>9, TruncateStreamOK
<1>10. ASSUME NEW m \in Msgs, SendMessage(m) PROVE StreamOK'
    BY <1>1, <1>10, SendStream
<1>11. CASE NebAnswer
    BY <1>1, <1>11, AnswerStream
<1>12. CASE NebDies \/ Crash
  <2>1. /\ Len(requests') = 0
        /\ UNCHANGED <<stream, snapshot, sent, handled, retained, late, saved, dead>>
        /\ BetweenSnapshotAndTruncate' => BetweenSnapshotAndTruncate
    BY <1>12, EmptySeq DEF NebDies, Crash, StartAgain, Restart, storeVars, history,
        BetweenSnapshotAndTruncate
  <2>2. RequestsOK'
    BY <2>1 DEF RequestsOK
  <2>3. QED
    BY <1>1, <2>1, <2>2 DEF StreamOK, OneRedelivery
<1>13. QED
    BY <1>1, <1>2, <1>3, <1>4, <1>5, <1>6, <1>7, <1>8, <1>9, <1>10, <1>11, <1>12
        DEF Next, PumpStep, PumpOnly

-----------------------------------------------------------------------------
(* The theorems *)

\* A fresh directory has no message, and the goroutine has not started.
LEMMA InitInv == Init => IInv
<1>1. SUFFICES ASSUME Init PROVE IInv
    OBVIOUS
<1>2. /\ \A S : <<>> \in Seq(S)
      /\ Len(<<>>) = 0 /\ \A i \in 1..Len(<<>>) : FALSE
    BY EmptySeq
<1>3. ZeroCursor \in CursorState /\ ZeroCursor.consumed = 0
    BY DEF ZeroCursor, CursorState
<1>4. request \in Request /\ request.method = "init"
    BY <1>1, NewRequestType DEF Init, Methods
<1>5. Range(<<>>) = {} /\ DOMAIN <<>> = {}
  <2>1. <<>> \in Seq({})
      BY <1>2
  <2>2. Range(<<>>) = {}
      BY <1>2, <2>1, RangeType
  <2>3. QED
      BY <2>2 DEF Range
<1>6. TypeOK
    BY <1>1, <1>2, <1>3, <1>4 DEF Init, StoreInit, TypeOK, StoreTypeOK, Pcs, States,
        Response, Statuses
<1>7. ControlOK
    BY <1>1 DEF Init, ControlOK, StateFollowsPump, Sending
<1>8. TransportOK
    BY <1>1, <1>2 DEF Init, TransportOK, OneAtATime, ReplyAnswersRequest
<1>9. AnswersOK
    BY <1>1 DEF Init, AnswersOK
<1>10. CursorsOK
    BY <1>1, <1>2, <1>3 DEF Init, StoreInit, CursorsOK, Handling, Sending
<1>11. StreamOK
    BY <1>1, <1>2, <1>5 DEF Init, StoreInit, StreamOK, RequestsOK, OneRedelivery,
        BetweenSnapshotAndTruncate
<1>12. QED
    BY <1>6, <1>7, <1>8, <1>9, <1>10, <1>11 DEF IInv

\* Every step keeps the invariant.
LEMMA NextStep == IInv /\ [Next]_vars => IInv'
<1>1. SUFFICES ASSUME IInv, [Next]_vars PROVE IInv'
    OBVIOUS
<1>2. TypeOK /\ ControlOK /\ TransportOK /\ AnswersOK
    BY <1>1 DEF IInv
<1>3. TypeOK' /\ CursorsOK' /\ StreamOK'
    BY <1>1, TypeStep, CursorsStep, StreamStep
<1>4. ControlOK' /\ TransportOK' /\ AnswersOK'
    BY <1>1, <1>2, ControlStep, TransportStep, AnswersStep
<1>5. QED
    BY <1>3, <1>4 DEF IInv

\* The invariant says where each message is, and which one can be before the neb.
LEMMA InvariantDelivers ==
    IInv => NothingLost /\ InOrderDelivery /\ OneAtATime /\ OneRedelivery
<1>1. SUFFICES ASSUME IInv
               PROVE  NothingLost /\ InOrderDelivery /\ OneAtATime /\ OneRedelivery
    OBVIOUS
<1> USE DEF IInv
<1>2. /\ stream \in Seq(Msgs) /\ DOMAIN stream = 1..Len(stream) /\ Len(stream) \in Nat
      /\ cur.consumed \in Nat /\ saved.consumed \in Nat
    BY <1>1, StreamTypes
<1>3. ASSUME NEW m \in Range(stream)
      PROVE  m \in Unconsumed \cup handled \cup Range(dead)
  <2>1. PICK o \in 1..Len(stream) : stream[o] = m
      BY <1>2, <1>3, RangeType
  <2>2. o > cur.consumed \/ o \in 1..cur.consumed
      BY <1>2
  <2>3. QED
      BY <1>1, <1>2, <2>1, <2>2 DEF CursorsOK, Unconsumed
<1>4. NothingLost
    BY <1>1, <1>3 DEF StreamOK, NothingLost
<1>5. ASSUME NEW r \in Range(requests), r.method = "message"
      PROVE  \E o \in DOMAIN stream :
                /\ stream[o] = r.msg
                /\ \A p \in 1..o - 1 : stream[p] \in handled \cup Range(dead)
  <2>1. PICK i \in 1..Len(requests) : requests[i] = r
      BY <1>1, <1>5, RangeType DEF TypeOK
  <2>2. PICK o \in 1..Len(stream) : stream[o] = r.msg /\ o <= saved.consumed + 1
      BY <1>1, <1>5, <2>1 DEF StreamOK, RequestsOK
  <2>3. \A p \in 1..o - 1 : p \in 1..cur.consumed
      BY <1>1, <1>2, <2>2 DEF CursorsOK
  <2>4. QED
      BY <1>1, <1>2, <2>2, <2>3 DEF CursorsOK
<1>6. InOrderDelivery
    BY <1>5 DEF InOrderDelivery
<1>7. QED
    BY <1>1, <1>4, <1>6 DEF TransportOK, StreamOK

\* The inductive invariant holds in every reachable state.
THEOREM Invariance == Spec => []IInv
BY InitInv, NextStep, PTL DEF Spec

\* Type correctness; no request counts more than MaxRetries attempts after the
\* first (processMessage's loop).
THEOREM TypeCorrect == Spec => []TypeOK
<1>1. IInv => TypeOK
    BY DEF IInv
<1>2. QED
    BY <1>1, Invariance, PTL

\* The table of states.go refuses none of the transitions the pump asks for,
\* so that it never spins at the top of its loop in another state than idle.
THEOREM StateCorrect == Spec => []StateFollowsPump
<1>1. IInv => StateFollowsPump
    BY DEF IInv, ControlOK
<1>2. QED
    BY <1>1, Invariance, PTL

\* A response Send returns answers the request it was called with, although
\* nothing compares their IDs.
THEOREM ReplyCorrect == Spec => []ReplyAnswersRequest
<1>1. IInv => ReplyAnswersRequest
    BY DEF IInv, TransportOK
<1>2. QED
    BY <1>1, Invariance, PTL

\* The neb never has two messages at once, also when an answer is late.
THEOREM OneAtATimeCorrect == Spec => []OneAtATime
BY InvariantDelivers, Invariance, PTL

\* When a message is before the neb, each one in front of it in the stream was
\* answered or is among the dead letters.
THEOREM DeliveryInOrder == Spec => []InOrderDelivery
BY InvariantDelivers, Invariance, PTL

\* A message that was appended is still to be consumed, answered, a dead letter
\* or in an accepted snapshot; only one appended while the neb deals with a
\* snapshot can be elsewhere.
THEOREM NoMessageLost == Spec => []NothingLost
BY InvariantDelivers, Invariance, PTL

\* The durable cursor is never more than one message behind the neb: a restart
\* delivers at most one message again that was answered.
THEOREM RedeliveryBounded == Spec => []OneRedelivery
BY InvariantDelivers, Invariance, PTL

\* The pump takes the next message only when the cursor is on disk.
THEOREM LoopTopDurable == Spec => []DurableAtLoopTop
<1>1. IInv => DurableAtLoopTop
    BY DEF IInv, CursorsOK, DurableAtLoopTop
<1>2. QED
    BY <1>1, Invariance, PTL

-----------------------------------------------------------------------------
(* The manager's use of the transport implements Rpc *)

\* The call under way, as the refinement sees it.
CallUnderWay == IF pc \in {"send", "writing", "await"} THEN request ELSE None

\* A step of Send that ends it.
LEMMA SendEnds ==
    ASSUME IInv, SendFail \/ Receive \/ ReceiveEOF \/ Timeout
    PROVE  rpc!Answer \/ rpc!Fail
<1> USE DEF IInv
<1>1. /\ CallUnderWay = request /\ request # None
      /\ CallUnderWay' = None /\ UNCHANGED crashes
    BY RequestAssumption DEF CallUnderWay, SendFail, Receive, ReceiveEOF, Timeout,
        SendReturns, TypeOK, history
<1>2. CASE SendFail \/ ReceiveEOF \/ Timeout
    BY <1>1, <1>2 DEF rpc!Fail, CallUnderWay, SendFail, ReceiveEOF, Timeout,
        SendReturns, transport, TypeOK
<1>3. CASE Receive
  <2>1. replies \in Seq(Response) /\ replies # <<>>
      BY <1>3 DEF TypeOK, Receive
  <2>2. 1 \in 1..Len(replies) /\ Head(replies) = replies[1] /\ Head(replies) \in Response
      BY <2>1
  <2>3. ~broken /\ response'.to = request /\ response' \in Response /\ UNCHANGED broken
      BY <1>3, <2>2 DEF Receive, TransportOK
  <2>4. QED
      BY <1>1, <2>3 DEF rpc!Answer, rpc!Outcome, Response, CallUnderWay
<1>4. QED
    BY <1>2, <1>3

\* A step that begins to send a request: the state machine does not refuse it.
LEMMA SendBegins ==
    ASSUME IInv, IInv', Start \/ Poll \/ Retry \/ TakeSnapshot \/ Shutdown
    PROVE  rpc!Next
<1> USE DEF IInv
<1>1. request' \in Request /\ CallUnderWay = None
    BY DEF TypeOK, CallUnderWay, Start, Poll, Retry, TakeSnapshot, Shutdown
<1>2. pc' = "send"
    BY Transitions DEF Start, Poll, Retry, TakeSnapshot, Shutdown, TransitionThen,
        ControlOK, StateFollowsPump
<1>3. UNCHANGED <<response, broken, crashes>>
    BY DEF Start, Poll, Retry, TakeSnapshot, Shutdown, transport, history
<1>4. CallUnderWay' = request'
    BY <1>2 DEF CallUnderWay
<1>5. rpc!Begin(request')
    BY <1>1, <1>3, <1>4 DEF rpc!Begin, CallUnderWay
<1>6. QED
    BY <1>1, <1>5 DEF rpc!Next

\* The other steps are not seen, except a restart.
LEMMA NotSending ==
    ASSUME IInv, [Next]_vars,
           ~(Start \/ Poll \/ Retry \/ TakeSnapshot \/ Shutdown),
           ~(SendFail \/ Receive \/ ReceiveEOF \/ Timeout),
           ~Crash
    PROVE  UNCHANGED <<CallUnderWay, response, broken, crashes>>
<1>1. CASE \/ SendWrite \/ SendBlocks \/ Stop \/ NebReads \/ NebAnswer \/ NebDies
           \/ UNCHANGED vars
    BY <1>1 DEF SendWrite, SendBlocks, Written, Stop, NebReads, NebAnswer, NebDies, vars,
        transport, history, CallUnderWay
<1>2. CASE \/ InitDone \/ InitFailed \/ MessageDone \/ MessageFailed \/ RetainDone
           \/ RetainFailed \/ ShutdownDone
    BY <1>2 DEF InitDone, InitFailed, MessageDone, MessageFailed, RetainDone,
        RetainFailed, ShutdownDone, Returned, TransitionThen, ToIdle, Exit, transport,
        history, CallUnderWay
<1>3. CASE \/ PollIdle \/ CheckRetention \/ PostProcess \/ BackoffStopped
           \/ WriteDeadLetter \/ AdvancePastDead \/ TruncateStream \/ StoreFails
    BY <1>3 DEF PollIdle, CheckRetention, PostProcess, BackoffStopped, WriteDeadLetter,
        AdvancePastDead, TruncateStream, StoreFails, TransitionThen, ToIdle, Exit,
        transport, history, CallUnderWay
<1>4. ASSUME NEW m \in Msgs, SendMessage(m)
      PROVE  UNCHANGED <<CallUnderWay, response, broken, crashes>>
    BY <1>4 DEF SendMessage, transport, CallUnderWay
<1>5. QED
    BY <1>1, <1>2, <1>3, <1>4 DEF Next, PumpStep

\* A runtime that is started again has another transport.
LEMMA CrashRenews ==
    ASSUME IInv', Crash
    PROVE  rpc!Renew
<1>1. response' \in Response
    BY DEF IInv, TypeOK
<1>2. QED
    BY <1>1 DEF rpc!Renew, rpc!Outcome, Response, Crash, StartAgain

\* Each step of the runtime is one of Rpc, or Rpc does not see it.
LEMMA RpcStep == IInv /\ IInv' /\ [Next]_vars => [rpc!Next]_(rpc!rpcVars)
<1>1. SUFFICES ASSUME IInv, IInv', [Next]_vars PROVE [rpc!Next]_(rpc!rpcVars)
    OBVIOUS
<1>2. CASE Start \/ Poll \/ Retry \/ TakeSnapshot \/ Shutdown
    BY <1>1, <1>2, SendBegins
<1>3. CASE SendFail \/ Receive \/ ReceiveEOF \/ Timeout
    BY <1>1, <1>3, SendEnds DEF rpc!Next
<1>4. CASE Crash
    BY <1>1, <1>4, CrashRenews DEF rpc!Next
<1>5. CASE ~(\/ Start \/ Poll \/ Retry \/ TakeSnapshot \/ Shutdown
             \/ SendFail \/ Receive \/ ReceiveEOF \/ Timeout \/ Crash)
    BY <1>1, <1>5, NotSending DEF rpc!rpcVars, CallUnderWay
<1>6. QED
    BY <1>2, <1>3, <1>4, <1>5

\* The manager and its transport keep the promise of the transport interface:
\* each outcome the manager acts on belongs to the request it was waiting with.
THEOREM Refinement == Spec => ImplementsRpc
<1>1. Init => rpc!Init
  <2>1. SUFFICES ASSUME Init PROVE rpc!Init
      OBVIOUS
  <2>2. response \in Response
      BY <2>1, InitInv DEF IInv, TypeOK
  <2>3. QED
      BY <2>1, <2>2 DEF Init, rpc!Init, rpc!Outcome, Response
<1>2. QED
    BY <1>1, RpcStep, Invariance, PTL DEF Spec, ImplementsRpc, rpc!Spec
==============================================================================
