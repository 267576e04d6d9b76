------------------------------ MODULE Lifecycle ------------------------------
(***************************************************************************)
(* The runtime of one copt: the lifecycle manager of pkg/lifecycle with    *)
(* its pump goroutine, the store it consumes from (module Store), the      *)
(* stdio transport of pkg/transport and the neb behind it.  Processes      *)
(* outside send messages and stop the manager; the runtime may be killed   *)
(* at any time and started again.                                          *)
(*                                                                         *)
(* Every message is a different element of Msgs.  A request stands for its *)
(* JSON-RPC line, the attempt number for its ID: each attempt has an ID of *)
(* its own.  A response says in "to" which request it answers.             *)
(***************************************************************************)
EXTENDS Store

CONSTANTS
    MaxRetries,   \* attempts after the first one
    MaxCrashes    \* bound: how often the runtime is started again

ASSUME LifecycleAssumption == /\ MaxRetries \in Nat \ {0}
                              /\ MaxCrashes \in Nat
                              /\ None \notin Msgs

VARIABLES
    known,        \* how many messages the runtime's Log has indexed
    pc,           \* where the goroutine that called Start is
    state,        \* Manager.state
    request,      \* the request being sent, sent last
    response,     \* the outcome of the Send that returned last
    stopped,      \* stopCh is closed
    broken,       \* Stdio.broken
    nebUp,        \* the neb process is alive
    requests,     \* the lines in the neb's stdin
    replies,      \* the lines in the neb's stdout
    \* history
    sent,         \* the messages ever appended
    handled,      \* the messages the neb answered with success
    reached,      \* the messages of which a request reached the neb
    retained,     \* the messages of snapshots the neb has accepted
    late,         \* the messages appended between a snapshot and its truncation
    crashes

transport == <<broken, requests, replies, nebUp>>
history == <<sent, handled, reached, retained, late, crashes>>
vars == <<storeVars, known, pc, state, request, response, stopped, transport,
          history>>

States == {"created", "starting", "idle", "processing", "post_processing",
           "draining", "retaining", "stopping", "stopped", "failed"}
Methods == {"init", "message", "retain", "shutdown"}
Statuses == {"ok", "post", "error"}
Request == [method : Methods, msg : Msgs \cup {None}, attempt : 0..MaxRetries]
Response == [to : Request, status : Statuses]

ASSUME RequestAssumption == None \notin Request

NewRequest(method, msg) == [method |-> method, msg |-> msg, attempt |-> 0]

Init ==
    /\ StoreInit
    /\ known = 0
    /\ pc = "created"
    /\ state = "created"
    /\ request = NewRequest("init", None)
    /\ response = [to |-> request, status |-> "error"]
    /\ stopped = FALSE
    /\ broken = FALSE
    /\ nebUp = TRUE
    /\ requests = <<>>
    /\ replies = <<>>
    /\ sent = {}
    /\ handled = {}
    /\ reached = {}
    /\ retained = {}
    /\ late = {}
    /\ crashes = 0

-----------------------------------------------------------------------------
(* The state machine of states.go *)

\* Mutant: post-processing does not lead back to idle.
ValidTransitionsNoReturn ==
    {<<"created", "starting">>, <<"starting", "idle">>, <<"starting", "failed">>,
     <<"idle", "processing">>, <<"idle", "draining">>, <<"idle", "stopping">>,
     <<"processing", "post_processing">>, <<"processing", "idle">>,
     <<"draining", "retaining">>, <<"retaining", "idle">>,
     <<"retaining", "failed">>, <<"stopping", "stopped">>,
     <<"failed", "starting">>}

ValidTransitions ==
    {<<"created", "starting">>,
     <<"starting", "idle">>, <<"starting", "failed">>,
     <<"idle", "processing">>, <<"idle", "draining">>, <<"idle", "stopping">>,
     <<"processing", "post_processing">>, <<"processing", "idle">>,
     <<"post_processing", "idle">>,
     <<"draining", "retaining">>,
     <<"retaining", "idle">>, <<"retaining", "failed">>,
     <<"stopping", "stopped">>,
     <<"failed", "starting">>}

CanTransition(from, to) == <<from, to>> \in ValidTransitions

\* A call of transition whose error is ignored: a refused one changes nothing.
Transition(to) == state' = IF CanTransition(state, to) THEN to ELSE state

\* A call of transition whose error ends the goroutine.
TransitionThen(to, next) ==
    /\ Transition(to)
    /\ pc' = IF CanTransition(state, to) THEN next ELSE "exited"

Exit == pc' = "exited"

-----------------------------------------------------------------------------
(* Stdio.Send: the pump is its only caller *)

Call(method, msg) == request' = NewRequest(method, msg)

SendReturns(status) ==
    /\ pc' = "returned"
    /\ response' = [to |-> request, status |-> status]

\* The whole line is in the neb's stdin, and Send waits for the response.
Written ==
    /\ nebUp
    /\ pc' = "await"
    /\ requests' = Append(requests, request)
    /\ reached' = IF request.method = "message" THEN reached \cup {request.msg}
                  ELSE reached
    /\ UNCHANGED <<storeVars, known, state, request, response, stopped, broken,
                   replies, nebUp, sent, handled, retained, late, crashes>>

\* The line fits the pipe, or the neb reads while it is written.
SendWrite ==
    /\ pc = "send"
    /\ ~broken
    /\ Written

\* A line longer than the pipe has room for: the write waits for the neb to read,
\* and no timer runs.  Only a message makes a line of any length.
SendBlocks ==
    /\ pc = "send"
    /\ ~broken
    /\ nebUp
    /\ request.method = "message"
    /\ pc' = "writing"
    /\ UNCHANGED <<storeVars, known, state, request, response, stopped, transport,
                   history>>

\* A broken transport refuses at once, the pipe of a dead neb at the write, also
\* one that has been waiting.
SendFail ==
    /\ \/ pc = "send" /\ (broken \/ ~nebUp)
       \/ pc = "writing" /\ ~nebUp
    /\ SendReturns("error")
    /\ UNCHANGED <<storeVars, known, state, request, stopped, transport, history>>

\* The next line of the neb's stdout is the response, whatever its ID is.
Receive ==
    /\ pc = "await"
    /\ replies # <<>>
    /\ pc' = "returned"
    /\ response' = Head(replies)
    /\ replies' = Tail(replies)
    /\ UNCHANGED <<storeVars, known, state, request, stopped, broken, requests,
                   nebUp, history>>

\* The neb has closed its stdout.
ReceiveEOF ==
    /\ pc = "await"
    /\ replies = <<>>
    /\ ~nebUp
    /\ SendReturns("error")
    /\ UNCHANGED <<storeVars, known, state, request, stopped, transport, history>>

\* Mutant: a timeout leaves the transport in use.
TimeoutNotBroken ==
    /\ pc = "await"
    /\ SendReturns("error")
    /\ UNCHANGED <<storeVars, known, state, request, stopped, transport, history>>

\* The timer fires, which may happen although a response is there.
Timeout ==
    /\ pc = "await"
    /\ SendReturns("error")
    /\ broken' = TRUE
    /\ UNCHANGED <<storeVars, known, state, request, stopped, requests, replies,
                   nebUp, history>>

Returned(method, statuses) ==
    /\ pc = "returned"
    /\ request.method = method
    /\ response.status \in statuses

-----------------------------------------------------------------------------
(* Start *)

Start ==
    /\ pc = "created"
    /\ TransitionThen("starting", "send")
    /\ Call("init", None)
    /\ UNCHANGED <<storeVars, known, response, stopped, transport, history>>

InitDone ==
    /\ Returned("init", {"ok", "post"})
    /\ TransitionThen("idle", "top")
    /\ UNCHANGED <<storeVars, known, request, response, stopped, transport, history>>

InitFailed ==
    /\ Returned("init", {"error"})
    /\ Transition("failed")
    /\ Exit
    /\ UNCHANGED <<storeVars, known, request, response, stopped, transport, history>>

-----------------------------------------------------------------------------
(* The pump's loop: stop, read, retention.  Waiting for the ticker ends at *)
(* the top of the loop again and has no step of its own.                   *)

\* NextUnprocessed scans the directory only when the Log is caught up.
Refreshed == IF cur.consumed >= known THEN Len(stream) ELSE known

Poll ==
    /\ pc = "top"
    /\ ~stopped
    /\ state = "idle"
    /\ NextUnprocessed
    /\ known' = Refreshed
    /\ TransitionThen("processing", "send")
    /\ Call("message", current'.msg)
    /\ UNCHANGED <<response, stopped, transport, history>>

\* Caught up, the pump looks at the retention limits.
PollIdle ==
    /\ pc = "top"
    /\ ~stopped
    /\ state = "idle"
    /\ cur.consumed >= Len(stream)
    /\ RetentionExceeded(Refreshed)
    /\ known' = Refreshed
    /\ TransitionThen("draining", "snapshot")
    /\ UNCHANGED <<storeVars, request, response, stopped, transport, history>>

\* After a message it looks at them too.
CheckRetention ==
    /\ pc = "check"
    /\ IF RetentionExceeded(known) THEN TransitionThen("draining", "snapshot")
       ELSE pc' = "top" /\ UNCHANGED state
    /\ UNCHANGED <<storeVars, known, request, response, stopped, transport, history>>

-----------------------------------------------------------------------------
(* processMessage *)

\* The save of the cursor that a store action makes succeeds or fails.
SaveOutcome(ok) == saved' = IF ok THEN cur' ELSE saved

ToIdle ==
    /\ Transition("idle")
    /\ pc' = "check"

\* Mutant: the pump goes on although the cursor was not saved.
MessageDoneUnsaved ==
    /\ Returned("message", {"ok", "post"})
    /\ MarkProcessed
    /\ IF response.status = "post"
       THEN Transition("post_processing") /\ pc' = "post"
       ELSE ToIdle
    /\ UNCHANGED <<known, request, response, stopped, transport, history>>

MessageDone ==
    /\ Returned("message", {"ok", "post"})
    /\ MarkProcessed
    /\ \E ok \in BOOLEAN :
        /\ SaveOutcome(ok)
        /\ IF ~ok THEN Exit /\ UNCHANGED state
           ELSE IF response.status = "post"
           THEN Transition("post_processing") /\ pc' = "post"
           ELSE ToIdle
    /\ UNCHANGED <<known, request, response, stopped, transport, history>>

PostProcess ==
    /\ pc = "post"
    /\ MarkPostProcessed
    /\ \E ok \in BOOLEAN :
        /\ SaveOutcome(ok)
        /\ IF ok THEN ToIdle ELSE Exit /\ UNCHANGED state
    /\ UNCHANGED <<known, request, response, stopped, transport, history>>

\* Mutant: one attempt too many.
CanRetryOnceMore == request.attempt <= MaxRetries

CanRetry == request.attempt < MaxRetries

MessageFailed ==
    /\ Returned("message", {"error"})
    /\ pc' = IF CanRetry THEN "backoff" ELSE "dead"
    /\ UNCHANGED <<storeVars, known, state, request, response, stopped,
                   transport, history>>

Retry ==
    /\ pc = "backoff"
    /\ pc' = "send"
    /\ request' = [request EXCEPT !.attempt = @ + 1]
    /\ UNCHANGED <<storeVars, known, state, response, stopped, transport, history>>

\* Stopped while it backs off, the pump leaves the message to the next run.
BackoffStopped ==
    /\ pc = "backoff"
    /\ stopped
    /\ ToIdle
    /\ UNCHANGED <<storeVars, known, request, response, stopped, transport, history>>

\* DeadLetter, written and then passed by the cursor.  The sync may fail after
\* the record is in the file.
WriteDeadLetter ==
    /\ pc = "dead"
    /\ DeadLetterWrite
    /\ pc' \in {"bury", "exited"}
    /\ UNCHANGED <<known, state, request, response, stopped, transport, history>>

AdvancePastDead ==
    /\ pc = "bury"
    /\ DeadLetterAdvance
    /\ \E ok \in BOOLEAN :
        /\ SaveOutcome(ok)
        /\ IF ok THEN ToIdle ELSE Exit /\ UNCHANGED state
    /\ UNCHANGED <<known, request, response, stopped, transport, history>>

-----------------------------------------------------------------------------
(* doRetention *)

TakeSnapshot ==
    /\ pc = "snapshot"
    /\ Snapshot
    /\ TransitionThen("retaining", "send")
    /\ Call("retain", None)
    /\ UNCHANGED <<known, response, stopped, transport, history>>

RetainDone ==
    /\ Returned("retain", {"ok", "post"})
    /\ pc' = "truncate"
    /\ UNCHANGED <<storeVars, known, state, request, response, stopped,
                   transport, history>>

\* Mutant: a refused snapshot is no reason not to truncate.
RetainFailedTruncates ==
    /\ Returned("retain", {"error"})
    /\ pc' = "truncate"
    /\ UNCHANGED <<storeVars, known, state, request, response, stopped,
                   transport, history>>

RetainFailed ==
    /\ Returned("retain", {"error"})
    /\ Transition("failed")
    /\ Exit
    /\ UNCHANGED <<storeVars, known, request, response, stopped, transport, history>>

TruncateStream ==
    /\ pc = "truncate"
    /\ Truncate
    /\ known' = 0
    /\ Transition("idle")
    /\ pc' = "top"
    /\ UNCHANGED <<request, response, stopped, transport, history>>

\* A call of the store fails before it has changed anything, and the pump
\* returns the error: NextUnprocessed, DeadLetter, Snapshot, or Truncate at its
\* first file (Wal's CrashInTruncate covers the others), which sets Failed.
StoreFails ==
    /\ \/ pc = "top" /\ ~stopped /\ state = "idle" /\ cur.consumed < Len(stream)
       \/ pc \in {"dead", "snapshot", "truncate"}
    /\ IF pc = "truncate" THEN Transition("failed") ELSE UNCHANGED state
    /\ Exit
    /\ UNCHANGED <<storeVars, known, request, response, stopped, transport, history>>

-----------------------------------------------------------------------------
(* shutdown: it sets the state whatever the transition table says *)

Shutdown ==
    /\ pc = "top"
    /\ stopped
    /\ state' = "stopping"
    /\ pc' = "send"
    /\ Call("shutdown", None)
    /\ UNCHANGED <<storeVars, known, response, stopped, transport, history>>

\* Mutant: the request is repeated until the neb confirms it.
ShutdownDoneConfirmed ==
    /\ Returned("shutdown", Statuses)
    /\ IF response.status = "error" THEN pc' = "send" /\ UNCHANGED state
       ELSE pc' = "exited" /\ state' = "stopped"
    /\ UNCHANGED <<storeVars, known, request, response, stopped, transport, history>>

ShutdownDone ==
    /\ Returned("shutdown", Statuses)
    /\ state' = "stopped"
    /\ Exit
    /\ UNCHANGED <<storeVars, known, request, response, stopped, transport, history>>

-----------------------------------------------------------------------------
(* The environment *)

\* A snapshot is taken and the stream not truncated yet.
BetweenSnapshotAndTruncate ==
    \/ pc = "truncate"
    \/ pc \in {"send", "await", "returned"} /\ request.method = "retain"

\* Another process appends a message.
SendMessage(m) ==
    /\ m \notin sent
    /\ AppendMessage(m)
    /\ sent' = sent \cup {m}
    /\ late' = IF BetweenSnapshotAndTruncate THEN late \cup {m} ELSE late
    /\ UNCHANGED <<known, pc, state, request, response, stopped, transport,
                   handled, reached, retained, crashes>>

\* A signal: the handler calls Stop.
Stop ==
    /\ pc # "exited"
    /\ ~stopped
    /\ stopped' = TRUE
    /\ UNCHANGED <<storeVars, known, pc, state, request, response, transport, history>>

\* The neb reads the line that is being written, if it reads on at all.
NebReads ==
    /\ pc = "writing"
    /\ Written

\* The neb answers the line it has read, in its own time.  An answer that is no
\* JSON or has no result fails like an error response does.
NebAnswer ==
    /\ nebUp
    /\ requests # <<>>
    /\ \E status \in Statuses :
        LET r == Head(requests)
        IN  /\ status = "post" => r.method = "message"
            /\ replies' = Append(replies, [to |-> r, status |-> status])
            /\ handled' = IF r.method = "message" /\ status # "error"
                          THEN handled \cup {r.msg} ELSE handled
            /\ retained' = IF r.method = "retain" /\ status # "error"
                           THEN retained \cup Range(snapshot) ELSE retained
    /\ requests' = Tail(requests)
    /\ UNCHANGED <<storeVars, known, pc, state, request, response, stopped,
                   broken, nebUp, sent, reached, late, crashes>>

\* The neb ends; what it has written can still be read.
NebDies ==
    /\ nebUp
    /\ nebUp' = FALSE
    /\ requests' = <<>>
    /\ UNCHANGED <<storeVars, known, pc, state, request, response, stopped,
                   broken, replies, history>>

\* The runtime is started again with a new neb on the same directory.
StartAgain ==
    /\ crashes < MaxCrashes
    /\ crashes' = crashes + 1
    /\ Restart
    /\ known' = Len(stream)
    /\ pc' = "created"
    /\ state' = "created"
    /\ request' = NewRequest("init", None)
    /\ response' = [to |-> request', status |-> "error"]
    /\ stopped' = FALSE
    /\ broken' = FALSE
    /\ nebUp' = TRUE
    /\ requests' = <<>>
    /\ replies' = <<>>
    /\ UNCHANGED <<sent, handled, reached, retained, late>>

\* It had been killed, at any point, or had exited.
Crash == pc # "created" /\ StartAgain

-----------------------------------------------------------------------------
PumpStep ==
    \/ SendWrite
    \/ SendBlocks
    \/ SendFail
    \/ Receive
    \/ ReceiveEOF
    \/ Timeout
    \/ Start
    \/ InitDone
    \/ InitFailed
    \/ Poll
    \/ PollIdle
    \/ CheckRetention
    \/ MessageDone
    \/ PostProcess
    \/ MessageFailed
    \/ Retry
    \/ BackoffStopped
    \/ WriteDeadLetter
    \/ AdvancePastDead
    \/ TakeSnapshot
    \/ RetainDone
    \/ RetainFailed
    \/ TruncateStream
    \/ StoreFails
    \/ Shutdown
    \/ ShutdownDone

Next ==
    \/ PumpStep
    \/ \E m \in Msgs : SendMessage(m)
    \/ Stop
    \/ NebReads
    \/ NebAnswer
    \/ NebDies
    \/ Crash

Spec == Init /\ [][Next]_vars

\* The neb may fail, be late or stay silent, but its process lives.
NebStaysUpSpec == Init /\ [][Next /\ nebUp']_vars

-----------------------------------------------------------------------------
(* Properties *)

Pcs == {"created", "send", "writing", "await", "returned", "top", "check", "post",
        "backoff", "dead", "bury", "snapshot", "truncate", "exited"}

\* Every variable has its type; no request counts more than MaxRetries
\* attempts after the first.
TypeOK ==
    /\ StoreTypeOK
    /\ known \in Nat
    /\ pc \in Pcs
    /\ state \in States
    /\ request \in Request
    /\ response \in Response
    /\ stopped \in BOOLEAN
    /\ broken \in BOOLEAN
    /\ nebUp \in BOOLEAN
    /\ requests \in Seq(Request)
    /\ replies \in Seq(Response)
    /\ sent \subseteq Msgs
    /\ handled \subseteq Msgs
    /\ reached \subseteq Msgs
    /\ retained \subseteq Msgs
    /\ late \subseteq Msgs
    /\ crashes \in Nat

\* No call of transition is refused on the pump's way, also where its error is
\* ignored: at the top of the loop the state is idle again, else the pump
\* would spin there until it is stopped.
StateFollowsPump ==
    /\ pc \in {"top", "check"} => state = "idle"
    /\ pc \in {"backoff", "dead", "bury"} => state = "processing"
    /\ pc = "post" => state = "post_processing"
    /\ pc = "snapshot" => state = "draining"
    /\ pc = "truncate" => state = "retaining"

\* Responses are not matched to requests by their ID; even so a response that
\* Send returns answers the request it was called with, because a transport
\* that gave up on an answer is never used again.
ReplyAnswersRequest == pc = "returned" => response.to = request

\* The core invariant of pkg/store: the neb never sees concurrent messages.
\* No line reaches it before the response to the last one has been read, also
\* when that response is late.  (The lines here fit the scanner; one that does not
\* is the subject of OneUnanswered in module Transport.)
OneAtATime == Len(requests) + Len(replies) <= 1

\* ... and never observes out-of-order delivery: when a message is before the
\* neb, each one in front of it was answered or is among the dead letters,
\* whatever failed, and across restarts.
InOrderDelivery ==
    \A r \in Range(requests) :
        r.method = "message" =>
            \E o \in DOMAIN stream :
                /\ stream[o] = r.msg
                /\ \A p \in 1..o - 1 : stream[p] \in handled \cup Range(dead)

\* The messages the cursor has not passed.
Unconsumed == {stream[o] : o \in {p \in DOMAIN stream : p > cur.consumed}}

\* A message that was appended is not lost: it is still to be consumed, the
\* neb has answered it, it is a dead letter or it went into a snapshot the
\* neb accepted.  The exception is the code's: a message appended while the
\* neb deals with a snapshot is truncated with the others.
NothingLost ==
    sent \subseteq Unconsumed \cup handled \cup Range(dead) \cup retained \cup late

\* A restart delivers at most one message again that the neb has answered: the
\* durable cursor is never more than one message behind the neb.
OneRedelivery ==
    \A o \in DOMAIN stream : stream[o] \in handled => o <= saved.consumed + 1

\* The pump takes the next message only when the cursor is durable: a save
\* that failed ends it.
DurableAtLoopTop == pc \in {"top", "check"} => saved = cur

\* The manager and its transport keep the promise of the transport interface,
\* across retries, a timeout, a dead neb and restarts: the refinement ties each
\* outcome the manager acts on to the request it was waiting with.
rpc == INSTANCE Rpc WITH
    Requests <- Request, Idle <- None,
    call <- IF pc \in {"send", "writing", "await"} THEN request ELSE None,
    outcome <- response, dead <- broken, renewals <- crashes
ImplementsRpc == rpc!Spec

\* Send waits for a neb that lives on and reads no more.
Blocked == pc = "writing" /\ nebUp

\* Every message is settled in the end, or the pump has ended, although the neb may
\* fail, or read and never answer.  The exception is the code's: a neb that lives
\* and stops reading blocks the write of a long line for good.
EverySettled ==
    \A m \in Msgs :
        m \in sent ~> \/ m \in handled \cup Range(dead) \cup retained \cup late
                      \/ pc = "exited"
                      \/ []Blocked

-----------------------------------------------------------------------------
(* What the documentation says and the code does not do *)

\* "Nile provides at-least-once delivery": a message is delivered, or it is
\* among the dead letters, or the neb has got it in a snapshot at least.
DeliveredOrRetained ==
    sent \subseteq Unconsumed \cup handled \cup Range(dead) \cup retained

\* "If the neb returns an error or the transport fails, the runtime retries":
\* a message becomes a dead letter after requests that reached the neb.
DeadLettersWereTried == Range(dead) \subseteq reached
==============================================================================
