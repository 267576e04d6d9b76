------------------------------ MODULE SharedWal ------------------------------
(***************************************************************************)
(* One data directory used by several processes, as it is in service: the  *)
(* runtime consumes the stream, and every nile send is a process that      *)
(* opens the log, appends its messages and ends; nile watch and nile       *)
(* status open it and append none.  Nothing locks the directory; the       *)
(* processes meet only in the files.                                       *)
(*                                                                         *)
(* An element of Senders is a place for one such process after the other,  *)
(* so that their number is how many run at the same time.  A process opens *)
(* the log segment by segment, while others append.  The runtime's calls   *)
(* are atomic here: what can happen inside them is the subject of Wal.     *)
(* Writes and syncs succeed.                                               *)
(***************************************************************************)
EXTENDS WalLog

CONSTANTS
    Senders,      \* the processes beside the runtime
    None,         \* no message, or no file
    MaxMessages,  \* retention: the limit on the consumed count, 0 for none
    MaxCrashes    \* bound: how often the runtime is started again

ASSUME SharedWalAssumption == /\ MaxMessages \in Nat
                              /\ MaxCrashes \in Nat
                              /\ None \notin Nat
                              /\ None \notin [offset : Nat, msg : Msgs]

VARIABLES
    \* the data directory
    stream,       \* stream/: the segment files, a function from base index
    cursorFile,   \* cursor.json
    \* the runtime
    exit,         \* "none" while the process is there, else how it ended
    log,          \* its Log
    current,      \* the message the pump is handling, or None
    due,          \* the pump has found the retention limit exceeded
    \* the senders
    phase,
    logs,         \* their Logs
    pending,      \* the listed segments that recover still has to read
    fd,           \* the active segment's file: its base, or None once unlinked
    payload,      \* the message in Append, or None
    \* history
    appended,     \* the messages in the order in which they reached the stream
    unlinked,     \* the messages that were written to a removed file
    acked,        \* the offsets Append returned, each with its message
    delivered,    \* the messages the neb has answered
    dead,         \* the messages the pump has dead-lettered
    retained,     \* the messages that were in the stream when it was truncated
    rolled,       \* a sender went on from a full segment since the last truncation
    crashes

disk == <<stream, cursorFile>>
runtime == <<exit, log, current, due>>
senders == <<phase, logs, pending, fd, payload>>
history == <<appended, unlinked, acked, delivered, dead, retained, rolled, crashes>>
vars == <<disk, runtime, senders, history>>

Phases == {"out", "recovering", "opening", "ready", "writing", "returning"}

Init ==
    /\ stream = <<>>
    /\ cursorFile = ZeroCursor
    /\ exit = "none"
    /\ log = EmptyLog(ZeroCursor)
    /\ current = None
    /\ due = FALSE
    /\ phase = [s \in Senders |-> "out"]
    /\ logs = [s \in Senders |-> EmptyLog(ZeroCursor)]
    /\ pending = [s \in Senders |-> {}]
    /\ fd = [s \in Senders |-> None]
    /\ payload = [s \in Senders |-> None]
    /\ appended = <<>>
    /\ unlinked = {}
    /\ acked = {}
    /\ delivered = {}
    /\ dead = {}
    /\ retained = {}
    /\ rolled = FALSE
    /\ crashes = 0

Goto(s, p) == phase' = [phase EXCEPT ![s] = p]

\* The process ends: its Log and its file are gone.
Leave(s) ==
    /\ Goto(s, "out")
    /\ logs' = [logs EXCEPT ![s] = EmptyLog(ZeroCursor)]
    /\ pending' = [pending EXCEPT ![s] = {}]
    /\ fd' = [fd EXCEPT ![s] = None]

-----------------------------------------------------------------------------
(* nile send *)

\* Open lists the directory ...
SenderList(s) ==
    /\ phase[s] = "out"
    /\ Goto(s, IF DOMAIN stream = {} THEN "ready" ELSE "recovering")
    /\ pending' = [pending EXCEPT ![s] = DOMAIN stream]
    /\ UNCHANGED <<disk, runtime, logs, fd, payload, history>>

\* ... and reads the segments in turn.
SenderRecover(s) ==
    /\ phase[s] = "recovering"
    /\ \E base \in pending[s] \cap DOMAIN stream :
        /\ \A other \in pending[s] : base <= other
        /\ pending' = [pending EXCEPT ![s] = @ \ {base}]
        /\ logs' = [logs EXCEPT ![s] = AddSegment(@, base, stream[base])]
    /\ IF pending'[s] = {} THEN Goto(s, "opening") ELSE UNCHANGED phase
    /\ UNCHANGED <<disk, runtime, fd, payload, history>>

\* The last segment becomes active: its file is opened for appending, and may
\* have grown since it was read.
SenderOpen(s) ==
    /\ phase[s] = "opening"
    /\ Last(logs[s].segments).base \in DOMAIN stream
    /\ Goto(s, "ready")
    /\ logs' = [logs EXCEPT ![s].active = Len(logs[s].segments)]
    /\ fd' = [fd EXCEPT ![s] = Last(logs[s].segments).base]
    /\ UNCHANGED <<disk, runtime, pending, payload, history>>

\* A listed segment has been removed meanwhile: Open fails.
SenderFails(s) ==
    /\ \/ /\ phase[s] = "recovering"
          /\ Min(pending[s]) \notin DOMAIN stream
       \/ /\ phase[s] = "opening"
          /\ Last(logs[s].segments).base \notin DOMAIN stream
    /\ Leave(s)
    /\ UNCHANGED <<disk, runtime, payload, history>>

\* Messages no process has sent yet.
Unsent == Msgs \ (ToSet(appended) \cup unlinked \cup retained
                  \cup {payload[s] : s \in Senders})

\* Append of the next message rolls if it has to.
SenderAppend(s) ==
    /\ phase[s] = "ready"
    /\ \E m \in Unsent : payload' = [payload EXCEPT ![s] = m]
    /\ Goto(s, "writing")
    /\ IF NeedsRoll(logs[s])
       THEN /\ stream' = CreateFile(stream, logs[s].nextIdx)
            /\ logs' = [logs EXCEPT ![s] = RollSegment(@)]
            /\ fd' = [fd EXCEPT ![s] = logs[s].nextIdx]
            /\ rolled' = (rolled \/ logs[s].active # 0)
       ELSE UNCHANGED <<stream, logs, fd, rolled>>
    /\ UNCHANGED <<cursorFile, runtime, pending, appended, unlinked, acked,
                   delivered, dead, retained, crashes>>

\* The record goes to the end of the open file, wherever that is by now; a
\* file that has been removed takes it too.
SenderWrite(s) ==
    /\ phase[s] = "writing"
    /\ Goto(s, "returning")
    /\ IF fd[s] = None
       THEN unlinked' = unlinked \cup {payload[s]} /\ UNCHANGED <<stream, appended>>
       ELSE /\ stream' = [stream EXCEPT ![fd[s]] = Append(@, Whole(payload[s]))]
            /\ appended' = Append(appended, payload[s])
            /\ UNCHANGED unlinked
    /\ UNCHANGED <<cursorFile, runtime, logs, pending, fd, payload, acked,
                   delivered, dead, retained, rolled, crashes>>

Returns(s, offset) ==
    /\ phase[s] = "returning"
    /\ Goto(s, "ready")
    /\ acked' = acked \cup {[offset |-> offset, msg |-> payload[s]]}
    /\ logs' = [logs EXCEPT ![s] = IndexAppended(@)]
    /\ payload' = [payload EXCEPT ![s] = None]
    /\ UNCHANGED <<disk, runtime, pending, fd, appended, unlinked, delivered,
                   dead, retained, rolled, crashes>>

\* Mutant: the offset is taken after the counter has moved on.
SenderReturnNext(s) == Returns(s, logs[s].nextIdx + 1)

\* Append returns the offset its own Log has arrived at.
SenderReturn(s) == Returns(s, logs[s].nextIdx)

\* The command has no more messages to send.
SenderEnds(s) ==
    /\ phase[s] = "ready"
    /\ Leave(s)
    /\ UNCHANGED <<disk, runtime, payload, history>>

SenderStep(s) ==
    \/ SenderList(s)
    \/ SenderRecover(s)
    \/ SenderOpen(s)
    \/ SenderFails(s)
    \/ SenderAppend(s)
    \/ SenderWrite(s)
    \/ SenderReturn(s)
    \/ SenderEnds(s)

-----------------------------------------------------------------------------
(* The runtime *)

up == exit = "none"

CaughtUp == log.cur.consumed >= log.nextIdx

RetentionExceeded(l) == MaxMessages > 0 /\ l.cur.consumed > MaxMessages

\* NextUnprocessed.  Without a message the pump looks at the retention limit.
\* What cannot be read ends the process: an index that is too short panics, any
\* other error is the pump's and leads to a clean exit.
Poll ==
    /\ up
    /\ current = None
    /\ ~due
    /\ log' = IF CaughtUp THEN Refresh(log, stream) ELSE log
    /\ LET offset == log.cur.consumed
       IN  \/ /\ offset >= log'.nextIdx
              /\ due' = RetentionExceeded(log')
              /\ UNCHANGED <<exit, current>>
           \/ /\ offset < log'.nextIdx
              /\ Readable(log', stream, offset)
              /\ current' = [offset |-> offset, msg |-> MessageAt(log', stream, offset)]
              /\ UNCHANGED <<exit, due>>
           \/ /\ offset < log'.nextIdx
              /\ ~Readable(log', stream, offset)
              /\ exit' = IF offset < Len(log'.index) THEN "clean" ELSE "failure"
              /\ UNCHANGED <<current, due>>
    /\ UNCHANGED <<disk, senders, history>>

\* The message in hand is done with: the cursor passes it and is saved, and the
\* pump looks at the retention limit, whether messages wait or not.
Finish ==
    /\ up
    /\ current # None
    /\ log' = [log EXCEPT !.cur = AdvanceConsumed(@, current.offset)]
    /\ cursorFile' = log'.cur
    /\ current' = None
    /\ due' = RetentionExceeded(log')
    /\ UNCHANGED <<stream, exit, senders, appended, unlinked, acked, retained,
                   rolled, crashes>>

\* The neb has answered ...
Process ==
    /\ Finish
    /\ delivered' = delivered \cup {current.msg}
    /\ UNCHANGED dead

\* ... or the pump has given the message up.
DeadLetter ==
    /\ Finish
    /\ dead' = dead \cup {current.msg}
    /\ UNCHANGED delivered

\* Mutant: the cursor is reset in memory and not saved.
TruncateUnsaved ==
    /\ up
    /\ due
    /\ stream' = <<>>
    /\ fd' = [s \in Senders |-> None]
    /\ log' = EmptyLog(ZeroCursor)
    /\ due' = FALSE
    /\ appended' = <<>>
    /\ rolled' = FALSE
    /\ UNCHANGED <<cursorFile, exit, current, phase, logs, pending, payload,
                   unlinked, acked, delivered, dead, retained, crashes>>

\* Retention: the neb has taken the snapshot, and the files are removed, read by
\* the runtime or not, also under the senders that have them open.
Truncate ==
    /\ up
    /\ due
    /\ retained' = retained \cup {m \in Msgs : \E base \in DOMAIN stream :
                                    m \in ToSet(Messages(stream[base]))}
    /\ stream' = <<>>
    /\ fd' = [s \in Senders |-> None]
    /\ log' = EmptyLog(ZeroCursor)
    /\ cursorFile' = ZeroCursor
    /\ due' = FALSE
    /\ appended' = <<>>
    /\ rolled' = FALSE
    /\ UNCHANGED <<exit, current, phase, logs, pending, payload, unlinked, acked,
                   delivered, dead, crashes>>

\* The runtime ends at any point: killed, which is a failure for its unit, or
\* by a signal or an error of the pump, which is not.
RuntimeEnds ==
    /\ up
    /\ crashes < MaxCrashes
    /\ crashes' = crashes + 1
    /\ exit' \in {"clean", "failure"}
    /\ current' = None
    /\ due' = FALSE
    /\ UNCHANGED <<disk, log, senders, appended, unlinked, acked, delivered, dead,
                   retained, rolled>>

\* The runtime is started again, by its unit or the operator: Open recovers the
\* whole directory.
RuntimeOpens ==
    /\ ~up
    /\ exit' = "none"
    /\ log' = AddSegments(EmptyLog(cursorFile), stream, DOMAIN stream)
    /\ UNCHANGED <<disk, current, due, senders, history>>

\* Restart=on-failure.
Restart == exit = "failure" /\ RuntimeOpens

RuntimeStep ==
    \/ Poll
    \/ Process
    \/ DeadLetter
    \/ Truncate

Next ==
    \/ \E s \in Senders : SenderStep(s)
    \/ RuntimeStep
    \/ RuntimeOpens
    \/ RuntimeEnds

Spec == Init /\ [][Next]_vars

\* The pump polls on, and the unit starts again what has failed.
FairSpec == Spec /\ WF_vars(RuntimeStep) /\ WF_vars(Restart)

-----------------------------------------------------------------------------
(* Properties *)

\* Every variable has its type.
TypeOK ==
    /\ DOMAIN stream \subseteq Nat
    /\ stream \in [DOMAIN stream -> Seq(Record)]
    /\ cursorFile \in CursorState
    /\ exit \in {"none", "clean", "failure"}
    /\ WellFormed(log)
    /\ current \in {None} \cup [offset : Nat, msg : Msgs]
    /\ due \in BOOLEAN
    /\ phase \in [Senders -> Phases]
    /\ \A s \in Senders : WellFormed(logs[s]) /\ pending[s] \subseteq Nat
    /\ fd \in [Senders -> Nat \cup {None}]
    /\ payload \in [Senders -> Msgs \cup {None}]
    /\ appended \in Seq(Msgs)
    /\ unlinked \subseteq Msgs
    /\ acked \subseteq [offset : Nat, msg : Msgs]
    /\ delivered \subseteq Msgs
    /\ dead \subseteq Msgs
    /\ retained \subseteq Msgs
    /\ rolled \in BOOLEAN
    /\ crashes \in 0..MaxCrashes

\* However the senders interleave, the message the runtime takes for an offset
\* is the one that reached the stream in that place.
StrictAppendOrder ==
    current # None =>
        /\ current.offset < Len(appended)
        /\ current.msg = appended[current.offset + 1]

\* The store "never skips messages": everything before the durable cursor was
\* handled.
NothingSkipped ==
    \A o \in 1..cursorFile.consumed :
        o <= Len(appended) => appended[o] \in delivered \cup dead

\* Every message whose Append has returned is delivered or dead-lettered in the
\* end, although the runtime learns of it only by looking at the files, and
\* although it may be killed.  The exceptions are the code's: the message was in
\* the stream when the runtime truncated it, its sender had the file open that
\* was removed then, or the runtime has ended in the way no unit restarts.
\* (The senders come to an end of their messages, and no set here shrinks.)
EveryDelivered ==
    \/ <>[](exit = "clean")
    \/ <>[]({a.msg : a \in acked} \subseteq delivered \cup dead \cup retained \cup unlinked)

\* The offset a sender is told is never beyond its message: whoever reads on
\* from there comes to it, however many others append at the same time.  (Until
\* the first truncation, which counts from 0 again.)
AckedAtOrAfter ==
    retained = {} => \A a \in acked : \E o \in DOMAIN appended :
                        appended[o] = a.msg /\ a.offset < o
=============================================================================
