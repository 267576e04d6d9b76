--------------------------------- MODULE Wal ---------------------------------
(***************************************************************************)
(* The write-ahead log of pkg/wal used by one process that may end at any  *)
(* time (killed, crashed, or closed: all that counts is that its memory is *)
(* gone) and open the same directory again.                                *)
(*                                                                         *)
(* An operation holds the Log's mutex from its start to its return, so     *)
(* operations do not interleave; but its effects on the disk come one      *)
(* after the other, and the process may end between any two.  phase says   *)
(* which operation is under way and how far it has come.  What survives is *)
(* the page cache of a running machine: a write that returned is there     *)
(* after the process ends.  Power loss is not modelled.                    *)
(*                                                                         *)
(* Two faults have specifications of their own, at the end: a write cut    *)
(* short, and an end of the process in the middle of Truncate.             *)
(***************************************************************************)
EXTENDS WalLog

CONSTANTS
    None,         \* no message
    MaxStream,    \* bound: appends between two truncations
    MaxDead,      \* bound: dead letters
    MaxMissing    \* bound: how much a torn record lacks

VARIABLES
    \* the data directory
    stream,       \* stream/: the segment files, a function from base index
    cursorFile,   \* cursor.json
    dead,         \* dead/dead.wal
    snapshot,     \* the snapshot file published last
    \* the process
    phase,        \* the operation under way
    log,          \* the Log
    pending,      \* what the loop under way still has to visit: base indices,
                  \* or positions in log.segments when copying a snapshot
    payload,      \* the argument of the Append under way
    current,      \* the caller's message: what NextUnprocessed returned last
    tmp,          \* the temporary file of the snapshot under way
    \* history, restarted by Truncate
    appended,     \* the messages in the order in which they reached the disk
    acked,        \* the offsets Append returned, each with its message
    processed     \* the offsets the caller marked processed

disk == <<stream, cursorFile, dead, snapshot>>
history == <<appended, acked, processed>>
vars == <<stream, cursorFile, dead, snapshot, phase, log, pending, payload,
          current, tmp, appended, acked, processed>>

Phases == {"down", "recovering", "open", "writing", "syncing",
           "deadlettering", "snapshotting", "truncating"}

Init ==
    /\ stream = <<>>
    /\ cursorFile = ZeroCursor
    /\ dead = <<>>
    /\ snapshot = <<>>
    /\ phase = "down"
    /\ log = EmptyLog(ZeroCursor)
    /\ pending = {}
    /\ payload = None
    /\ current = None
    /\ tmp = <<>>
    /\ appended = <<>>
    /\ acked = {}
    /\ processed = {}

\* The element the loop under way visits next.
IsNext(x) == x \in pending /\ \A y \in pending : x <= y

-----------------------------------------------------------------------------
(* The end of the process, and Open *)

ProcessEnds ==
    /\ phase' = "down"
    /\ log' = EmptyLog(ZeroCursor)
    /\ pending' = {}
    /\ payload' = None
    /\ current' = None
    /\ tmp' = <<>>

Crash ==
    /\ phase \notin {"down", "truncating"}
    /\ ProcessEnds
    /\ UNCHANGED <<disk, history>>

Open ==
    /\ phase = "down"
    /\ phase' = "recovering"
    /\ log' = EmptyLog(cursorFile)
    /\ pending' = DOMAIN stream
    /\ UNCHANGED <<disk, payload, current, tmp, history>>

\* One round of recover's loop; the last segment becomes the active one.
RecoverSegment ==
    /\ phase = "recovering"
    /\ \E base \in pending :
        /\ IsNext(base)
        /\ ~Corrupt(stream[base])
        /\ LET grown == AddSegment(log, base, stream[base])
           IN  log' = IF pending = {base}
                      THEN [grown EXCEPT !.active = Len(grown.segments)]
                      ELSE grown
        /\ pending' = pending \ {base}
    /\ UNCHANGED <<disk, phase, payload, current, tmp, history>>

RecoverDone ==
    /\ phase = "recovering"
    /\ pending = {}
    /\ phase' = "open"
    /\ UNCHANGED <<disk, log, pending, payload, current, tmp, history>>

-----------------------------------------------------------------------------
(* Append *)

\* The log rolls if it has to: a new, empty file for the next offset.
AppendBegin(m) ==
    /\ phase = "open"
    /\ Len(appended) < MaxStream
    /\ phase' = "writing"
    /\ payload' = m
    /\ IF NeedsRoll(log)
       THEN /\ log' = RollSegment(log)
            /\ stream' = CreateFile(stream, log.nextIdx)
       ELSE UNCHANGED <<log, stream>>
    /\ UNCHANGED <<cursorFile, dead, snapshot, pending, current, tmp, history>>

WriteRecord(record) ==
    LET base == log.segments[log.active].base
    IN  stream' = [stream EXCEPT ![base] = Append(@, record)]

\* Header and payload go out in one write to a file opened with O_APPEND.
AppendWrite ==
    /\ phase = "writing"
    /\ phase' = "syncing"
    /\ WriteRecord(Whole(payload))
    /\ appended' = Append(appended, payload)
    /\ UNCHANGED <<cursorFile, dead, snapshot, log, pending, payload, current,
                   tmp, acked, processed>>

\* fdatasync succeeds, Append indexes the record and returns its offset.
AppendReturn ==
    /\ phase = "syncing"
    /\ phase' = "open"
    /\ log' = IndexAppended(log)
    /\ acked' = acked \cup {[offset |-> log.nextIdx, msg |-> payload]}
    /\ payload' = None
    /\ UNCHANGED <<disk, pending, current, tmp, appended, processed>>

-----------------------------------------------------------------------------
(* Consumption *)

\* Caught up, the directory is scanned again first.
NextUnprocessed ==
    /\ phase = "open"
    /\ log' = IF log.cur.consumed >= log.nextIdx THEN Refresh(log, stream) ELSE log
    /\ log.cur.consumed < log'.nextIdx
    /\ Readable(log', stream, log.cur.consumed)
    /\ current' = [offset |-> log.cur.consumed,
                   msg |-> MessageAt(log', stream, log.cur.consumed)]
    /\ UNCHANGED <<disk, phase, pending, payload, tmp, history>>

\* The cursor moves in memory; its file is replaced by a rename, or the save
\* fails and leaves the old one.
SaveCursor(c) ==
    /\ log' = [log EXCEPT !.cur = c]
    /\ cursorFile' \in {cursorFile, c}

\* The caller marks the message it holds, which is the one at the cursor.
MarkProcessed ==
    /\ phase = "open"
    /\ current # None
    /\ current.offset = log.cur.consumed
    /\ SaveCursor(AdvanceConsumed(log.cur, current.offset))
    /\ processed' = processed \cup {current.offset}
    /\ UNCHANGED <<stream, dead, snapshot, phase, pending, payload, current,
                   tmp, appended, acked>>

\* Post-processing follows the processing of the same message.
MarkPostProcessed ==
    /\ phase = "open"
    /\ current # None
    /\ current.offset \in processed
    /\ current.offset < log.cur.consumed
    /\ SaveCursor(AdvancePostProcessed(log.cur, current.offset))
    /\ UNCHANGED <<stream, dead, snapshot, phase, pending, payload, current,
                   tmp, history>>

\* DeadLetter writes the message to the dead letter file ...
DeadLetterWrite ==
    /\ phase = "open"
    /\ current # None
    /\ current.offset = log.cur.consumed
    /\ Len(dead) < MaxDead
    /\ phase' = "deadlettering"
    /\ dead' = Append(dead, current.msg)
    /\ UNCHANGED <<stream, cursorFile, snapshot, log, pending, payload,
                   current, tmp, history>>

\* ... and then moves the cursor past it.
DeadLetterAdvance ==
    /\ phase = "deadlettering"
    /\ phase' = "open"
    /\ SaveCursor(AdvanceConsumed(log.cur, current.offset))
    /\ UNCHANGED <<stream, dead, snapshot, pending, payload, current, tmp,
                   history>>

-----------------------------------------------------------------------------
(* Snapshot: the segments copied one by one to a temporary file, which is  *)
(* then renamed                                                            *)

SnapshotBegin ==
    /\ phase = "open"
    /\ phase' = "snapshotting"
    /\ tmp' = <<>>
    /\ pending' = DOMAIN log.segments
    /\ UNCHANGED <<disk, log, payload, current, history>>

SnapshotCopy ==
    /\ phase = "snapshotting"
    /\ \E s \in pending :
        /\ IsNext(s)
        /\ tmp' = tmp \o stream[log.segments[s].base]
        /\ pending' = pending \ {s}
    /\ UNCHANGED <<disk, phase, log, payload, current, history>>

\* Mutant: the temporary file is renamed before the last segment is copied.
SnapshotPublishEarly ==
    /\ phase = "snapshotting"
    /\ pending \subseteq {Len(log.segments)}
    /\ phase' = "open"
    /\ snapshot' = tmp
    /\ tmp' = <<>>
    /\ pending' = {}
    /\ UNCHANGED <<stream, cursorFile, dead, log, payload, current, history>>

SnapshotPublish ==
    /\ phase = "snapshotting"
    /\ pending = {}
    /\ phase' = "open"
    /\ snapshot' = tmp
    /\ tmp' = <<>>
    /\ UNCHANGED <<stream, cursorFile, dead, log, pending, payload, current,
                   history>>

\* A copy, the sync or the rename fails: the temporary file is removed.
SnapshotFail ==
    /\ phase = "snapshotting"
    /\ phase' = "open"
    /\ tmp' = <<>>
    /\ pending' = {}
    /\ UNCHANGED <<disk, log, payload, current, history>>

-----------------------------------------------------------------------------
(* Truncate: the segment files removed one by one, then the cursor reset   *)

TruncateBegin ==
    /\ phase = "open"
    /\ phase' = "truncating"
    /\ pending' = DOMAIN stream
    /\ UNCHANGED <<disk, log, payload, current, tmp, history>>

TruncateRemove ==
    /\ phase = "truncating"
    /\ \E base \in pending :
        /\ IsNext(base)
        /\ stream' = [b \in DOMAIN stream \ {base} |-> stream[b]]
        /\ pending' = pending \ {base}
    /\ UNCHANGED <<cursorFile, dead, snapshot, phase, log, payload, current,
                   tmp, history>>

RestartHistory ==
    /\ appended' = <<>>
    /\ acked' = {}
    /\ processed' = {}

\* Mutant: the cursor is reset in memory and not saved.
TruncateResetUnsaved ==
    /\ phase = "truncating"
    /\ pending = {}
    /\ phase' = "open"
    /\ log' = EmptyLog(ZeroCursor)
    /\ current' = None
    /\ RestartHistory
    /\ UNCHANGED <<disk, pending, payload, tmp>>

\* Mutant: only the consumed count is reset.
TruncateResetConsumed ==
    /\ phase = "truncating"
    /\ pending = {}
    /\ phase' = "open"
    /\ log' = EmptyLog([log.cur EXCEPT !.consumed = 0])
    /\ cursorFile' = log'.cur
    /\ current' = None
    /\ RestartHistory
    /\ UNCHANGED <<stream, dead, snapshot, pending, payload, tmp>>

TruncateReset ==
    /\ phase = "truncating"
    /\ pending = {}
    /\ phase' = "open"
    /\ log' = EmptyLog(ZeroCursor)
    /\ cursorFile' = ZeroCursor
    /\ current' = None
    /\ RestartHistory
    /\ UNCHANGED <<stream, dead, snapshot, pending, payload, tmp>>

-----------------------------------------------------------------------------
Next ==
    \/ Crash
    \/ Open
    \/ RecoverSegment
    \/ RecoverDone
    \/ \E m \in Msgs : AppendBegin(m)
    \/ AppendWrite
    \/ AppendReturn
    \/ NextUnprocessed
    \/ MarkProcessed
    \/ MarkPostProcessed
    \/ DeadLetterWrite
    \/ DeadLetterAdvance
    \/ SnapshotBegin
    \/ SnapshotCopy
    \/ SnapshotPublish
    \/ SnapshotFail
    \/ TruncateBegin
    \/ TruncateRemove
    \/ TruncateReset

Spec == Init /\ [][Next]_vars

-----------------------------------------------------------------------------
(* Faults *)

\* The write of a record is cut short: the process ends in the middle of it, or
\* the disk is full and nile send ends on the error of Append.  Bound: one torn
\* record in the stream at a time.
TornWrite ==
    /\ phase = "writing"
    /\ \A base \in DOMAIN stream : Torn(stream[base]) = {}
    /\ \E missing \in 1..MaxMissing :
        WriteRecord([msg |-> payload, missing |-> missing])
    /\ ProcessEnds
    /\ UNCHANGED <<cursorFile, dead, snapshot, history>>

\* A segment with a wrong checksum: Open returns the error.
RecoverFail ==
    /\ phase = "recovering"
    /\ \E base \in pending : IsNext(base) /\ Corrupt(stream[base])
    /\ ProcessEnds
    /\ UNCHANGED <<disk, history>>

TornSpec == Init /\ [][Next \/ TornWrite \/ RecoverFail]_vars

\* The process ends in the middle of Truncate, or a removal or the save fails
\* and the caller gives up.  A stream without files restarts from nothing.
CrashInTruncate ==
    /\ phase = "truncating"
    /\ ProcessEnds
    /\ IF stream = <<>> THEN RestartHistory ELSE UNCHANGED history
    /\ UNCHANGED disk

TruncateCrashSpec == Init /\ [][Next \/ CrashInTruncate]_vars

-----------------------------------------------------------------------------
(* Properties *)

\* Every variable has its type, and the Log's positions are in its lists.
TypeOK ==
    /\ DOMAIN stream \subseteq Nat
    /\ stream \in [DOMAIN stream -> Seq(Record)]
    /\ cursorFile \in CursorState
    /\ dead \in Seq(Msgs)
    /\ snapshot \in Seq(Record)
    /\ phase \in Phases
    /\ WellFormed(log)
    /\ pending \subseteq Nat
    /\ payload \in Msgs \cup {None}
    /\ current \in {None} \cup [offset : Nat, msg : Msgs]
    /\ tmp \in Seq(Record)
    /\ appended \in Seq(Msgs)
    /\ acked \subseteq [offset : Nat, msg : Msgs]
    /\ processed \subseteq Nat

\* pkg/store promises strict append order without gaps: the message handed
\* out for an offset is the one that reached the disk in that place, through
\* rolls, recoveries and truncations.
StrictAppendOrder ==
    current # None =>
        /\ current.offset < Len(appended)
        /\ current.msg = appended[current.offset + 1]

\* While a message is unconsumed, NextUnprocessed can deliver it: there is an
\* index entry (the code would panic without one), the segment it names can
\* be read, and the record it names is in it.
NextIsReadable ==
    (phase = "open" /\ log.cur.consumed < Len(appended)) =>
        /\ log.cur.consumed < log.nextIdx
        /\ Readable(log, stream, log.cur.consumed)

\* A message whose offset Append has returned is found at that offset for as
\* long as the stream lives, also by a process that recovered the log.
AckedStays ==
    phase = "open" =>
        \A a \in acked :
            /\ Readable(log, stream, a.offset)
            /\ MessageAt(log, stream, a.offset) = a.msg

\* No message is skipped: everything before the durable cursor was marked
\* processed or is among the dead letters.
NothingSkipped ==
    phase # "truncating" =>
        \A o \in 0..cursorFile.consumed - 1 :
            o < Len(appended) =>
                o \in processed \/ appended[o + 1] \in ToSet(dead)

\* A message counts as post-processed only when it also counts as consumed:
\* the two halves of the durable cursor never tear.
PostBehindConsumed ==
    cursorFile.postProcessed > 0 => cursorFile.postProcessed < cursorFile.consumed

\* The log implements the abstract store, crashes and multi-step operations
\* included.  A process that is down has the cursor it will load.
S == INSTANCE Store WITH
        stream <- appended,
        cur <- IF phase = "down" THEN cursorFile ELSE log.cur,
        saved <- cursorFile,
        snapshot <- Messages(snapshot),
        MaxMessages <- 0,
        MaxBytes <- 0

ImplementsStore == S!StoreSpec
=============================================================================
