---------------------------- MODULE WalStoreProofs ----------------------------
(***************************************************************************)
(* Wal implements Store, for every set of messages, every segment size and *)
(* every bound: each step of an operation on the segment files, the index  *)
(* and the cursor file is one step of the abstract store, or changes       *)
(* nothing there.                                                          *)
(*                                                                         *)
(* Most of it follows from WalProofs' invariant: the message the index     *)
(* leads to is the one at the cursor, and a message is among the dead      *)
(* letters when the cursor passes it.  A snapshot needs an invariant of    *)
(* its own, SnapshotCopied, for what the copy of the segments done so far  *)
(* holds.                                                                  *)
(***************************************************************************)
EXTENDS WalProofs

\* The segments are copied in the order of the Log, so that the temporary file
\* holds the stream up to the base of the next one, at last the whole stream.
SnapshotCopied ==
    phase = "snapshotting" =>
        /\ \A s \in pending, t \in DOMAIN log.segments : s <= t => t \in pending
        /\ pending = {} => Len(tmp) = Len(appended)
        /\ \A s \in pending : IsNext(s) => Len(tmp) = log.segments[s].base
        /\ \A i \in 1..Len(tmp) : i <= Len(appended) /\ tmp[i] = Whole(appended[i])

-----------------------------------------------------------------------------
(* The copy of the segments *)

\* The copy begins with the segment that begins the stream.
LEMMA SnapshotBeginCopied ==
    ASSUME IInv, SnapshotBegin
    PROVE  SnapshotCopied'
<1> USE DEF IInv, StructureOK
<1>1. /\ phase = "open" /\ tmp' = <<>> /\ pending' = DOMAIN log.segments
      /\ log' = log /\ appended' = appended
    BY DEF SnapshotBegin, history
<1>2. Len(<<>>) = 0
    BY EmptySeq
<1>3. SegmentsOK /\ Visited = DOMAIN stream /\ FilesTile
    BY <1>1 DEF LogOK, DiskOK, Up, Visited
<1>4. pending' = {} => Len(appended) = 0
    BY <1>1, <1>2, <1>3 DEF SegmentsOK, FilesTile
<1>5. ASSUME NEW s \in pending', IsNext(s)'
      PROVE  log.segments[s].base = 0
  <2>1. s \in DOMAIN log.segments /\ log.segments[s].base \in DOMAIN stream
      BY <1>1, <1>3, <1>5 DEF SegmentsOK
  <2>2. 0 \in DOMAIN stream /\ log.segments[s].base \in Nat
      BY <1>3, <2>1, StreamType DEF FilesTile
  <2>3. PICK t \in DOMAIN log.segments : log.segments[t].base = 0
      BY <1>3, <2>2 DEF SegmentsOK
  <2>4. s <= t
      BY <1>1, <1>5 DEF IsNext
  <2>5. s = t \/ s < t
      BY <2>1, <2>3, <2>4, LogType
  <2>6. QED
      BY <1>3, <2>1, <2>2, <2>3, <2>5 DEF SegmentsOK
<1>6. QED
    BY <1>1, <1>2, <1>4, <1>5 DEF SnapshotCopied

\* A segment is copied: the next one begins where it ends.
LEMMA SnapshotCopyCopied ==
    ASSUME IInv, SnapshotCopied, SnapshotCopy
    PROVE  SnapshotCopied'
<1> USE DEF IInv, StructureOK
<1>1. PICK s \in pending :
        /\ IsNext(s)
        /\ tmp' = tmp \o stream[log.segments[s].base]
        /\ pending' = pending \ {s}
    BY DEF SnapshotCopy
<1>2. phase = "snapshotting" /\ UNCHANGED <<phase, log, stream, appended>>
    BY DEF SnapshotCopy, disk, history
<1>3. SegmentsOK /\ Visited = DOMAIN stream /\ FilesTile /\ FilesHoldStream
    BY <1>2 DEF LogOK, DiskOK, Up, Visited
<1> DEFINE base == log.segments[s].base
<1>4. s \in DOMAIN log.segments /\ base \in DOMAIN stream
    BY <1>1, <1>2, <1>3 DEF SnapshotOK, SegmentsOK
<1>5. /\ base \in Nat /\ Len(stream[base]) \in Nat /\ Len(tmp) = base
      /\ tmp \in Seq(Record) /\ stream[base] \in Seq(Record)
    BY <1>1, <1>2, <1>4, StreamType DEF SnapshotCopied, TypeOK
<1>6. /\ Len(tmp') = End(base)
      /\ \A i \in 1..End(base) :
            tmp'[i] = IF i <= base THEN tmp[i] ELSE stream[base][i - base]
  <2> HIDE DEF base
  <2>1. tmp' = tmp \o stream[base]
      BY <1>1 DEF base
  <2>2. QED
      BY <1>5, <2>1, ConcatProperties DEF End
<1>7. End(base) \in Nat /\ End(base) <= Len(appended) /\ Len(appended) \in Nat
    BY <1>3, <1>4, FilesEndInStream DEF TypeOK
<1>8. ASSUME NEW i \in 1..Len(tmp')
      PROVE  i <= Len(appended) /\ tmp'[i] = Whole(appended[i])
  <2>1. i \in Int /\ 1 <= i /\ i <= End(base)
      BY <1>6, <1>7, <1>8
  <2>2. CASE i <= base
    <3>1. i \in 1..Len(tmp)
        BY <1>5, <2>1, <2>2
    <3>2. QED
        BY <1>2, <1>6, <1>8, <2>2, <3>1 DEF SnapshotCopied
  <2>3. CASE ~(i <= base)
    <3>1. i - base \in 1..Len(stream[base]) /\ base + (i - base) = i
        BY <1>5, <2>1, <2>3 DEF End
    <3>2. base + (i - base) <= Len(appended)
          /\ stream[base][i - base] = Whole(appended[base + (i - base)])
        BY <1>3, <1>4, <3>1 DEF FilesHoldStream
    <3>3. QED
        BY <1>6, <1>8, <2>3, <3>1, <3>2
  <2>4. QED
      BY <2>2, <2>3
<1>9. ASSUME NEW u \in DOMAIN log.segments, log.segments[u].base = End(base),
             Len(stream[base]) > 0
      PROVE  u \in pending' /\ s < u
  <2>1. base < log.segments[u].base
      BY <1>5, <1>9 DEF End
  <2>2. s < u
    <3>1. s \in Nat /\ u \in Nat /\ log.segments[u].base \in Nat
        BY <1>4, <1>9, LogType
    <3>2. ~(u < s)
        BY <1>3, <1>4, <1>5, <1>9, <2>1, <3>1 DEF SegmentsOK
    <3>3. u # s
        BY <1>5, <2>1
    <3>4. QED
        BY <3>1, <3>2, <3>3
  <2>3. QED
      BY <1>1, <1>2, <1>4, <1>9, <2>2, LogType DEF SnapshotCopied
<1>10. pending' = {} => Len(tmp') = Len(appended)
    BY <1>3, <1>4, <1>6, <1>9 DEF FilesTile, SegmentsOK
<1>11. ASSUME NEW t \in pending', IsNext(t)'
       PROVE  Len(tmp') = log.segments[t].base
  <2>1. t \in DOMAIN log.segments /\ s < t
      BY <1>1, <1>2, <1>4, <1>11, LogType DEF IsNext, SnapshotOK
  <2>2. log.segments[t].base \in DOMAIN stream /\ base < log.segments[t].base
      BY <1>3, <1>4, <2>1 DEF SegmentsOK
  <2>3. /\ End(base) <= log.segments[t].base /\ log.segments[t].base \in Nat
        /\ log.segments[t].base <= Len(appended)
      <3>1. End(base) <= log.segments[t].base
          BY <1>3, <1>4, <2>2 DEF FilesTile
      <3>2. log.segments[t].base \in Nat
          BY <2>2, StreamType
      <3>3. /\ End(log.segments[t].base) \in Nat
            /\ End(log.segments[t].base) <= Len(appended)
            /\ log.segments[t].base <= End(log.segments[t].base)
          BY <1>3, <2>2, FilesEndInStream
      <3>4. QED
          BY <1>7, <3>1, <3>2, <3>3
  <2>4. CASE End(base) = Len(appended)
      BY <1>6, <1>7, <2>3, <2>4
  <2>5. CASE Len(stream[base]) > 0 /\ End(base) \in DOMAIN stream
    <3>1. PICK u \in DOMAIN log.segments : log.segments[u].base = End(base)
        BY <1>3, <2>5 DEF SegmentsOK
    <3>2. t <= u
        BY <1>9, <1>11, <2>5, <3>1 DEF IsNext
    <3>3. t = u \/ t < u
        BY <2>1, <3>1, <3>2, LogType
    <3>4. log.segments[t].base <= End(base)
        BY <1>3, <1>7, <2>1, <2>3, <3>1, <3>3 DEF SegmentsOK
    <3>5. QED
        BY <1>6, <1>7, <2>3, <3>4
  <2>6. QED
      BY <1>3, <1>4, <2>4, <2>5 DEF FilesTile
<1>12. \A x \in pending', t \in DOMAIN log.segments : x <= t => t \in pending'
  <2>1. SUFFICES ASSUME NEW x \in pending', NEW t \in DOMAIN log.segments, x <= t
                 PROVE  t \in pending'
      OBVIOUS
  <2>2. t \in pending
      BY <1>1, <1>2, <2>1 DEF SnapshotCopied
  <2>3. x \in DOMAIN log.segments /\ s <= x /\ s # x
      BY <1>1, <1>2 DEF IsNext, SnapshotOK
  <2>4. s # t
      BY <1>4, <2>1, <2>3, LogType
  <2>5. QED
      BY <1>1, <2>2, <2>4
<1> HIDE DEF base
<1>13. QED
    BY <1>2, <1>8, <1>10, <1>11, <1>12 DEF SnapshotCopied

\* No other step copies.
LEMMA SnapshotStep == IInv /\ SnapshotCopied /\ [Next]_vars => SnapshotCopied'
<1>1. SUFFICES ASSUME IInv, SnapshotCopied, [Next]_vars PROVE SnapshotCopied'
    OBVIOUS
<1>2. CASE SnapshotBegin
    BY <1>1, <1>2, SnapshotBeginCopied
<1>3. CASE SnapshotCopy
    BY <1>1, <1>3, SnapshotCopyCopied
<1>4. CASE UNCHANGED vars
    BY <1>1, <1>4 DEF vars, SnapshotCopied, IsNext
<1>5. CASE Next /\ ~SnapshotBegin /\ ~SnapshotCopy
  <2>1. phase' # "snapshotting"
      BY <1>5 DEF Next, Crash, ProcessEnds, Open, RecoverSegment, RecoverDone, AppendBegin,
          AppendWrite, AppendReturn, NextUnprocessed, MarkProcessed, MarkPostProcessed,
          DeadLetterWrite, DeadLetterAdvance, SnapshotPublish, SnapshotFail,
          TruncateBegin, TruncateRemove, TruncateReset
  <2>2. QED
      BY <2>1 DEF SnapshotCopied
<1>6. QED
    BY <1>1, <1>2, <1>3, <1>4, <1>5

\* What was copied is a prefix of the stream, in every state of the log.
THEOREM CopyInvariance == Spec => [](IInv /\ SnapshotCopied)
<1>1. Init => IInv /\ SnapshotCopied
    BY IInvInit DEF Init, SnapshotCopied
<1>2. (IInv /\ SnapshotCopied) /\ [Next]_vars => (IInv /\ SnapshotCopied)'
    BY TypeStep, StructureStep, ContentStep, SnapshotStep DEF IInv
<1>3. QED
    BY <1>1, <1>2, PTL DEF Spec

-----------------------------------------------------------------------------
(* The refinement *)

\* The cursor as the abstract store sees it.
Cursor == IF phase = "down" THEN cursorFile ELSE log.cur

\* The messages of a copy of the whole stream are the stream's.
LEMMA CopiedMessages ==
    ASSUME NEW file \in Seq(Record), NEW seq \in Seq(Msgs), Len(file) = Len(seq),
           \A i \in 1..Len(file) : file[i] = Whole(seq[i])
    PROVE  Messages(file) = seq
<1>1. seq \in [1..Len(seq) -> Msgs]
    BY LenProperties
<1>2. \A m : Whole(m).msg = m
    BY DEF Whole
<1>3. \A i \in 1..Len(file) : file[i].msg = seq[i]
    BY <1>2
<1>4. QED
    BY <1>1, <1>3 DEF Messages

\* Steps that the abstract store does not see.
LEMMA Unseen ==
    ASSUME IInv,
           \/ Open \/ RecoverSegment \/ RecoverDone \/ (\E m \in Msgs : AppendBegin(m))
           \/ AppendReturn \/ SnapshotBegin \/ SnapshotCopy \/ SnapshotFail
           \/ TruncateBegin \/ TruncateRemove \/ UNCHANGED vars
    PROVE  UNCHANGED <<appended, Cursor, cursorFile, dead, snapshot, current>>
<1>1. CASE Open \/ RecoverDone
    BY <1>1 DEF Open, RecoverDone, EmptyLog, Cursor, disk, history
<1>2. CASE RecoverSegment
  <2>1. log'.cur = log.cur
      BY <1>2 DEF RecoverSegment, AddSegment, IInv, TypeOK, WellFormed, Log
  <2>2. QED
      BY <1>2, <2>1 DEF RecoverSegment, Cursor, disk, history
<1>3. CASE \E m \in Msgs : AppendBegin(m)
  <2>1. log'.cur = log.cur
      BY <1>3 DEF AppendBegin, RollSegment, IInv, TypeOK, WellFormed, Log
  <2>2. QED
      BY <1>3, <2>1 DEF AppendBegin, Cursor, history
<1>4. CASE AppendReturn
  <2>1. log'.cur = log.cur
      BY <1>4 DEF AppendReturn, IndexAppended, IInv, TypeOK, WellFormed, Log
  <2>2. QED
      BY <1>4, <2>1 DEF AppendReturn, Cursor, disk
<1>5. CASE \/ SnapshotBegin \/ SnapshotCopy \/ SnapshotFail \/ TruncateBegin
           \/ TruncateRemove \/ UNCHANGED vars
    BY <1>5 DEF SnapshotBegin, SnapshotCopy, SnapshotFail, TruncateBegin,
        TruncateRemove, vars, Cursor, disk, history
<1>6. QED
    BY <1>1, <1>2, <1>3, <1>4, <1>5

\* The two modules move the cursor the same way.
LEMMA SameAdvance ==
    /\ \A c, o : AdvanceConsumed(c, o) = S!AdvanceConsumed(c, o)
    /\ \A c, o : AdvancePostProcessed(c, o) = S!AdvancePostProcessed(c, o)
BY DEF AdvanceConsumed, AdvancePostProcessed, S!AdvanceConsumed, S!AdvancePostProcessed

\* The cursor moves while the process is up.
LEMMA CursorSaved ==
    ASSUME TypeOK, phase # "down", phase' # "down", NEW c, SaveCursor(c)
    PROVE  S!SaveCursor(c)
<1>1. log'.cur = c
    BY DEF SaveCursor, TypeOK, WellFormed, Log
<1>2. QED
    BY <1>1 DEF SaveCursor, S!SaveCursor

\* A message is handed out: it is the one at the cursor.
LEMMA NextSeen ==
    ASSUME IInv, NextUnprocessed
    PROVE  S!NextUnprocessed
<1> USE DEF IInv
<1>1. phase = "open" /\ phase' = "open" /\ log' = log
    BY NothingToRefresh DEF NextUnprocessed
<1>2. log.nextIdx = Len(appended) /\ log.cur.consumed \in Nat
    BY <1>1, LogType DEF StructureOK, OpenOK, Up
<1>3. log.cur.consumed < Len(appended)
    BY <1>1, <1>2 DEF NextUnprocessed
<1>4. MessageAt(log, stream, log.cur.consumed) = appended[log.cur.consumed + 1]
    BY <1>1, <1>2, <1>3, IndexedMessage
<1>5. current' = [offset |-> log.cur.consumed, msg |-> appended[log.cur.consumed + 1]]
    BY <1>1, <1>4 DEF NextUnprocessed
<1>6. UNCHANGED <<appended, cursorFile, dead, snapshot>>
    BY DEF NextUnprocessed, disk, history
<1>7. QED
    BY <1>1, <1>3, <1>5, <1>6 DEF S!NextUnprocessed

\* The copy that is published holds the whole stream.
LEMMA PublishSeen ==
    ASSUME IInv, SnapshotCopied, SnapshotPublish
    PROVE  S!Snapshot
<1>1. /\ phase = "snapshotting" /\ pending = {} /\ snapshot' = tmp /\ phase' = "open"
      /\ UNCHANGED <<log, appended, cursorFile, dead, current>>
    BY DEF SnapshotPublish, history
<1>2. /\ tmp \in Seq(Record) /\ appended \in Seq(Msgs) /\ Len(tmp) = Len(appended)
      /\ \A i \in 1..Len(tmp) : tmp[i] = Whole(appended[i])
    BY <1>1 DEF IInv, TypeOK, SnapshotCopied
<1>3. Messages(snapshot') = appended
    BY <1>1, <1>2, CopiedMessages
<1>4. QED
    BY <1>1, <1>3 DEF S!Snapshot

\* Each step of the log is one of Store, or Store does not see it.
LEMMA StoreStep ==
    IInv /\ SnapshotCopied /\ [Next]_vars => [S!StoreNext]_(S!storeVars)
<1>1. SUFFICES ASSUME IInv, SnapshotCopied, [Next]_vars
               PROVE  [S!StoreNext]_(S!storeVars)
    OBVIOUS
<1> USE DEF IInv
<1>2. CASE \/ Open \/ RecoverSegment \/ RecoverDone \/ (\E m \in Msgs : AppendBegin(m))
           \/ AppendReturn \/ SnapshotBegin \/ SnapshotCopy \/ SnapshotFail
           \/ TruncateBegin \/ TruncateRemove \/ UNCHANGED vars
    BY <1>1, <1>2, Unseen DEF S!storeVars, Cursor
<1>3. CASE Crash
  <2>1. S!Restart
      BY <1>3 DEF Crash, ProcessEnds, disk, history, S!Restart
  <2>2. QED
      BY <2>1 DEF S!StoreNext
<1>4. CASE AppendWrite
  <2>1. payload \in Msgs /\ phase # "down" /\ phase' # "down"
      BY <1>1, <1>4 DEF AppendWrite, StructureOK, OpenOK, Up
  <2>2. S!AppendMessage(payload)
      BY <1>4, <2>1 DEF AppendWrite, S!AppendMessage
  <2>3. QED
      BY <2>1, <2>2 DEF S!StoreNext
<1>5. CASE NextUnprocessed
    BY <1>1, <1>5, NextSeen DEF S!StoreNext
<1>6. CASE MarkProcessed
  <2>1. S!MarkProcessed
      BY <1>1, <1>6, SameAdvance, CursorSaved DEF MarkProcessed, S!MarkProcessed
  <2>2. QED
      BY <2>1 DEF S!StoreNext
<1>7. CASE MarkPostProcessed
  <2>1. S!MarkPostProcessed
      BY <1>1, <1>7, SameAdvance, CursorSaved DEF MarkPostProcessed, history,
          S!MarkPostProcessed
  <2>2. QED
      BY <2>1 DEF S!StoreNext
<1>8. CASE DeadLetterWrite
  <2>1. S!DeadLetterWrite
      BY <1>8 DEF DeadLetterWrite, history, S!DeadLetterWrite
  <2>2. QED
      BY <2>1 DEF S!StoreNext
<1>9. CASE DeadLetterAdvance
  <2>1. current # None /\ current.msg \in ToSet(dead)
      BY <1>1, <1>9 DEF DeadLetterAdvance, ContentOK, DeadLetterOK
  <2>2. current.msg \in S!Range(dead)
      BY <2>1 DEF ToSet, S!Range
  <2>3. S!DeadLetterAdvance
      BY <1>1, <1>9, <2>1, <2>2, SameAdvance, CursorSaved DEF DeadLetterAdvance, history,
          S!DeadLetterAdvance
  <2>4. QED
      BY <2>3 DEF S!StoreNext
<1>10. CASE SnapshotPublish
    BY <1>1, <1>10, PublishSeen DEF S!StoreNext
<1>11. CASE TruncateReset
  <2>1. S!Truncate
      BY <1>11 DEF TruncateReset, RestartHistory, EmptyLog, ZeroCursor, S!Truncate,
          S!ZeroCursor
  <2>2. QED
      BY <2>1 DEF S!StoreNext
<1>12. QED
    BY <1>1, <1>2, <1>3, <1>4, <1>5, <1>6, <1>7, <1>8, <1>9, <1>10, <1>11 DEF Next

\* The log keeps the promise of store.go: appending, consumption, dead letters,
\* snapshot, truncation and a restart, each at once although the disk changes
\* in several steps.
THEOREM Refinement == Spec => ImplementsStore
<1>1. Init => S!StoreInit
  <2>1. SUFFICES ASSUME Init PROVE S!StoreInit
      OBVIOUS
  <2>2. Messages(<<>>) = <<>>
    <3>1. <<>> \in Seq(Record) /\ <<>> \in Seq(Msgs)
        BY EmptySeq
    <3>2. \A i \in 1..Len(<<>>) : FALSE
        BY EmptySeq
    <3>3. QED
        BY <3>1, <3>2, CopiedMessages
  <2>3. QED
      BY <2>1, <2>2 DEF Init, S!StoreInit, ZeroCursor, S!ZeroCursor
<1>2. QED
    BY <1>1, StoreStep, CopyInvariance, PTL DEF Spec, ImplementsStore, S!StoreSpec
===============================================================================
