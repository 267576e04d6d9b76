------------------------------ MODULE WalProofs ------------------------------
(***************************************************************************)
(* Proofs about Wal, for every set of messages, every segment size and     *)
(* every bound.                                                            *)
(*                                                                         *)
(* The properties are not inductive: why the index leads to the right      *)
(* record depends on how the segment files tile the stream.  The inductive *)
(* invariant IInv says so: on disk the files cover the offsets from 0 on   *)
(* without gap or overlap, recovery has indexed a prefix of them, and an   *)
(* open Log knows all of them, the active one last.                        *)
(***************************************************************************)
EXTENDS Wal, WalLogProofs

\* The offset that follows the last record of a segment file.
End(base) == base + Len(stream[base])

\* The process is up and its directory complete.
Up == phase \notin {"down", "truncating"}

\* The segment files the Log has read.
Visited == IF phase = "recovering" THEN DOMAIN stream \ pending ELSE DOMAIN stream

\* The files hold what was appended, each from its base index on.
FilesHoldStream ==
    \A base \in DOMAIN stream : \A r \in 1..Len(stream[base]) :
        base + r <= Len(appended) /\ stream[base][r] = Whole(appended[base + r])

\* The files tile the stream: one starts where the other ends.
FilesTile ==
    /\ \A base \in DOMAIN stream :
        \/ End(base) = Len(appended)
        \/ Len(stream[base]) > 0 /\ End(base) \in DOMAIN stream
    /\ \A b, c \in DOMAIN stream : b < c => End(b) <= c
    /\ DOMAIN stream = {} => appended = <<>>
    /\ DOMAIN stream # {} => 0 \in DOMAIN stream

DiskOK == phase # "truncating" => FilesHoldStream /\ FilesTile

\* The Log's segments are the visited files, in ascending order.
SegmentsOK ==
    /\ \A s \in DOMAIN log.segments : log.segments[s].base \in Visited
    /\ \A base \in Visited :
        \E s \in DOMAIN log.segments : log.segments[s].base = base
    /\ \A s, t \in DOMAIN log.segments :
        s < t => log.segments[s].base < log.segments[t].base

\* A segment's size is its file's, but for the record being appended.
SizesOK ==
    \A s \in DOMAIN log.segments :
        Len(stream[log.segments[s].base]) =
            log.segments[s].size
              + (IF phase = "syncing" /\ s = log.active THEN 1 ELSE 0)

\* An entry of the index leads to the record of its offset.
IndexOK ==
    /\ Len(log.index) = log.nextIdx
    /\ \A o \in DOMAIN log.index :
        LET base == log.segments[log.index[o].seg].base
        IN  /\ base + log.index[o].rec + 1 = o
            /\ log.index[o].rec < Len(stream[base])

LogOK == Up => SegmentsOK /\ SizesOK /\ IndexOK

\* recover has read a prefix of the files.
RecoverOK ==
    phase = "recovering" =>
        /\ pending \subseteq DOMAIN stream
        /\ \A v \in DOMAIN stream \ pending, p \in pending : v < p
        /\ pending # {} => IsNext(log.nextIdx)
        /\ pending = {} => /\ log.nextIdx = Len(appended)
                           /\ log.active = Len(log.segments)

\* An open Log is at the end of the stream.
OpenOK ==
    (Up /\ phase # "recovering") =>
        /\ log.active = Len(log.segments)
        /\ Len(appended) = log.nextIdx + (IF phase = "syncing" THEN 1 ELSE 0)
        /\ phase \in {"writing", "syncing"} => log.active # 0 /\ payload \in Msgs
        /\ phase = "syncing" => payload = appended[Len(appended)]

TruncateOK == phase = "truncating" => pending = DOMAIN stream

Handled(o) == o \in processed \/ appended[o + 1] \in ToSet(dead)

\* The two cursors stay within the stream, and all before them is handled.
CursorOK ==
    /\ phase # "truncating" =>
        /\ cursorFile.consumed <= Len(appended)
        /\ \A o \in 0..cursorFile.consumed - 1 : Handled(o)
    /\ Up =>
        /\ log.cur.consumed <= Len(appended)
        /\ \A o \in 0..log.cur.consumed - 1 : Handled(o)
        /\ log.cur.postProcessed > 0 => log.cur.postProcessed < log.cur.consumed

SnapshotOK == phase = "snapshotting" => pending \subseteq DOMAIN log.segments

DeadLetterOK ==
    phase = "deadlettering" =>
        /\ current # None
        /\ current.offset = log.cur.consumed
        /\ current.msg \in ToSet(dead)

AckedOK ==
    \A a \in acked : a.offset < Len(appended) /\ a.msg = appended[a.offset + 1]

\* Where the files and the Log agree.
StructureOK ==
    DiskOK /\ LogOK /\ RecoverOK /\ OpenOK /\ SnapshotOK /\ TruncateOK

\* What the cursors and the offsets handed out say about the stream.
ContentOK ==
    CursorOK /\ PostBehindConsumed /\ DeadLetterOK /\ AckedOK /\ StrictAppendOrder

\* The inductive invariant.
IInv == TypeOK /\ StructureOK /\ ContentOK

-----------------------------------------------------------------------------
(* What the type invariant and the files' agreement say *)

\* The parts of the type invariant the other proofs use.
LEMMA StreamType ==
    ASSUME TypeOK, NEW base \in DOMAIN stream
    PROVE  /\ base \in Nat
           /\ stream[base] \in Seq(Record)
           /\ Len(stream[base]) \in Nat
           /\ DOMAIN stream[base] = 1..Len(stream[base])
<1>1. stream[base] \in Seq(Record) /\ base \in Nat
  BY DEF TypeOK
<1> QED BY <1>1, LenProperties

\* The same for the Log of the process, whatever it is doing.
LEMMA LogType ==
    ASSUME TypeOK
    PROVE  /\ WellFormed(log)
           /\ log.segments \in Seq(Segment)
           /\ log.active \in Nat /\ log.nextIdx \in Nat
           /\ log.active <= Len(log.segments)
           /\ log.index \in Seq(IndexEntry)
           /\ log.cur \in CursorState
           /\ log.cur.consumed \in Nat /\ log.cur.postProcessed \in Nat
           /\ Len(log.segments) \in Nat /\ DOMAIN log.segments = 1..Len(log.segments)
           /\ Len(log.index) \in Nat /\ DOMAIN log.index = 1..Len(log.index)
           /\ \A s \in DOMAIN log.segments :
                log.segments[s].base \in Nat /\ log.segments[s].size \in Nat
           /\ \A o \in DOMAIN log.index :
                /\ log.index[o].seg \in DOMAIN log.segments
                /\ log.index[o].seg \in Nat /\ log.index[o].rec \in Nat
BY LogFields DEF TypeOK

\* The files of a complete directory are read whole.
LEMMA FilesReadWhole ==
    ASSUME TypeOK, FilesHoldStream, NEW base \in DOMAIN stream
    PROVE  ReadAll(stream[base]) = stream[base] /\ ~Corrupt(stream[base])
<1>1. ASSUME NEW r \in DOMAIN stream[base]
      PROVE  stream[base][r].missing = 0
  <2>1. r \in 1..Len(stream[base])
    BY StreamType
  <2>2. stream[base][r] = Whole(appended[base + r])
    BY <2>1 DEF FilesHoldStream
  <2> QED BY <2>2 DEF Whole
<1> QED
  BY <1>1, ReadWholeFile

\* No file reaches beyond the stream.
LEMMA FilesEndInStream ==
    ASSUME TypeOK, FilesHoldStream, FilesTile, NEW base \in DOMAIN stream
    PROVE  End(base) \in Nat /\ End(base) <= Len(appended) /\ base <= End(base)
<1>1. Len(appended) \in Nat
  BY DEF TypeOK
<1>2. CASE Len(stream[base]) = 0
  BY <1>1, <1>2, StreamType DEF FilesTile, End
<1>3. CASE Len(stream[base]) # 0
  <2>1. Len(stream[base]) \in 1..Len(stream[base])
    BY <1>3, StreamType
  <2> QED BY <1>1, <2>1, StreamType DEF FilesHoldStream, End
<1> QED BY <1>2, <1>3

\* In a Log that is open, refresh finds nothing: all segments are known and
\* the last one holds no record that is not indexed.
LEMMA NothingToRefresh ==
    ASSUME TypeOK, StructureOK, phase = "open"
    PROVE  Refresh(log, stream) = log
<1>1. UnknownSegments(log, stream) = {}
  BY DEF UnknownSegments, StructureOK, LogOK, SegmentsOK, Up, Visited
<1>2. CASE log.segments = <<>>
  BY <1>1, <1>2 DEF Refresh
<1>3. CASE log.segments # <<>>
  <2> DEFINE last == Len(log.segments)
             base == log.segments[last].base
  <2>1. last \in DOMAIN log.segments /\ base \in DOMAIN stream /\ base \in Nat
    <3>1. last \in DOMAIN log.segments
      BY <1>3, LogType, EmptySeq
    <3>2. base \in DOMAIN stream
      BY <3>1 DEF StructureOK, LogOK, SegmentsOK, Up, Visited
    <3> QED BY <3>1, <3>2, StreamType
  <2>2. base + Len(stream[base]) <= Len(appended) /\ Len(stream[base]) \in Nat
    BY <2>1, FilesEndInStream, StreamType DEF StructureOK, DiskOK, End
  <2>3. log.nextIdx = Len(appended)
    BY LogType DEF StructureOK, OpenOK, Up, TypeOK
  <2>4. ReadAll(stream[base]) = stream[base]
    BY <2>1, FilesReadWhole DEF StructureOK, DiskOK
  <2>5. Reread(log, stream[base]) = log
    BY <2>1, <2>2, <2>3, <2>4, LogType DEF Reread
  <2> QED BY <1>1, <1>3, <2>5 DEF Refresh, Last
<1> QED BY <1>2, <1>3
-----------------------------------------------------------------------------
(* What the invariant says of an open Log *)

\* While Append is under way, the active segment is the last file and ends
\* where the next offset goes.
LEMMA ActiveSegment ==
    ASSUME TypeOK, StructureOK, Up, phase # "recovering", log.active # 0
    PROVE  LET base == log.segments[log.active].base
           IN  /\ base \in DOMAIN stream
               /\ \A b \in DOMAIN stream : b <= base
               /\ End(base) = Len(appended)
               /\ phase = "syncing" => base < Len(appended)
               /\ base <= log.nextIdx
<1> DEFINE base == log.segments[log.active].base
<1>1. log.active \in DOMAIN log.segments /\ log.active = Len(log.segments)
  BY LogType DEF StructureOK, OpenOK
<1>2. base \in DOMAIN stream /\ base \in Nat
  BY <1>1, StreamType DEF StructureOK, LogOK, SegmentsOK, Visited
<1>3. ASSUME NEW b \in DOMAIN stream
      PROVE  b <= base
  <2>1. PICK s \in DOMAIN log.segments : log.segments[s].base = b
    BY DEF StructureOK, LogOK, SegmentsOK, Visited
  <2>2. CASE s = log.active
    BY <1>2, <2>1, <2>2
  <2>3. CASE s < log.active
    BY <1>1, <1>2, <2>1, <2>3, StreamType DEF StructureOK, LogOK, SegmentsOK
  <2> QED BY <1>1, <2>2, <2>3, LogType
<1>4. End(base) = Len(appended)
  <2>1. ~(Len(stream[base]) > 0 /\ End(base) \in DOMAIN stream)
    BY <1>2, <1>3, StreamType DEF End
  <2> QED BY <1>2, <2>1 DEF StructureOK, DiskOK, FilesTile, Up
<1>5. /\ Len(stream[base]) = log.segments[log.active].size
                                + (IF phase = "syncing" THEN 1 ELSE 0)
      /\ log.segments[log.active].size \in Nat
  BY <1>1, LogType DEF StructureOK, LogOK, SizesOK
<1>6. Len(appended) = log.nextIdx + (IF phase = "syncing" THEN 1 ELSE 0)
  BY DEF StructureOK, OpenOK
<1>7. (phase = "syncing" => base < Len(appended)) /\ base <= log.nextIdx
  <2>1. log.nextIdx \in Nat
    BY LogType
  <2>2. base + Len(stream[base]) = Len(appended)
    BY <1>4 DEF End
  <2> HIDE DEF base
  <2> QED BY <1>2, <1>5, <1>6, <2>1, <2>2
<1> QED BY <1>2, <1>3, <1>4, <1>7

\* An open Log finds every message of the stream at its offset.
LEMMA IndexedMessage ==
    ASSUME TypeOK, StructureOK, phase = "open", NEW o \in Nat, o < Len(appended)
    PROVE  Readable(log, stream, o) /\ MessageAt(log, stream, o) = appended[o + 1]
<1> DEFINE entry == log.index[o + 1]
           base == log.segments[entry.seg].base
<1>1. log.nextIdx = Len(appended) /\ Len(log.index) = log.nextIdx
  BY LogType DEF StructureOK, OpenOK, LogOK, IndexOK, Up
<1>2. o + 1 \in DOMAIN log.index /\ o < Len(log.index)
  BY <1>1, LogType
<1>3. entry.seg \in DOMAIN log.segments /\ entry.rec \in Nat
  BY <1>2, LogType
<1>4. base \in DOMAIN stream
  BY <1>3 DEF StructureOK, LogOK, SegmentsOK, Up, Visited
<1>5. base + entry.rec + 1 = o + 1 /\ entry.rec < Len(stream[base])
  BY <1>2 DEF StructureOK, LogOK, IndexOK, Up
<1>6. ReadAll(stream[base]) = stream[base] /\ ~Corrupt(stream[base])
  BY <1>4, FilesReadWhole DEF StructureOK, DiskOK
<1>7. stream[base][entry.rec + 1] = Whole(appended[o + 1])
  <2>1. base \in Nat /\ Len(stream[base]) \in Nat
    BY <1>4, StreamType
  <2> HIDE DEF entry, base
  <2>2. entry.rec + 1 \in 1..Len(stream[base]) /\ base + (entry.rec + 1) = o + 1
    BY <1>3, <1>5, <2>1
  <2>3. FilesHoldStream
    BY DEF StructureOK, DiskOK
  <2> QED BY <1>4, <2>2, <2>3 DEF FilesHoldStream
<1>8. Readable(log, stream, o)
  <2>1. Readable(log, stream, o) <=>
          (o < Len(log.index) /\ ~Corrupt(stream[base])
             /\ entry.rec < Len(ReadAll(stream[base])))
    BY DEF Readable
  <2> HIDE DEF entry, base
  <2> QED BY <1>2, <1>5, <1>6, <2>1
<1>9. MessageAt(log, stream, o) = appended[o + 1]
  <2>1. MessageAt(log, stream, o) = ReadAll(stream[base])[entry.rec + 1].msg
    BY DEF MessageAt
  <2>2. Whole(appended[o + 1]).msg = appended[o + 1]
    BY DEF Whole
  <2> HIDE DEF entry, base
  <2> QED BY <1>6, <1>7, <2>1, <2>2
<1> QED BY <1>8, <1>9

-----------------------------------------------------------------------------
(* The type invariant *)

\* No step of the log takes a variable out of its type.
LEMMA TypeStep ==
    ASSUME IInv, [Next]_vars
    PROVE  TypeOK'
<1> USE DEF IInv
<1>1. CASE Crash
  <2>1. WellFormed(EmptyLog(ZeroCursor))
    BY EmptyLogWellFormed DEF CursorState, ZeroCursor
  <2> QED BY <1>1, <2>1, EmptySeq DEF Crash, ProcessEnds, TypeOK, Phases, disk, history
<1>2. CASE Open
  <2>1. WellFormed(EmptyLog(cursorFile))
    BY EmptyLogWellFormed DEF TypeOK
  <2> QED BY <1>2, <2>1 DEF Open, TypeOK, Phases, disk, history
<1>3. CASE RecoverSegment
  <2>1. PICK base \in pending :
          /\ log' = LET grown == AddSegment(log, base, stream[base])
                    IN  IF pending = {base}
                        THEN [grown EXCEPT !.active = Len(grown.segments)] ELSE grown
          /\ pending' = pending \ {base}
    BY <1>3 DEF RecoverSegment
  <2>2. base \in DOMAIN stream /\ FilesHoldStream
    BY <1>3, <2>1 DEF RecoverSegment, StructureOK, RecoverOK, DiskOK
  <2>3. WellFormed(AddSegment(log, base, stream[base]))
    BY <2>2, LogType, StreamType, FilesReadWhole, AddSegmentWellFormed
  <2>4. WellFormed(log')
    BY <2>1, <2>3, SetActiveWellFormed
  <2> QED BY <1>3, <2>1, <2>4 DEF RecoverSegment, TypeOK, disk, history
<1>4. CASE RecoverDone
  BY <1>4 DEF RecoverDone, TypeOK, Phases, disk, history
<1>5. ASSUME NEW m \in Msgs, AppendBegin(m)
      PROVE  TypeOK'
  <2>1. WellFormed(log')
    BY <1>5, LogType, RollSegmentWellFormed DEF AppendBegin
  <2>2. DOMAIN stream' \subseteq Nat /\ stream' \in [DOMAIN stream' -> Seq(Record)]
    <3>1. CASE stream' = stream
      BY <3>1 DEF TypeOK
    <3>2. CASE stream' = CreateFile(stream, log.nextIdx)
      BY <3>2, StreamType, LogType, EmptySeq DEF CreateFile
    <3> QED BY <1>5, <3>1, <3>2 DEF AppendBegin
  <2> QED BY <1>5, <2>1, <2>2 DEF AppendBegin, TypeOK, Phases, history
<1>6. CASE AppendWrite
  <2>1. payload \in Msgs
    BY <1>6 DEF AppendWrite, StructureOK, OpenOK, Up
  <2>2. DOMAIN stream' = DOMAIN stream /\ stream' \in [DOMAIN stream' -> Seq(Record)]
    <3>1. Whole(payload) \in Record
      BY <2>1 DEF Whole, Record
    <3> DEFINE base == log.segments[log.active].base
    <3>2. stream' = [stream EXCEPT ![base] = Append(stream[base], Whole(payload))]
      BY <1>6 DEF AppendWrite, WriteRecord
    <3>3. base \in DOMAIN stream => Append(stream[base], Whole(payload)) \in Seq(Record)
      BY <3>1, StreamType, AppendProperties
    <3> HIDE DEF base
    <3> QED BY <3>2, <3>3 DEF TypeOK
  <2>3. appended' \in Seq(Msgs)
    BY <1>6, <2>1, AppendProperties DEF AppendWrite, TypeOK
  <2> QED BY <1>6, <2>2, <2>3 DEF AppendWrite, TypeOK, Phases
<1>7. CASE AppendReturn
  <2>1. log.active # 0 /\ payload \in Msgs
    BY <1>7 DEF AppendReturn, StructureOK, OpenOK, Up
  <2>2. log.segments[log.active].base <= log.nextIdx
    BY <1>7, <2>1, ActiveSegment DEF AppendReturn, Up
  <2>3. WellFormed(log')
    BY <1>7, <2>1, <2>2, LogType, IndexAppendedWellFormed DEF AppendReturn
  <2>4. acked' \subseteq [offset : Nat, msg : Msgs]
    BY <1>7, <2>1, LogType DEF AppendReturn, TypeOK
  <2> QED BY <1>7, <2>3, <2>4 DEF AppendReturn, TypeOK, Phases, disk
<1>8. CASE NextUnprocessed
  <2>1. log' = log
    BY <1>8, NothingToRefresh DEF NextUnprocessed
  <2>2. log.cur.consumed < Len(appended) /\ log.cur.consumed \in Nat
    BY <1>8, <2>1, LogType DEF NextUnprocessed, StructureOK, OpenOK, Up, TypeOK
  <2>3. current' = [offset |-> log.cur.consumed, msg |-> appended[log.cur.consumed + 1]]
    BY <1>8, <2>1, <2>2, IndexedMessage DEF NextUnprocessed
  <2>4. current' \in [offset : Nat, msg : Msgs]
    BY <2>2, <2>3, ElementOfSeq DEF TypeOK
  <2> QED BY <1>8, <2>1, <2>4 DEF NextUnprocessed, TypeOK, disk, history
<1>9. CASE MarkProcessed
  <2>1. current.offset \in Nat
    BY <1>9 DEF MarkProcessed, TypeOK
  <2>2. AdvanceConsumed(log.cur, current.offset) \in CursorState
    BY <2>1, LogType, AdvanceConsumedType
  <2>3. WellFormed(log') /\ cursorFile' \in CursorState
    BY <1>9, <2>2, LogType, SetCursorWellFormed DEF MarkProcessed, SaveCursor, TypeOK
  <2> QED BY <1>9, <2>1, <2>3 DEF MarkProcessed, TypeOK
<1>10. CASE MarkPostProcessed
  <2>1. current.offset \in Nat
    BY <1>10 DEF MarkPostProcessed, TypeOK
  <2>2. AdvancePostProcessed(log.cur, current.offset) \in CursorState
    BY <2>1, LogType, AdvancePostProcessedType
  <2>3. WellFormed(log') /\ cursorFile' \in CursorState
    BY <1>10, <2>2, LogType, SetCursorWellFormed DEF MarkPostProcessed, SaveCursor, TypeOK
  <2> QED BY <1>10, <2>3 DEF MarkPostProcessed, TypeOK, history
<1>11. CASE DeadLetterWrite
  <2>1. current.msg \in Msgs
    BY <1>11 DEF DeadLetterWrite, TypeOK
  <2>2. dead' \in Seq(Msgs)
    BY <1>11, <2>1, AppendProperties DEF DeadLetterWrite, TypeOK
  <2> QED BY <1>11, <2>2 DEF DeadLetterWrite, TypeOK, Phases, history
<1>12. CASE DeadLetterAdvance
  <2>1. current.offset \in Nat
    BY <1>12 DEF DeadLetterAdvance, ContentOK, DeadLetterOK, TypeOK
  <2>2. AdvanceConsumed(log.cur, current.offset) \in CursorState
    BY <2>1, LogType, AdvanceConsumedType
  <2>3. WellFormed(log') /\ cursorFile' \in CursorState
    BY <1>12, <2>2, LogType, SetCursorWellFormed DEF DeadLetterAdvance, SaveCursor, TypeOK
  <2> QED BY <1>12, <2>3 DEF DeadLetterAdvance, TypeOK, Phases, history
<1>13. CASE SnapshotBegin
  BY <1>13, LogType, EmptySeq DEF SnapshotBegin, TypeOK, Phases, disk, history
<1>14. CASE SnapshotCopy
  <2>1. PICK s \in pending : /\ tmp' = tmp \o stream[log.segments[s].base]
                             /\ pending' = pending \ {s}
    BY <1>14 DEF SnapshotCopy
  <2>2. s \in DOMAIN log.segments
    BY <1>14, <2>1 DEF SnapshotCopy, StructureOK, SnapshotOK
  <2>3. log.segments[s].base \in DOMAIN stream
    BY <1>14, <2>2 DEF SnapshotCopy, StructureOK, LogOK, SegmentsOK, Up, Visited
  <2>4. tmp' \in Seq(Record)
    BY <2>1, <2>3, StreamType, ConcatProperties DEF TypeOK
  <2> QED BY <1>14, <2>1, <2>4 DEF SnapshotCopy, TypeOK, disk, history
<1>15. CASE SnapshotPublish
  BY <1>15, EmptySeq DEF SnapshotPublish, TypeOK, Phases, history
<1>16. CASE SnapshotFail
  BY <1>16, EmptySeq DEF SnapshotFail, TypeOK, Phases, disk, history
<1>17. CASE TruncateBegin
  BY <1>17 DEF TruncateBegin, TypeOK, Phases, disk, history
<1>18. CASE TruncateRemove
  BY <1>18 DEF TruncateRemove, TypeOK, history
<1>19. CASE TruncateReset
  <2>1. WellFormed(EmptyLog(ZeroCursor)) /\ ZeroCursor \in CursorState
    BY EmptyLogWellFormed DEF CursorState, ZeroCursor
  <2> QED BY <1>19, <2>1, EmptySeq
      DEF TruncateReset, RestartHistory, TypeOK, Phases
<1>20. CASE UNCHANGED vars
  BY <1>20 DEF vars, TypeOK
<1> QED
  BY <1>1, <1>2, <1>3, <1>4, <1>5, <1>6, <1>7, <1>8, <1>9, <1>10, <1>11, <1>12,
     <1>13, <1>14, <1>15, <1>16, <1>17, <1>18, <1>19, <1>20 DEF Next
-----------------------------------------------------------------------------
(* The files and the Log keep agreeing *)

\* Between operations and in those that read only, the structure stays.
Quiet == {"open", "deadlettering", "snapshotting"}

\* A step between quiet phases that touches neither the files nor the Log's
\* segments and index keeps them in agreement.
LEMMA QuietStep ==
    ASSUME IInv, phase \in Quiet, phase' \in Quiet,
           stream' = stream, appended' = appended,
           log'.segments = log.segments, log'.active = log.active,
           log'.nextIdx = log.nextIdx, log'.index = log.index,
           phase' = "snapshotting" => pending' \subseteq DOMAIN log.segments
    PROVE  StructureOK'
<1> USE DEF IInv, StructureOK, Quiet
<1>1. DiskOK'
  BY DEF DiskOK, FilesHoldStream, FilesTile, End
<1>2. LogOK'
  <2>1. Visited' = Visited /\ Up
    BY DEF Visited, Up
  <2>2. SegmentsOK'
    BY <2>1 DEF LogOK, SegmentsOK
  <2>3. SizesOK'
    BY <2>1 DEF LogOK, SizesOK
  <2>4. IndexOK'
    BY <2>1 DEF LogOK, IndexOK
  <2> QED BY <2>2, <2>3, <2>4 DEF LogOK
<1>3. OpenOK'
  BY DEF OpenOK, Up
<1> QED BY <1>1, <1>2, <1>3 DEF RecoverOK, SnapshotOK, TruncateOK

\* Open starts a Log that knows no segment.
LEMMA OpenStructure ==
    ASSUME IInv, Open
    PROVE  StructureOK'
<1> USE DEF IInv, StructureOK
<1>1. /\ phase = "down" /\ phase' = "recovering" /\ stream' = stream
      /\ appended' = appended /\ pending' = DOMAIN stream
      /\ log'.segments = <<>> /\ log'.index = <<>> /\ log'.nextIdx = 0 /\ log'.active = 0
  BY DEF Open, disk, history, EmptyLog
<1>2. DiskOK'
  BY <1>1 DEF DiskOK, FilesHoldStream, FilesTile, End
<1>3. LogOK'
  <2>1. Visited' = {}
    BY <1>1 DEF Visited
  <2>2. DOMAIN log'.segments = {} /\ DOMAIN log'.index = {} /\ Len(log'.index) = 0
    BY <1>1
  <2> QED BY <1>1, <2>1, <2>2 DEF LogOK, SegmentsOK, SizesOK, IndexOK
<1>4. RecoverOK'
  <2>1. pending' # {} => IsNext(log.nextIdx)'
    BY <1>1, StreamType DEF DiskOK, FilesTile, IsNext
  <2>2. pending' = {} => appended = <<>>
    BY <1>1 DEF DiskOK, FilesTile
  <2> QED BY <1>1, <2>1, <2>2 DEF RecoverOK
<1> QED BY <1>1, <1>2, <1>3, <1>4 DEF OpenOK, SnapshotOK, TruncateOK, Up

\* A segment file is read: recover has indexed one file more of the stream.
LEMMA RecoverSegmentStructure ==
    ASSUME IInv, RecoverSegment
    PROVE  StructureOK'
<1> USE DEF IInv, StructureOK
<1>1. PICK base \in pending :
        /\ IsNext(base)
        /\ log' = LET grown == AddSegment(log, base, stream[base])
                  IN  IF pending = {base}
                      THEN [grown EXCEPT !.active = Len(grown.segments)] ELSE grown
        /\ pending' = pending \ {base}
  BY DEF RecoverSegment
<1>2. /\ phase = "recovering" /\ phase' = "recovering"
      /\ stream' = stream /\ appended' = appended
  BY DEF RecoverSegment, disk, history
<1>3. /\ base \in DOMAIN stream /\ base \in Nat /\ FilesHoldStream /\ FilesTile
      /\ pending \subseteq DOMAIN stream /\ Up
      /\ \A v \in DOMAIN stream \ pending, p \in pending : v < p
      /\ stream[base] \in Seq(Record)
  BY <1>1, <1>2, StreamType DEF RecoverOK, DiskOK, Up
<1>4. base = log.nextIdx
  BY <1>1, <1>2, <1>3, LogType DEF RecoverOK, IsNext
<1> DEFINE n == Len(stream[base])
           k == Len(log.segments)
           more == Entries(k + 1, 0, n)
<1>5. n \in Nat /\ k \in Nat /\ DOMAIN log.segments = 1..k
  BY <1>3, StreamType, LogType
<1>6. /\ log'.segments = Append(log.segments, [base |-> base, size |-> n])
      /\ log'.index = log.index \o more
      /\ log'.nextIdx = base + n
      /\ pending' = {} => log'.active = Len(log'.segments)
  <2> DEFINE grown == AddSegment(log, base, stream[base])
  <2>1. /\ WellFormed(grown)
        /\ grown.segments = Append(log.segments, [base |-> base, size |-> n])
        /\ grown.index = log.index \o more
        /\ grown.nextIdx = IF base + n > log.nextIdx THEN base + n ELSE log.nextIdx
    <3>1. ReadAll(stream[base]) = stream[base] /\ WellFormed(log)
      BY <1>3, LogType, FilesReadWhole
    <3> HIDE DEF IInv, StructureOK
    <3>2. /\ WellFormed(grown)
          /\ grown.segments = Append(log.segments, [base |-> base, size |-> Len(stream[base])])
      BY <1>3, <3>1, AddSegmentWellFormed
    <3>3. /\ grown.index = log.index \o more
          /\ grown.nextIdx = IF base + n > log.nextIdx THEN base + n ELSE log.nextIdx
      BY <3>1 DEF AddSegment, WellFormed, Log
    <3> QED BY <3>2, <3>3
  <2>2. grown.nextIdx = base + n
    BY <1>3, <1>4, <1>5, <2>1
  <2>3. log' = IF pending = {base}
               THEN [grown EXCEPT !.active = Len(grown.segments)] ELSE grown
    BY <1>1
  <2>4. pending' = {} => pending = {base}
    BY <1>1
  <2> HIDE DEF grown, n, k, more
  <2> QED BY <2>1, <2>2, <2>3, <2>4, SetActiveWellFormed
<1>7. /\ Len(log'.segments) = k + 1 /\ DOMAIN log'.segments = 1..k + 1
      /\ \A s \in 1..k : log'.segments[s] = log.segments[s]
      /\ log'.segments[k + 1] = [base |-> base, size |-> n]
  <2>1. [base |-> base, size |-> n] \in Segment
    BY <1>3, <1>5 DEF Segment
  <2>2. /\ log'.segments \in Seq(Segment) /\ Len(log'.segments) = k + 1
        /\ \A s \in 1..k : log'.segments[s] = log.segments[s]
        /\ log'.segments[k + 1] = [base |-> base, size |-> n]
    BY <1>6, <2>1, LogType, AppendProperties
  <2> QED BY <2>2, LenProperties
<1>8. /\ Len(log'.index) = log.nextIdx + n /\ DOMAIN log'.index = 1..log.nextIdx + n
      /\ \A o \in 1..log.nextIdx : log'.index[o] = log.index[o]
      /\ \A o \in 1..log.nextIdx + n : o > log.nextIdx =>
            log'.index[o] = [seg |-> k + 1, rec |-> o - log.nextIdx - 1]
  <2>1. Len(log.index) = log.nextIdx /\ log.nextIdx \in Nat
    BY <1>3, LogType DEF LogOK, IndexOK
  <2>2. k + 1 \in Nat /\ 0 \in Nat
    BY <1>5
  <2>3. /\ more \in Seq(IndexEntry) /\ Len(more) = n
        /\ \A i \in 1..n : more[i] = [seg |-> k + 1, rec |-> 0 + i - 1]
    BY <1>5, <2>2, EntriesType
  <2> HIDE DEF more
  <2>4. /\ log'.index \in Seq(IndexEntry) /\ Len(log'.index) = log.nextIdx + n
        /\ \A o \in 1..log.nextIdx + n : log'.index[o] =
              IF o <= log.nextIdx THEN log.index[o] ELSE more[o - log.nextIdx]
    BY <1>6, <2>1, <2>3, LogType, ConcatProperties
  <2>5. ASSUME NEW o \in 1..log.nextIdx + n, o > log.nextIdx
        PROVE  log'.index[o] = [seg |-> k + 1, rec |-> o - log.nextIdx - 1]
    <3>1. o - log.nextIdx \in 1..n /\ 0 + (o - log.nextIdx) - 1 = o - log.nextIdx - 1
      BY <1>5, <2>1, <2>5
    <3>2. log'.index[o] = more[o - log.nextIdx]
      BY <2>1, <2>4, <2>5
    <3> QED BY <2>3, <3>1, <3>2
  <2>6. \A o \in 1..log.nextIdx : log'.index[o] = log.index[o]
    BY <1>5, <2>1, <2>4
  <2> QED BY <2>4, <2>5, <2>6, LenProperties
<1> HIDE DEF more
<1>9. DiskOK'
  BY <1>2 DEF DiskOK, FilesHoldStream, FilesTile, End
<1>10. Visited' = Visited \cup {base} /\ \A v \in Visited : v < base
  BY <1>1, <1>2, <1>3 DEF Visited
<1>11. SegmentsOK'
  <2>1. \A s \in 1..k : log.segments[s].base \in Visited
    BY <1>3, <1>5 DEF LogOK, SegmentsOK
  <2>2. \A s \in DOMAIN log'.segments : log'.segments[s].base \in Visited'
    BY <1>5, <1>7, <1>10, <2>1
  <2>3. \A b \in Visited' : \E s \in DOMAIN log'.segments : log'.segments[s].base = b
    <3>1. ASSUME NEW b \in Visited
          PROVE  \E s \in DOMAIN log'.segments : log'.segments[s].base = b
      <4>1. PICK s \in 1..k : log.segments[s].base = b
        BY <1>3, <1>5 DEF LogOK, SegmentsOK
      <4> HIDE DEF IInv, StructureOK, k, n
      <4>2. s \in DOMAIN log'.segments /\ log'.segments[s].base = b
        BY <1>5, <1>7, <4>1
      <4> QED BY <4>2
    <3>2. k + 1 \in DOMAIN log'.segments /\ log'.segments[k + 1].base = base
      BY <1>5, <1>7
    <3> QED BY <1>10, <3>1, <3>2
  <2>4. ASSUME NEW s \in 1..k + 1, NEW t \in 1..k + 1, s < t
        PROVE  log'.segments[s].base < log'.segments[t].base
    <3>1. s \in 1..k
      BY <1>5, <2>4
    <3>2. CASE t = k + 1
      BY <1>7, <1>10, <2>1, <3>1, <3>2
    <3>3. CASE t # k + 1
      <4>1. t \in 1..k
        BY <1>5, <3>3
      <4> QED BY <1>3, <1>5, <1>7, <2>4, <3>1, <4>1 DEF LogOK, SegmentsOK
    <3> QED BY <3>2, <3>3
  <2> QED BY <1>7, <2>2, <2>3, <2>4 DEF SegmentsOK
<1>12. SizesOK'
  <2>1. ASSUME NEW s \in 1..k
        PROVE  /\ Len(stream[log.segments[s].base]) = log.segments[s].size
               /\ log.segments[s].size + 0 = log.segments[s].size
    <3>1. log.segments[s].size \in Nat
      BY <1>5, LogType
    <3> QED BY <1>2, <1>3, <1>5, <3>1 DEF LogOK, SizesOK
  <2>2. ASSUME NEW s \in 1..k + 1
        PROVE  /\ Len(stream[log'.segments[s].base]) = log'.segments[s].size
               /\ log'.segments[s].size + 0 = log'.segments[s].size
    <3>1. CASE s = k + 1
      <4>1. log'.segments[s].base = base /\ log'.segments[s].size = n
        BY <1>7, <3>1
      <4> QED BY <1>5, <4>1
    <3>2. CASE s # k + 1
      <4> HIDE DEF IInv, StructureOK, k, n
      <4>1. s \in 1..k
        BY <1>5, <3>2
      <4>2. log'.segments[s] = log.segments[s]
        BY <1>7, <4>1
      <4> QED BY <2>1, <4>1, <4>2
    <3> QED BY <3>1, <3>2
  <2> QED BY <1>2, <1>7, <2>2 DEF SizesOK
<1>13. IndexOK'
  <2>1. Len(log'.index) = log'.nextIdx
    BY <1>4, <1>6, <1>8
  <2>2. ASSUME NEW o \in DOMAIN log'.index
        PROVE  LET b == log'.segments[log'.index[o].seg].base
               IN  b + log'.index[o].rec + 1 = o /\ log'.index[o].rec < Len(stream[b])
    <3>1. CASE o <= log.nextIdx
      <4>1. o \in DOMAIN log.index /\ log'.index[o] = log.index[o]
        BY <1>3, <1>5, <1>8, <3>1, LogType DEF LogOK, IndexOK
      <4>2. log.index[o].seg \in 1..k
        BY <1>5, <4>1, LogType
      <4> QED BY <1>3, <1>7, <4>1, <4>2 DEF LogOK, IndexOK
    <3>2. CASE o > log.nextIdx
      <4>1. log'.index[o].seg = k + 1 /\ log'.index[o].rec = o - log.nextIdx - 1
        <5>1. log'.index[o] = [seg |-> k + 1, rec |-> o - log.nextIdx - 1]
          BY <1>8, <3>2
        <5> QED BY <5>1
      <4>2. log'.segments[log'.index[o].seg].base = base
        BY <1>7, <4>1
      <4> QED BY <1>3, <1>4, <1>5, <1>8, <4>1, <4>2
    <3> QED BY <1>8, <3>1, <3>2, <1>5, LogType
  <2> QED BY <1>2, <2>1, <2>2 DEF IndexOK
<1>14. RecoverOK'
  <2>1. /\ log'.nextIdx = End(base) /\ End(base) \in Nat
        /\ base <= End(base) /\ End(base) <= Len(appended)
    BY <1>3, <1>6, FilesEndInStream DEF End
  <2>2. \A p \in pending' : p \in Nat /\ base < p /\ End(base) <= p
    BY <1>1, <1>3, StreamType DEF IsNext, FilesTile
  <2>3. CASE End(base) = Len(appended)
    <3>1. \A p \in pending' : p = End(base)
      BY <1>3, <2>1, <2>2, <2>3, FilesEndInStream, <1>1
    <3> QED BY <1>1, <1>2, <1>3, <1>6, <2>1, <2>2, <2>3, <3>1 DEF RecoverOK, IsNext
  <2>4. CASE Len(stream[base]) > 0 /\ End(base) \in DOMAIN stream
    <3>1. base < End(base)
      BY <1>3, <1>5, <2>4 DEF End
    <3>2. End(base) \in pending'
      BY <1>1, <1>3, <2>4, <3>1
    <3> QED BY <1>1, <1>2, <1>3, <2>1, <2>2, <3>2 DEF RecoverOK, IsNext
  <2> QED BY <1>3, <2>3, <2>4 DEF FilesTile
<1> QED BY <1>2, <1>9, <1>11, <1>12, <1>13, <1>14
        DEF LogOK, OpenOK, SnapshotOK, TruncateOK, Up
\* A log that rolls adds an empty file at the end of the stream; one that
\* does not has an active segment already.
LEMMA AppendBeginStructure ==
    ASSUME IInv, NEW m \in Msgs, AppendBegin(m)
    PROVE  StructureOK'
<1> USE DEF IInv, StructureOK
<1>1. /\ phase = "open" /\ phase' = "writing" /\ appended' = appended
      /\ payload' = m /\ Up /\ Visited = DOMAIN stream /\ Visited' = DOMAIN stream'
      /\ FilesHoldStream /\ FilesTile /\ SegmentsOK /\ SizesOK /\ IndexOK
      /\ log.nextIdx = Len(appended) /\ log.active = Len(log.segments)
  BY LogType DEF AppendBegin, Up, Visited, history, LogOK, DiskOK, OpenOK
<1>2. CASE ~NeedsRoll(log)
  <2>1. log' = log /\ stream' = stream
    BY <1>2 DEF AppendBegin
  <2>2. DiskOK'
    BY <1>1, <2>1 DEF DiskOK, FilesHoldStream, FilesTile, End
  <2>3. SegmentsOK' /\ SizesOK' /\ IndexOK'
    BY <1>1, <2>1 DEF SegmentsOK, SizesOK, IndexOK
  <2>4. OpenOK'
    <3>1. log.active # 0
      BY <1>2 DEF NeedsRoll
    <3> QED BY <1>1, <2>1, <3>1 DEF OpenOK
  <2> QED BY <1>1, <2>2, <2>3, <2>4 DEF LogOK, RecoverOK, SnapshotOK, TruncateOK
<1>3. CASE NeedsRoll(log)
  <2> DEFINE k == Len(log.segments)
             next == log.nextIdx
  <2>1. log' = RollSegment(log) /\ stream' = CreateFile(stream, next)
    BY <1>3 DEF AppendBegin
  <2>2. /\ k \in Nat /\ DOMAIN log.segments = 1..k /\ next \in Nat
        /\ next = Len(appended)
    BY <1>1, LogType
  <2>3. /\ log'.segments = Append(log.segments, [base |-> next, size |-> 0])
        /\ log'.active = k + 1 /\ log'.nextIdx = next /\ log'.index = log.index
    BY <2>1, LogType, RollSegmentWellFormed
  <2>4. /\ Len(log'.segments) = k + 1 /\ DOMAIN log'.segments = 1..k + 1
        /\ \A s \in 1..k : log'.segments[s] = log.segments[s]
        /\ log'.segments[k + 1] = [base |-> next, size |-> 0]
    <3>1. [base |-> next, size |-> 0] \in Segment
      BY <2>2 DEF Segment
    <3>2. /\ log'.segments \in Seq(Segment) /\ Len(log'.segments) = k + 1
          /\ \A s \in 1..k : log'.segments[s] = log.segments[s]
          /\ log'.segments[k + 1] = [base |-> next, size |-> 0]
      BY <2>3, <3>1, LogType, AppendProperties
    <3> QED BY <3>2, LenProperties
  <2>5. \A b \in DOMAIN stream : b < next
    <3>1. CASE log.active = 0
      BY <1>1, <2>2, <3>1 DEF SegmentsOK
    <3>2. CASE log.active # 0
      <4> DEFINE base == log.segments[log.active].base
      <4>1. /\ base \in DOMAIN stream /\ \A b \in DOMAIN stream : b <= base
            /\ End(base) = next
        BY <1>1, <3>2, ActiveSegment
      <4>2. log.active \in DOMAIN log.segments /\ log.segments[log.active].size \in Nat
        BY <3>2, LogType
      <4>3. Len(stream[base]) = log.segments[log.active].size
        BY <1>1, <4>2 DEF SizesOK
      <4>4. Len(stream[base]) > 0
        BY <1>3, <3>2, <4>2, <4>3, SegmentSizeAssumption DEF NeedsRoll
      <4>5. base < next
        BY <4>1, <4>4, StreamType DEF End
      <4> QED BY <2>2, <4>1, <4>5, StreamType
    <3> QED BY <3>1, <3>2
  <2>6. /\ DOMAIN stream' = DOMAIN stream \cup {next}
        /\ stream'[next] = <<>> /\ Len(stream'[next]) = 0
        /\ \A b \in DOMAIN stream : stream'[b] = stream[b]
        /\ next \notin DOMAIN stream
    BY <2>1, <2>2, <2>5, StreamType DEF CreateFile
  <2>7. FilesHoldStream'
    BY <1>1, <2>6 DEF FilesHoldStream
  <2>8. FilesTile'
    <3>1. \A b \in DOMAIN stream' : End(b)' = IF b = next THEN next ELSE End(b)
      BY <2>2, <2>6 DEF End
    <3>2. \A b \in DOMAIN stream : b < next /\ End(b) <= next
      BY <1>1, <2>2, <2>5, FilesEndInStream
    <3>3. ASSUME NEW b \in DOMAIN stream'
          PROVE  \/ End(b)' = Len(appended)
                 \/ Len(stream'[b]) > 0 /\ End(b)' \in DOMAIN stream'
      BY <1>1, <2>2, <2>6, <3>1 DEF FilesTile
    <3>4. ASSUME NEW b \in DOMAIN stream', NEW c \in DOMAIN stream', b < c
          PROVE  End(b)' <= c
      <4>1. b # next
        BY <2>2, <2>6, <3>2, <3>4, StreamType
      <4> QED BY <1>1, <2>6, <3>1, <3>2, <3>4, <4>1 DEF FilesTile
    <3>5. 0 \in DOMAIN stream'
      <4>1. CASE DOMAIN stream = {}
        BY <1>1, <2>2, <2>6, <4>1 DEF FilesTile
      <4>2. CASE DOMAIN stream # {}
        BY <1>1, <2>6, <4>2 DEF FilesTile
      <4> QED BY <4>1, <4>2
    <3> QED BY <1>1, <3>3, <3>4, <3>5 DEF FilesTile
  <2>9. SegmentsOK'
    <3>1. ASSUME NEW s \in 1..k + 1
          PROVE  log'.segments[s].base \in DOMAIN stream'
      <4>1. CASE s = k + 1
        BY <2>4, <2>6, <4>1
      <4>2. CASE s # k + 1
        <5>1. s \in 1..k
          BY <2>2, <4>2
        <5> QED BY <1>1, <2>2, <2>4, <2>6, <5>1 DEF SegmentsOK
      <4> QED BY <4>1, <4>2
    <3>2. ASSUME NEW b \in DOMAIN stream'
          PROVE  \E s \in 1..k + 1 : log'.segments[s].base = b
      <4>1. CASE b = next
        BY <2>2, <2>4, <4>1
      <4>2. CASE b # next
        <5>1. PICK s \in 1..k : log.segments[s].base = b
          BY <1>1, <2>2, <2>6, <4>2 DEF SegmentsOK
        <5> QED BY <2>2, <2>4, <5>1
      <4> QED BY <4>1, <4>2
    <3>3. ASSUME NEW s \in 1..k + 1, NEW t \in 1..k + 1, s < t
          PROVE  log'.segments[s].base < log'.segments[t].base
      <4>1. s \in 1..k
        BY <2>2, <3>3
      <4>2. CASE t = k + 1
        <5>1. log'.segments[t].base = next /\ log'.segments[s] = log.segments[s]
          BY <2>4, <4>1, <4>2
        <5>2. log.segments[s].base \in DOMAIN stream
          BY <1>1, <2>2, <4>1 DEF SegmentsOK
        <5> QED BY <2>5, <5>1, <5>2
      <4>3. CASE t # k + 1
        <5>1. t \in 1..k
          BY <2>2, <4>3
        <5>2. log.segments[s].base < log.segments[t].base
          BY <1>1, <2>2, <3>3, <4>1, <5>1 DEF SegmentsOK
        <5>3. log'.segments[s] = log.segments[s] /\ log'.segments[t] = log.segments[t]
          BY <2>4, <4>1, <5>1
        <5> QED BY <5>2, <5>3
      <4> QED BY <4>2, <4>3
    <3> QED BY <1>1, <2>4, <3>1, <3>2, <3>3 DEF SegmentsOK
  <2>10. SizesOK'
    <3>1. ASSUME NEW s \in 1..k + 1
          PROVE  /\ Len(stream'[log'.segments[s].base]) = log'.segments[s].size
                 /\ log'.segments[s].size + 0 = log'.segments[s].size
      <4>1. CASE s = k + 1
        BY <2>4, <2>6, <4>1
      <4>2. CASE s # k + 1
        <5>1. s \in 1..k
          BY <2>2, <4>2
        <5>2. /\ log.segments[s].base \in DOMAIN stream
              /\ Len(stream[log.segments[s].base]) = log.segments[s].size + 0
              /\ log.segments[s].size \in Nat
          BY <1>1, <2>2, <5>1, LogType DEF SegmentsOK, SizesOK
        <5> QED BY <2>4, <2>6, <5>1, <5>2
      <4> QED BY <4>1, <4>2
    <3> QED BY <1>1, <2>4, <3>1 DEF SizesOK
  <2>11. IndexOK'
    <3>1. ASSUME NEW o \in DOMAIN log.index
          PROVE  LET b == log'.segments[log.index[o].seg].base
                 IN  b + log.index[o].rec + 1 = o /\ log.index[o].rec < Len(stream'[b])
      <4>1. log.index[o].seg \in 1..k
        BY <2>2, LogType
      <4>2. log.segments[log.index[o].seg].base \in DOMAIN stream
        BY <1>1, <2>2, <4>1 DEF SegmentsOK
      <4> DEFINE b == log.segments[log.index[o].seg].base
      <4>3. b + log.index[o].rec + 1 = o /\ log.index[o].rec < Len(stream[b])
        BY <1>1 DEF IndexOK
      <4>4. log'.segments[log.index[o].seg].base = b /\ stream'[b] = stream[b]
        BY <2>4, <2>6, <4>1, <4>2
      <4> HIDE DEF b
      <4> QED BY <4>3, <4>4
    <3> QED BY <1>1, <2>3, <3>1 DEF IndexOK
  <2>12. OpenOK'
    BY <1>1, <2>2, <2>3, <2>4 DEF OpenOK
  <2> QED BY <1>1, <2>7, <2>8, <2>9, <2>10, <2>11, <2>12
          DEF DiskOK, LogOK, RecoverOK, SnapshotOK, TruncateOK
<1> QED BY <1>2, <1>3

\* A record more at the end of the last file.
LEMMA AppendWriteStructure ==
    ASSUME IInv, AppendWrite
    PROVE  StructureOK'
<1> USE DEF IInv, StructureOK
<1> DEFINE base == log.segments[log.active].base
           n == Len(stream[base])
           total == Len(appended)
<1>1. /\ phase = "writing" /\ phase' = "syncing" /\ log' = log /\ payload' = payload
      /\ appended' = Append(appended, payload)
      /\ stream' = [stream EXCEPT ![base] = Append(stream[base], Whole(payload))]
  BY DEF AppendWrite, WriteRecord
<1>2. /\ Up /\ Visited = DOMAIN stream /\ Visited' = DOMAIN stream'
      /\ FilesHoldStream /\ FilesTile /\ SegmentsOK /\ SizesOK /\ IndexOK
      /\ log.nextIdx = total /\ log.active = Len(log.segments)
      /\ log.active # 0 /\ payload \in Msgs /\ total \in Nat
  BY <1>1, LogType DEF Up, Visited, LogOK, DiskOK, OpenOK, TypeOK
<1>3. /\ base \in DOMAIN stream /\ \A b \in DOMAIN stream : b <= base
      /\ base + n = total /\ n \in Nat /\ base \in Nat
  BY <1>1, <1>2, ActiveSegment, StreamType DEF End
<1>4. /\ Len(appended') = total + 1 /\ appended'[total + 1] = payload
      /\ \A i \in 1..total : appended'[i] = appended[i]
  BY <1>1, <1>2, AppendProperties DEF TypeOK
<1>5. /\ DOMAIN stream' = DOMAIN stream
      /\ \A b \in DOMAIN stream : b # base => stream'[b] = stream[b]
      /\ Len(stream'[base]) = n + 1 /\ stream'[base][n + 1] = Whole(payload)
      /\ \A r \in 1..n : stream'[base][r] = stream[base][r]
  <2>1. Whole(payload) \in Record /\ stream[base] \in Seq(Record)
    BY <1>2, <1>3, StreamType DEF Whole, Record
  <2> DEFINE longer == Append(stream[base], Whole(payload))
  <2>2. /\ Len(longer) = n + 1 /\ longer[n + 1] = Whole(payload)
        /\ \A r \in 1..n : longer[r] = stream[base][r]
    <3>1. /\ Len(longer) = Len(stream[base]) + 1
          /\ longer[Len(stream[base]) + 1] = Whole(payload)
          /\ \A r \in 1..Len(stream[base]) : longer[r] = stream[base][r]
      <4> HIDE DEF base
      <4> QED BY <2>1, AppendProperties
    <3> QED BY <3>1
  <2> HIDE DEF longer
  <2>3. /\ DOMAIN stream' = DOMAIN stream /\ stream'[base] = longer
        /\ \A b \in DOMAIN stream : b # base => stream'[b] = stream[b]
    BY <1>1, <1>3 DEF longer, TypeOK
  <2> QED BY <2>2, <2>3
<1> HIDE DEF base, n, total
<1>6. FilesHoldStream'
  <2> SUFFICES ASSUME NEW b \in DOMAIN stream', NEW r \in 1..Len(stream'[b])
               PROVE  /\ b + r <= Len(appended')
                      /\ stream'[b][r] = Whole(appended'[b + r])
    BY DEF FilesHoldStream
  <2>1. b \in Nat /\ Len(stream[b]) \in Nat
    BY <1>5, StreamType
  <2>2. CASE b = base /\ r = n + 1
    <3>1. b + r = total + 1
      BY <1>2, <1>3, <2>2
    <3> QED BY <1>2, <1>4, <1>5, <2>2, <3>1
  <2>3. CASE ~(b = base /\ r = n + 1)
    <3>1. r \in 1..Len(stream[b]) /\ stream'[b][r] = stream[b][r]
      BY <1>3, <1>5, <2>3 DEF n
    <3>2. b + r <= total /\ stream[b][r] = Whole(appended[b + r])
      BY <1>2, <1>5, <3>1 DEF FilesHoldStream, total
    <3>3. b + r \in 1..total
      BY <1>2, <2>1, <3>1, <3>2
    <3> QED BY <1>2, <1>4, <3>1, <3>2, <3>3
  <2> QED BY <2>2, <2>3
<1>7. FilesTile'
  <2>1. \A b \in DOMAIN stream' : End(b)' = IF b = base THEN total + 1 ELSE End(b)
    BY <1>2, <1>3, <1>5 DEF End
  <2>2. ASSUME NEW b \in DOMAIN stream, b # base
        PROVE  /\ b < base /\ Len(stream[b]) > 0 /\ End(b) \in DOMAIN stream
               /\ Len(stream'[b]) > 0
    <3>1. b < base /\ b \in Nat /\ Len(stream[b]) \in Nat
      BY <1>3, <2>2, StreamType
    <3>2. End(b) <= base
      BY <1>2, <1>3, <3>1 DEF FilesTile
    <3>3. CASE End(b) = total
      BY <1>2, <1>3, <1>5, <2>2, <3>1, <3>2, <3>3 DEF End
    <3>4. CASE End(b) # total
      BY <1>2, <1>5, <2>2, <3>1, <3>4 DEF FilesTile, total
    <3> QED BY <3>3, <3>4
  <2>3. ASSUME NEW b \in DOMAIN stream'
        PROVE  \/ End(b)' = Len(appended')
               \/ Len(stream'[b]) > 0 /\ End(b)' \in DOMAIN stream'
    BY <1>4, <1>5, <2>1, <2>2
  <2>4. ASSUME NEW b \in DOMAIN stream', NEW c \in DOMAIN stream', b < c
        PROVE  End(b)' <= c
    <3>1. b # base
      BY <1>3, <1>5, <2>4, StreamType
    <3> QED BY <1>2, <1>5, <2>1, <2>4, <3>1 DEF FilesTile
  <2>5. 0 \in DOMAIN stream'
    BY <1>2, <1>3, <1>5 DEF FilesTile
  <2> QED BY <2>3, <2>4, <2>5 DEF FilesTile
<1>8. SegmentsOK'
  BY <1>1, <1>2, <1>5 DEF SegmentsOK
<1>9. SizesOK'
  <2> SUFFICES ASSUME NEW s \in DOMAIN log.segments
               PROVE  Len(stream'[log.segments[s].base]) =
                        log.segments[s].size + (IF s = log.active THEN 1 ELSE 0)
    BY <1>1 DEF SizesOK
  <2>1. /\ log.segments[s].size \in Nat
        /\ Len(stream[log.segments[s].base]) = log.segments[s].size
        /\ log.segments[s].base \in DOMAIN stream
    BY <1>1, <1>2, LogType DEF SizesOK, SegmentsOK
  <2>2. CASE s = log.active
    BY <1>5, <2>1, <2>2 DEF base, n
  <2>3. CASE s # log.active
    <3>1. s < log.active /\ log.active \in DOMAIN log.segments
      BY <1>2, <2>3, LogType
    <3>2. log.segments[s].base < base
      BY <1>2, <3>1 DEF SegmentsOK, base
    <3> QED BY <1>3, <1>5, <2>1, <2>3, <3>2, StreamType
  <2> QED BY <2>2, <2>3
<1>10. IndexOK'
  <2>1. ASSUME NEW o \in DOMAIN log.index
        PROVE  LET b == log.segments[log.index[o].seg].base
               IN  b + log.index[o].rec + 1 = o /\ log.index[o].rec < Len(stream'[b])
    <3> DEFINE b == log.segments[log.index[o].seg].base
    <3>1. log.index[o].seg \in DOMAIN log.segments /\ log.index[o].rec \in Nat
      BY LogType
    <3>2. b \in DOMAIN stream
      BY <1>2, <3>1 DEF SegmentsOK
    <3>3. b + log.index[o].rec + 1 = o /\ log.index[o].rec < Len(stream[b])
      BY <1>2 DEF IndexOK
    <3>4. Len(stream[b]) \in Nat /\ Len(stream'[b]) \in {Len(stream[b]), Len(stream[b]) + 1}
      BY <1>5, <3>2, StreamType DEF n
    <3> HIDE DEF b
    <3>5. log.index[o].rec < Len(stream'[b])
      BY <3>1, <3>3, <3>4
    <3> QED BY <3>3, <3>5 DEF b
  <2> QED BY <1>1, <1>2, <2>1 DEF IndexOK
<1>11. OpenOK'
  BY <1>1, <1>2, <1>4 DEF OpenOK, total
<1> QED BY <1>1, <1>2, <1>6, <1>7, <1>8, <1>9, <1>10, <1>11
        DEF DiskOK, LogOK, RecoverOK, SnapshotOK, TruncateOK

\* The record written last is indexed.
LEMMA AppendReturnStructure ==
    ASSUME IInv, AppendReturn
    PROVE  StructureOK'
<1> USE DEF IInv, StructureOK
<1> DEFINE base == log.segments[log.active].base
           k == Len(log.segments)
           entry == [seg |-> k, rec |-> log.nextIdx - base]
<1>1. /\ phase = "syncing" /\ phase' = "open" /\ stream' = stream
      /\ appended' = appended /\ log' = IndexAppended(log)
  BY DEF AppendReturn, disk
<1>2. /\ Up /\ Visited = DOMAIN stream /\ Visited' = DOMAIN stream'
      /\ FilesHoldStream /\ FilesTile /\ SegmentsOK /\ SizesOK /\ IndexOK
      /\ Len(appended) = log.nextIdx + 1 /\ log.active = k
      /\ log.active # 0 /\ k \in Nat /\ log.nextIdx \in Nat
      /\ DOMAIN log.segments = 1..k /\ k \in DOMAIN log.segments
  BY <1>1, LogType DEF Up, Visited, LogOK, DiskOK, OpenOK
<1>3. /\ base \in DOMAIN stream /\ base \in Nat /\ base <= log.nextIdx
      /\ base + Len(stream[base]) = log.nextIdx + 1 /\ Len(stream[base]) \in Nat
  BY <1>1, <1>2, ActiveSegment, StreamType DEF End
<1>4. /\ WellFormed(log')
      /\ Len(log'.segments) = k
      /\ \A s \in DOMAIN log.segments :
           /\ log'.segments[s].base = log.segments[s].base
           /\ log'.segments[s].size = log.segments[s].size + (IF s = log.active THEN 1 ELSE 0)
      /\ log'.active = log.active
      /\ log'.nextIdx = log.nextIdx + 1
      /\ log'.index = Append(log.index, entry)
  BY <1>1, <1>2, <1>3, LogType, IndexAppendedWellFormed
<1>5. DOMAIN log'.segments = 1..k
  BY <1>4, LogFields
<1>6. /\ Len(log'.index) = log.nextIdx + 1 /\ DOMAIN log'.index = 1..log.nextIdx + 1
      /\ \A o \in 1..log.nextIdx : log'.index[o] = log.index[o]
      /\ log'.index[log.nextIdx + 1] = entry
  <2>1. entry \in IndexEntry
    BY <1>2, <1>3 DEF IndexEntry
  <2>2. log.index \in Seq(IndexEntry) /\ Len(log.index) = log.nextIdx
    BY <1>2, LogType DEF IndexOK
  <2> HIDE DEF entry
  <2> QED BY <1>4, <2>1, <2>2, AppendProperties, LogFields
<1>7. DiskOK'
  BY <1>1 DEF DiskOK, FilesHoldStream, FilesTile, End
<1>8. SegmentsOK'
  <2>1. \A s \in 1..k : log'.segments[s].base = log.segments[s].base
    BY <1>2, <1>4
  <2>2. \A s \in 1..k : log'.segments[s].base \in Visited'
    BY <1>1, <1>2, <2>1 DEF SegmentsOK
  <2>3. \A b \in Visited' : \E s \in 1..k : log'.segments[s].base = b
    BY <1>1, <1>2, <2>1 DEF SegmentsOK
  <2>4. \A s, t \in 1..k : s < t => log'.segments[s].base < log'.segments[t].base
    BY <1>1, <1>2, <2>1 DEF SegmentsOK
  <2> QED BY <1>5, <2>2, <2>3, <2>4 DEF SegmentsOK
<1>9. SizesOK'
  <2> SUFFICES ASSUME NEW s \in 1..k
               PROVE  /\ Len(stream[log'.segments[s].base]) = log'.segments[s].size
                      /\ log'.segments[s].size + 0 = log'.segments[s].size
    BY <1>1, <1>5 DEF SizesOK
  <2>1. log.segments[s].size \in Nat /\ log'.segments[s].base = log.segments[s].base
    BY <1>2, <1>4, LogType
  <2>2. Len(stream[log.segments[s].base]) =
          log.segments[s].size + (IF s = log.active THEN 1 ELSE 0)
    BY <1>1, <1>2 DEF SizesOK
  <2>3. log'.segments[s].size = log.segments[s].size + (IF s = log.active THEN 1 ELSE 0)
    BY <1>2, <1>4
  <2> QED BY <2>1, <2>2, <2>3
<1>10. IndexOK'
  <2> SUFFICES ASSUME NEW o \in DOMAIN log'.index
               PROVE  LET b == log'.segments[log'.index[o].seg].base
                      IN  /\ b + log'.index[o].rec + 1 = o
                          /\ log'.index[o].rec < Len(stream[b])
    BY <1>1, <1>4, <1>6 DEF IndexOK
  <2>1. CASE o = log.nextIdx + 1
    <3>1. log'.index[o].seg = k /\ log'.index[o].rec = log.nextIdx - base
      BY <1>6, <2>1
    <3>2. log'.segments[k].base = base
      BY <1>2, <1>4
    <3> QED BY <1>2, <1>3, <2>1, <3>1, <3>2
  <2>2. CASE o # log.nextIdx + 1
    <3>1. o \in 1..log.nextIdx /\ o \in DOMAIN log.index
      BY <1>2, <1>6, <2>2, LogType DEF IndexOK
    <3>2. log.index[o].seg \in 1..k
      BY <1>2, <3>1, LogType
    <3>3. /\ log'.index[o] = log.index[o]
          /\ log'.segments[log.index[o].seg].base = log.segments[log.index[o].seg].base
      BY <1>2, <1>4, <1>6, <3>1, <3>2
    <3> QED BY <1>2, <3>1, <3>3 DEF IndexOK
  <2> QED BY <2>1, <2>2
<1>11. OpenOK'
  BY <1>1, <1>2, <1>4 DEF OpenOK
<1> QED BY <1>1, <1>2, <1>7, <1>8, <1>9, <1>10, <1>11
        DEF LogOK, RecoverOK, SnapshotOK, TruncateOK

\* No step takes the files and the Log in memory out of agreement.
LEMMA StructureStep ==
    ASSUME IInv, [Next]_vars
    PROVE  StructureOK'
<1> USE DEF IInv, StructureOK
<1>1. CASE Crash
  <2>1. DiskOK'
    BY <1>1 DEF Crash, ProcessEnds, disk, history, DiskOK, FilesHoldStream, FilesTile, End
  <2> QED BY <1>1, <2>1
      DEF Crash, ProcessEnds, LogOK, RecoverOK, OpenOK, SnapshotOK, TruncateOK, Up
<1>2. CASE Open
  BY <1>2, OpenStructure
<1>3. CASE RecoverSegment
  BY <1>3, RecoverSegmentStructure
<1>4. CASE RecoverDone
  <2>1. /\ phase = "recovering" /\ phase' = "open" /\ pending = {} /\ log' = log
        /\ stream' = stream /\ appended' = appended
    BY <1>4 DEF RecoverDone, disk, history
  <2>2. Visited' = Visited /\ Up
    BY <2>1 DEF Visited, Up
  <2>3. DiskOK'
    BY <2>1 DEF DiskOK, FilesHoldStream, FilesTile, End
  <2>4. SegmentsOK'
    BY <2>1, <2>2 DEF LogOK, SegmentsOK
  <2>5. SizesOK'
    BY <2>1, <2>2 DEF LogOK, SizesOK
  <2>6. IndexOK'
    BY <2>1, <2>2 DEF LogOK, IndexOK
  <2>7. OpenOK'
    BY <2>1, LogType DEF OpenOK, RecoverOK
  <2> QED BY <2>1, <2>3, <2>4, <2>5, <2>6, <2>7
      DEF LogOK, RecoverOK, SnapshotOK, TruncateOK
<1>5. ASSUME NEW m \in Msgs, AppendBegin(m)
      PROVE  StructureOK'
  BY <1>5, AppendBeginStructure
<1>6. CASE AppendWrite
  BY <1>6, AppendWriteStructure
<1>7. CASE AppendReturn
  BY <1>7, AppendReturnStructure
<1>8. CASE NextUnprocessed
  <2>1. log' = log
    BY <1>8, NothingToRefresh DEF NextUnprocessed
  <2> QED BY <1>8, <2>1, QuietStep DEF NextUnprocessed, disk, history, Quiet
<1>9. CASE MarkProcessed
  <2>1. current.offset \in Nat
    BY <1>9 DEF MarkProcessed, TypeOK
  <2>2. /\ log'.segments = log.segments /\ log'.active = log.active
        /\ log'.nextIdx = log.nextIdx /\ log'.index = log.index
    BY <1>9, <2>1, LogType, AdvanceConsumedType, SetCursorWellFormed
       DEF MarkProcessed, SaveCursor
  <2> QED BY <1>9, <2>2, QuietStep DEF MarkProcessed, Quiet
<1>10. CASE MarkPostProcessed
  <2>1. current.offset \in Nat
    BY <1>10 DEF MarkPostProcessed, TypeOK
  <2>2. /\ log'.segments = log.segments /\ log'.active = log.active
        /\ log'.nextIdx = log.nextIdx /\ log'.index = log.index
    BY <1>10, <2>1, LogType, AdvancePostProcessedType, SetCursorWellFormed
       DEF MarkPostProcessed, SaveCursor
  <2> QED BY <1>10, <2>2, QuietStep DEF MarkPostProcessed, history, Quiet
<1>11. CASE DeadLetterWrite
  BY <1>11, QuietStep DEF DeadLetterWrite, history, Quiet
<1>12. CASE DeadLetterAdvance
  <2>1. current.offset \in Nat
    BY <1>12 DEF DeadLetterAdvance, ContentOK, DeadLetterOK, TypeOK
  <2>2. /\ log'.segments = log.segments /\ log'.active = log.active
        /\ log'.nextIdx = log.nextIdx /\ log'.index = log.index
    BY <1>12, <2>1, LogType, AdvanceConsumedType, SetCursorWellFormed
       DEF DeadLetterAdvance, SaveCursor
  <2> QED BY <1>12, <2>2, QuietStep DEF DeadLetterAdvance, history, Quiet
<1>13. CASE SnapshotBegin
  BY <1>13, QuietStep DEF SnapshotBegin, disk, history, Quiet
<1>14. CASE SnapshotCopy
  <2>1. pending' \subseteq DOMAIN log.segments
    BY <1>14 DEF SnapshotCopy, SnapshotOK
  <2> QED BY <1>14, <2>1, QuietStep DEF SnapshotCopy, disk, history, Quiet
<1>15. CASE SnapshotPublish
  BY <1>15, QuietStep DEF SnapshotPublish, history, Quiet
<1>16. CASE SnapshotFail
  BY <1>16, QuietStep DEF SnapshotFail, disk, history, Quiet
<1>17. CASE TruncateBegin
  BY <1>17 DEF TruncateBegin, disk, DiskOK, LogOK, RecoverOK, OpenOK, SnapshotOK,
               TruncateOK, Up
<1>18. CASE TruncateRemove
  BY <1>18 DEF TruncateRemove, DiskOK, LogOK, RecoverOK, OpenOK, SnapshotOK,
               TruncateOK, Up
<1>19. CASE TruncateReset
  <2>1. /\ stream' = stream /\ DOMAIN stream = {} /\ appended' = <<>> /\ phase' = "open"
        /\ log'.segments = <<>> /\ log'.index = <<>> /\ log'.nextIdx = 0 /\ log'.active = 0
    BY <1>19 DEF TruncateReset, RestartHistory, TruncateOK, EmptyLog
  <2>2. DiskOK'
    BY <2>1 DEF DiskOK, FilesHoldStream, FilesTile
  <2>3. LogOK'
    <3>1. Visited' = {}
      BY <2>1 DEF Visited
    <3>2. DOMAIN log'.segments = {} /\ DOMAIN log'.index = {} /\ Len(log'.index) = 0
      BY <2>1
    <3> QED BY <2>1, <3>1, <3>2 DEF LogOK, SegmentsOK, SizesOK, IndexOK
  <2>4. OpenOK'
    BY <2>1 DEF OpenOK
  <2> QED BY <2>1, <2>2, <2>3, <2>4 DEF RecoverOK, SnapshotOK, TruncateOK
<1>20. CASE UNCHANGED vars
  <2>1. DiskOK'
    BY <1>20 DEF vars, DiskOK, FilesHoldStream, FilesTile, End
  <2>2. LogOK'
    BY <1>20 DEF vars, LogOK, SegmentsOK, SizesOK, IndexOK, Visited, Up
  <2>3. RecoverOK' /\ OpenOK'
    BY <1>20 DEF vars, RecoverOK, OpenOK, IsNext, Up
  <2> QED BY <1>20, <2>1, <2>2, <2>3 DEF vars, SnapshotOK, TruncateOK
<1> QED
  BY <1>1, <1>2, <1>3, <1>4, <1>5, <1>6, <1>7, <1>8, <1>9, <1>10, <1>11, <1>12,
     <1>13, <1>14, <1>15, <1>16, <1>17, <1>18, <1>19, <1>20 DEF Next
-----------------------------------------------------------------------------
(* The cursors and the offsets handed out stay right *)

\* A step of recovery, of Append before the write, or of Snapshot touches
\* neither cursor, nor the caller's message, nor the history.
LEMMA ContentFrame ==
    ASSUME IInv, Up, phase' \notin {"down", "truncating", "deadlettering"},
           log'.cur = log.cur, cursorFile' = cursorFile, dead' = dead,
           current' = current, UNCHANGED history
    PROVE  ContentOK'
BY DEF IInv, ContentOK, CursorOK, Handled, PostBehindConsumed, DeadLetterOK,
       AckedOK, StrictAppendOrder, Up, history

\* The cursor passes a message that is now handled, in memory and, if the
\* save succeeds, on disk.
LEMMA ConsumeStep ==
    ASSUME IInv, phase \in {"open", "deadlettering"}, phase' = "open",
           current # None, current.offset = log.cur.consumed,
           SaveCursor(AdvanceConsumed(log.cur, current.offset)),
           appended' = appended, acked' = acked, current' = current, dead' = dead,
           processed \subseteq processed', Handled(current.offset)'
    PROVE  ContentOK'
<1> USE DEF IInv, ContentOK
<1> DEFINE c == AdvanceConsumed(log.cur, current.offset)
<1>1. current.offset \in Nat /\ current.offset < Len(appended) /\ Len(appended) \in Nat
  BY DEF TypeOK, StrictAppendOrder
<1>2. /\ c.consumed = log.cur.consumed + 1 /\ c.postProcessed = log.cur.postProcessed
      /\ c \in CursorState /\ log.cur.consumed \in Nat /\ log.cur.postProcessed \in Nat
  <2>1. log.cur \in CursorState /\ log.cur.consumed \in Nat /\ log.cur.postProcessed \in Nat
    BY LogType
  <2>2. /\ c \in CursorState /\ c.postProcessed = log.cur.postProcessed
        /\ c.consumed = IF current.offset + 1 > log.cur.consumed
                        THEN current.offset + 1 ELSE log.cur.consumed
    BY <1>1, <2>1, AdvanceConsumedType
  <2> HIDE DEF c
  <2> QED BY <1>1, <2>1, <2>2
<1>3. log'.cur = c /\ cursorFile' \in {cursorFile, c}
  BY <1>2, LogType, SetCursorWellFormed DEF SaveCursor
<1> HIDE DEF c
<1>4. /\ log.cur.consumed <= Len(appended)
      /\ \A o \in 0..log.cur.consumed - 1 : Handled(o)
      /\ log.cur.postProcessed > 0 => log.cur.postProcessed < log.cur.consumed
      /\ cursorFile.consumed <= Len(appended)
      /\ \A o \in 0..cursorFile.consumed - 1 : Handled(o)
  BY DEF CursorOK, Up
<1>5. \A o \in Nat : Handled(o) => Handled(o)'
  BY DEF Handled
<1>6. \A o \in 0..c.consumed - 1 : Handled(o)'
  <2> SUFFICES ASSUME NEW o \in 0..c.consumed - 1 PROVE Handled(o)'
    OBVIOUS
  <2>1. CASE o = log.cur.consumed
    <3>1. o = current.offset
      BY <2>1
    <3> QED BY <3>1 DEF Handled
  <2>2. CASE o # log.cur.consumed
    <3>1. o \in 0..log.cur.consumed - 1 /\ o \in Nat
      BY <1>2, <2>2
    <3> QED BY <1>4, <1>5, <3>1
  <2> QED BY <2>1, <2>2
<1>7. /\ cursorFile'.consumed <= Len(appended)
      /\ \A o \in 0..cursorFile'.consumed - 1 : Handled(o)'
  <2>1. CASE cursorFile' = c
    BY <1>1, <1>2, <1>6, <2>1
  <2>2. CASE cursorFile' = cursorFile
    <3>1. cursorFile.consumed \in Nat
      BY DEF TypeOK, CursorState
    <3>2. \A o \in 0..cursorFile.consumed - 1 : o \in Nat
      BY <3>1
    <3> QED BY <1>4, <1>5, <2>2, <3>2
  <2> QED BY <1>3, <2>1, <2>2
<1>8. log'.cur.postProcessed > 0 => log'.cur.postProcessed < log'.cur.consumed
  BY <1>2, <1>3, <1>4
<1>9. CursorOK'
  BY <1>1, <1>2, <1>3, <1>6, <1>7, <1>8 DEF CursorOK
<1>10. PostBehindConsumed'
  BY <1>3, <1>8 DEF PostBehindConsumed
<1> QED BY <1>9, <1>10 DEF DeadLetterOK, AckedOK, StrictAppendOrder

\* No step breaks what the cursors, the acknowledged offsets and the
\* caller's message say about the stream.
LEMMA ContentStep ==
    ASSUME IInv, [Next]_vars
    PROVE  ContentOK'
<1> USE DEF IInv, ContentOK
<1>1. CASE Crash
  BY <1>1 DEF Crash, ProcessEnds, disk, history, CursorOK, Handled, PostBehindConsumed,
              DeadLetterOK, AckedOK, StrictAppendOrder, Up
<1>2. CASE Open
  <2>1. log'.cur = cursorFile
    BY <1>2 DEF Open, EmptyLog
  <2> QED BY <1>2, <2>1 DEF Open, disk, history, CursorOK, Handled, PostBehindConsumed,
              DeadLetterOK, AckedOK, StrictAppendOrder, Up
<1>3. CASE RecoverSegment
  <2>1. PICK base \in pending :
          log' = LET grown == AddSegment(log, base, stream[base])
                 IN  IF pending = {base}
                     THEN [grown EXCEPT !.active = Len(grown.segments)] ELSE grown
    BY <1>3 DEF RecoverSegment
  <2> DEFINE grown == AddSegment(log, base, stream[base])
  <2>2. grown.cur = log.cur /\ [grown EXCEPT !.active = Len(grown.segments)].cur = grown.cur
    BY LogType DEF AddSegment, WellFormed, Log
  <2>3. log'.cur = log.cur
    BY <2>1, <2>2
  <2> QED BY <1>3, <2>3, ContentFrame DEF RecoverSegment, disk, Up
<1>4. CASE RecoverDone
  BY <1>4, ContentFrame DEF RecoverDone, disk, Up
<1>5. ASSUME NEW m \in Msgs, AppendBegin(m)
      PROVE  ContentOK'
  <2>1. log'.cur = log.cur
    BY <1>5, LogType, RollSegmentWellFormed DEF AppendBegin
  <2> QED BY <1>5, <2>1, ContentFrame DEF AppendBegin, Up
<1>6. CASE AppendWrite
  <2>1. /\ phase = "writing" /\ phase' = "syncing" /\ log' = log /\ cursorFile' = cursorFile
        /\ dead' = dead /\ processed' = processed /\ current' = current /\ acked' = acked
        /\ appended' = Append(appended, payload) /\ Up
    BY <1>6 DEF AppendWrite, Up
  <2>2. /\ Len(appended) \in Nat /\ Len(appended') = Len(appended) + 1
        /\ \A i \in 1..Len(appended) : appended'[i] = appended[i]
    BY <2>1, AppendProperties DEF TypeOK, StructureOK, OpenOK
  <2>3. \A o \in 0..Len(appended) - 1 : appended'[o + 1] = appended[o + 1]
    BY <2>2
  <2>4. \A o \in 0..Len(appended) - 1 : Handled(o) => Handled(o)'
    BY <2>1, <2>3 DEF Handled
  <2>5. cursorFile.consumed \in Nat /\ log.cur.consumed \in Nat
    BY LogType DEF TypeOK, CursorState
  <2>6. CursorOK'
    BY <2>1, <2>2, <2>4, <2>5 DEF CursorOK
  <2>7. AckedOK'
    <3>1. \A a \in acked : a.offset \in Nat
      BY DEF TypeOK
    <3> QED BY <2>1, <2>2, <2>3, <3>1 DEF AckedOK
  <2>8. StrictAppendOrder'
    <3>1. current # None => current.offset \in Nat
      BY DEF TypeOK
    <3> QED BY <2>1, <2>2, <2>3, <3>1 DEF StrictAppendOrder
  <2> QED BY <2>1, <2>6, <2>7, <2>8 DEF PostBehindConsumed, DeadLetterOK
<1>7. CASE AppendReturn
  <2>1. /\ phase = "syncing" /\ phase' = "open" /\ log' = IndexAppended(log)
        /\ cursorFile' = cursorFile /\ dead' = dead /\ current' = current
        /\ appended' = appended /\ processed' = processed /\ Up
        /\ acked' = acked \cup {[offset |-> log.nextIdx, msg |-> payload]}
    BY <1>7 DEF AppendReturn, disk, Up
  <2>2. log'.cur = log.cur
    BY <2>1, LogType DEF IndexAppended, WellFormed, Log
  <2>3. log.nextIdx + 1 = Len(appended) /\ payload = appended[log.nextIdx + 1]
    BY <2>1, LogType DEF StructureOK, OpenOK
  <2>4. AckedOK'
    <3>1. log.nextIdx < Len(appended)
      BY <2>3, LogType
    <3> QED BY <2>1, <2>3, <3>1 DEF AckedOK
  <2>5. CursorOK'
    BY <2>1, <2>2 DEF CursorOK, Handled, Up
  <2> QED BY <2>1, <2>4, <2>5 DEF PostBehindConsumed, DeadLetterOK, StrictAppendOrder
<1>8. CASE NextUnprocessed
  <2>1. log' = log
    BY <1>8, NothingToRefresh DEF NextUnprocessed
  <2>2. log.cur.consumed < Len(appended) /\ log.cur.consumed \in Nat
    BY <1>8, <2>1, LogType DEF NextUnprocessed, StructureOK, OpenOK, Up
  <2>3. current' = [offset |-> log.cur.consumed, msg |-> appended[log.cur.consumed + 1]]
    BY <1>8, <2>1, <2>2, IndexedMessage DEF NextUnprocessed
  <2>4. StrictAppendOrder'
    BY <1>8, <2>2, <2>3 DEF NextUnprocessed, history, StrictAppendOrder
  <2> QED BY <1>8, <2>1, <2>4 DEF NextUnprocessed, disk, history, CursorOK, Handled,
          PostBehindConsumed, DeadLetterOK, AckedOK, Up
<1>9. CASE MarkProcessed
  <2>1. Handled(current.offset)'
    BY <1>9 DEF MarkProcessed, Handled
  <2> QED BY <1>9, <2>1, ConsumeStep DEF MarkProcessed
<1>10. CASE MarkPostProcessed
  <2> DEFINE c == AdvancePostProcessed(log.cur, current.offset)
  <2>1. current.offset \in Nat /\ current.offset < log.cur.consumed
    BY <1>10 DEF MarkPostProcessed, TypeOK
  <2>2. /\ c \in CursorState /\ c.consumed = log.cur.consumed
        /\ c.postProcessed = IF current.offset > log.cur.postProcessed
                              THEN current.offset ELSE log.cur.postProcessed
    BY <2>1, LogType, AdvancePostProcessedType
  <2>3. log'.cur = c /\ cursorFile' \in {cursorFile, c}
    BY <1>10, <2>2, LogType, SetCursorWellFormed DEF MarkPostProcessed, SaveCursor
  <2> HIDE DEF c
  <2>4. Up /\ UNCHANGED <<phase, current, dead, appended, acked, processed>>
    BY <1>10 DEF MarkPostProcessed, history, Up
  <2>5. c.postProcessed > 0 => c.postProcessed < c.consumed
    BY <2>1, <2>2, <2>4, LogType DEF CursorOK
  <2>6. CursorOK'
    BY <2>2, <2>3, <2>4, <2>5 DEF CursorOK, Handled, Up
  <2>7. PostBehindConsumed'
    BY <2>3, <2>5 DEF PostBehindConsumed
  <2> QED BY <1>10, <2>4, <2>6, <2>7
      DEF MarkPostProcessed, DeadLetterOK, AckedOK, StrictAppendOrder
<1>11. CASE DeadLetterWrite
  <2>1. /\ phase = "open" /\ phase' = "deadlettering" /\ dead' = Append(dead, current.msg)
        /\ current # None /\ current.offset = log.cur.consumed /\ Up
        /\ UNCHANGED <<cursorFile, log, current, appended, acked, processed>>
    BY <1>11 DEF DeadLetterWrite, history, Up
  <2>2. ToSet(dead) \subseteq ToSet(dead') /\ current.msg \in ToSet(dead')
    <3>1. current.msg \in Msgs /\ dead \in Seq(Msgs)
      BY <2>1 DEF TypeOK
    <3>2. /\ Len(dead') = Len(dead) + 1 /\ dead'[Len(dead) + 1] = current.msg
          /\ \A i \in 1..Len(dead) : dead'[i] = dead[i]
          /\ dead' \in Seq(Msgs) /\ Len(dead) \in Nat
      BY <2>1, <3>1, AppendProperties, LenProperties
    <3>3. DOMAIN dead = 1..Len(dead) /\ DOMAIN dead' = 1..Len(dead) + 1
      BY <3>1, <3>2, LenProperties
    <3> QED BY <3>2, <3>3 DEF ToSet
  <2>3. CursorOK'
    BY <2>1, <2>2 DEF CursorOK, Handled, Up
  <2> QED BY <2>1, <2>2, <2>3 DEF PostBehindConsumed, DeadLetterOK, AckedOK, StrictAppendOrder
<1>12. CASE DeadLetterAdvance
  <2>1. /\ current # None /\ current.offset = log.cur.consumed
        /\ current.msg \in ToSet(dead)
    BY <1>12 DEF DeadLetterAdvance, DeadLetterOK
  <2>2. Handled(current.offset)'
    BY <1>12, <2>1 DEF DeadLetterAdvance, history, StrictAppendOrder, Handled
  <2> QED BY <1>12, <2>1, <2>2, ConsumeStep DEF DeadLetterAdvance, history
<1>13. CASE SnapshotBegin
  BY <1>13, ContentFrame DEF SnapshotBegin, disk, Up
<1>14. CASE SnapshotCopy
  BY <1>14, ContentFrame DEF SnapshotCopy, disk, Up
<1>15. CASE SnapshotPublish
  BY <1>15, ContentFrame DEF SnapshotPublish, Up
<1>16. CASE SnapshotFail
  BY <1>16, ContentFrame DEF SnapshotFail, disk, Up
<1>17. CASE TruncateBegin
  BY <1>17 DEF TruncateBegin, disk, history, CursorOK, PostBehindConsumed,
               DeadLetterOK, AckedOK, StrictAppendOrder, Up
<1>18. CASE TruncateRemove
  BY <1>18 DEF TruncateRemove, history, CursorOK, PostBehindConsumed,
               DeadLetterOK, AckedOK, StrictAppendOrder, Up
<1>19. CASE TruncateReset
  BY <1>19 DEF TruncateReset, RestartHistory, EmptyLog, ZeroCursor, CursorOK,
               PostBehindConsumed, DeadLetterOK, AckedOK, StrictAppendOrder
<1>20. CASE UNCHANGED vars
  BY <1>20 DEF vars, CursorOK, Handled, PostBehindConsumed, DeadLetterOK, AckedOK,
               StrictAppendOrder, Up
<1> QED
  BY <1>1, <1>2, <1>3, <1>4, <1>5, <1>6, <1>7, <1>8, <1>9, <1>10, <1>11, <1>12,
     <1>13, <1>14, <1>15, <1>16, <1>17, <1>18, <1>19, <1>20 DEF Next

-----------------------------------------------------------------------------
(* The theorems *)

\* The inductive invariant holds in an empty directory before the first Open.
LEMMA IInvInit == Init => IInv
<1> SUFFICES ASSUME Init PROVE IInv
  OBVIOUS
<1>1. TypeOK
  <2>1. WellFormed(EmptyLog(ZeroCursor)) /\ ZeroCursor \in CursorState
    BY EmptyLogWellFormed DEF CursorState, ZeroCursor
  <2> QED BY <2>1, EmptySeq DEF Init, TypeOK, Phases
<1>2. StructureOK
  BY DEF Init, StructureOK, DiskOK, FilesHoldStream, FilesTile, LogOK, RecoverOK,
         OpenOK, SnapshotOK, TruncateOK, Up
<1>3. ContentOK
  BY DEF Init, ContentOK, CursorOK, PostBehindConsumed, DeadLetterOK, AckedOK,
         StrictAppendOrder, ZeroCursor, Up
<1> QED BY <1>1, <1>2, <1>3 DEF IInv

\* The inductive invariant holds in every state of the log.
THEOREM Invariance == Spec => []IInv
<1>1. IInv /\ [Next]_vars => IInv'
  BY TypeStep, StructureStep, ContentStep DEF IInv
<1> QED BY IInvInit, <1>1, PTL DEF Spec

\* Every variable of the log keeps its type (wal.go, segment.go).
THEOREM TypeCorrect == Spec => []TypeOK
<1>1. IInv => TypeOK
  BY DEF IInv
<1> QED BY Invariance, <1>1, PTL

\* NextUnprocessed returns the messages in strict append order, whatever
\* rolls, recoveries and truncations came before (store.go).
THEOREM AppendOrder == Spec => []StrictAppendOrder
<1>1. IInv => StrictAppendOrder
  BY DEF IInv, ContentOK
<1> QED BY Invariance, <1>1, PTL

\* An unconsumed message can always be delivered: the index lookup of
\* NextUnprocessed neither panics nor returns an error (wal.go).
THEOREM NextReadable == Spec => []NextIsReadable
<1>1. IInv => NextIsReadable
  <2> SUFFICES ASSUME IInv, phase = "open", log.cur.consumed < Len(appended)
               PROVE  /\ log.cur.consumed < log.nextIdx
                      /\ Readable(log, stream, log.cur.consumed)
    BY DEF NextIsReadable
  <2>1. log.nextIdx = Len(appended) /\ log.cur.consumed \in Nat
    BY LogType DEF IInv, StructureOK, OpenOK, Up
  <2> QED BY <2>1, IndexedMessage DEF IInv
<1> QED BY Invariance, <1>1, PTL

\* A message that Append has acknowledged stays at its offset (wal.go).
THEOREM AckedDurable == Spec => []AckedStays
<1>1. IInv => AckedStays
  <2> SUFFICES ASSUME IInv, phase = "open", NEW a \in acked
               PROVE  /\ Readable(log, stream, a.offset)
                      /\ MessageAt(log, stream, a.offset) = a.msg
    BY DEF AckedStays
  <2>1. a.offset \in Nat /\ a.offset < Len(appended) /\ a.msg = appended[a.offset + 1]
    BY DEF IInv, ContentOK, AckedOK, TypeOK
  <2> QED BY <2>1, IndexedMessage DEF IInv
<1> QED BY Invariance, <1>1, PTL

\* Nothing before the durable cursor was skipped (wal.go MarkProcessed,
\* retention.go DeadLetter).
THEOREM NoSkip == Spec => []NothingSkipped
<1>1. IInv => NothingSkipped
  BY DEF IInv, ContentOK, CursorOK, Handled, NothingSkipped
<1> QED BY Invariance, <1>1, PTL

\* The durable cursor never counts a message as post-processed that it does
\* not count as consumed (wal.go MarkPostProcessed).
THEOREM PostBehind == Spec => []PostBehindConsumed
<1>1. IInv => PostBehindConsumed
  BY DEF IInv, ContentOK
<1> QED BY Invariance, <1>1, PTL
==============================================================================
