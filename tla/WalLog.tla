------------------------------- MODULE WalLog -------------------------------
(***************************************************************************)
(* The data of the write-ahead log of pkg/wal and the steps its operations *)
(* make on it: segment files (segment.go, record.go) and the Log structure *)
(* one process keeps in memory (wal.go).                                   *)
(*                                                                         *)
(* A segment file is a sequence of records.  A record whose write was cut  *)
(* short has missing > 0: so many records' worth of bytes have to follow   *)
(* before a reader takes its length for granted, reads on into them and    *)
(* finds a wrong checksum.  A record counts as one unit of size.           *)
(*                                                                         *)
(* A Log has the fields of the Go structure: segments, sorted as they were *)
(* added; active, the position of the writable one, 0 for nil; nextIdx;    *)
(* index, where entry o + 1 says in which segment and at which record      *)
(* (counted from 0) offset o is; and the cursor cur.                       *)
(***************************************************************************)
EXTENDS Integers, Sequences, FiniteSetsExt, SequencesExt

CONSTANTS
    Msgs,         \* the message payloads
    SegmentSize   \* records per segment before the log rolls to a new one

ASSUME SegmentSizeAssumption == SegmentSize \in Nat \ {0}

Record == [msg : Msgs, missing : Nat]
CursorState == [consumed : Nat, postProcessed : Nat]
Segment == [base : Nat, size : Nat]
IndexEntry == [seg : Nat, rec : Nat]
Log == [segments : Seq(Segment),
        active   : Nat,
        nextIdx  : Nat,
        index    : Seq(IndexEntry),
        cur      : CursorState]

\* The positions a Log keeps are positions of its segment list.
WellFormed(log) ==
    /\ log \in Log
    /\ log.active <= Len(log.segments)
    /\ \A o \in DOMAIN log.index : log.index[o].seg \in DOMAIN log.segments

ZeroCursor == [consumed |-> 0, postProcessed |-> 0]
EmptyLog(cur) ==
    [segments |-> <<>>, active |-> 0, nextIdx |-> 0, index |-> <<>>, cur |-> cur]

-----------------------------------------------------------------------------
(* Segment files *)

Whole(m) == [msg |-> m, missing |-> 0]
Torn(file) == {i \in DOMAIN file : file[i].missing > 0}
Messages(file) == [i \in 1..Len(file) |-> file[i].msg]

\* A reader meets the first torn record: with enough bytes behind it the
\* checksum is wrong, with fewer the file seems to end there.
Corrupt(file) ==
    \E i \in Torn(file) :
        /\ \A j \in Torn(file) : i <= j
        /\ Len(file) - i >= file[i].missing

\* The records readAll returns when it meets no wrong checksum.
ReadAll(file) ==
    IF Torn(file) = {} THEN file ELSE SubSeq(file, 1, Min(Torn(file)) - 1)

\* createSegment opens the file with O_CREATE: one that is there stays.
CreateFile(files, base) ==
    [b \in DOMAIN files \cup {base} |-> IF b \in DOMAIN files THEN files[b] ELSE <<>>]

-----------------------------------------------------------------------------
(* The Log in memory *)

Entries(seg, first, count) ==
    [i \in 1..count |-> [seg |-> seg, rec |-> first + i - 1]]

\* Mutant: the record numbers of a segment start at 1.
AddSegmentRecordsFromOne(log, base, file) ==
    LET seg == Len(log.segments) + 1
        count == Len(ReadAll(file))
    IN  [log EXCEPT !.segments = Append(@, [base |-> base, size |-> Len(file)]),
                    !.index = @ \o Entries(seg, 1, count),
                    !.nextIdx = IF base + count > @ THEN base + count ELSE @]

\* Mutant: the segment's position is taken as if it were in the list already.
AddSegmentPositionTooHigh(log, base, file) ==
    LET seg == Len(log.segments) + 2
        count == Len(ReadAll(file))
    IN  [log EXCEPT !.segments = Append(@, [base |-> base, size |-> Len(file)]),
                    !.index = @ \o Entries(seg, 0, count),
                    !.nextIdx = IF base + count > @ THEN base + count ELSE @]

\* The loop body that recover and refresh share: a segment file the Log does
\* not know yet is read and indexed.
AddSegment(log, base, file) ==
    LET seg == Len(log.segments) + 1
        count == Len(ReadAll(file))
    IN  [log EXCEPT !.segments = Append(@, [base |-> base, size |-> Len(file)]),
                    !.index = @ \o Entries(seg, 0, count),
                    !.nextIdx = IF base + count > @ THEN base + count ELSE @]

\* refresh reads the last segment of the list again and indexes what others
\* have appended to it.
Reread(log, file) ==
    LET seg == Len(log.segments)
        base == log.segments[seg].base
        known == log.nextIdx - base
        count == Len(ReadAll(file))
    IN  IF count <= known THEN log
        ELSE [log EXCEPT !.segments[seg].size = Len(file),
                         !.index = @ \o Entries(seg, known, count - known),
                         !.nextIdx = base + count]

\* The segments a directory holds that the Log does not know.
UnknownSegments(log, files) ==
    DOMAIN files \ {log.segments[s].base : s \in DOMAIN log.segments}

\* refresh's loop over the files it does not know, in ascending order: the
\* highest base comes last.
AddSegments(log, files, bases) ==
    MapThenFoldSet(LAMBDA base, l : AddSegment(l, base, files[base]), log,
                   LAMBDA base : base, Max, bases)

\* Mutant: the directory is scanned for new segments only.
RefreshNewOnly(log, files) == AddSegments(log, files, UnknownSegments(log, files))

\* The unknown segments are added, then the last of the list is read again.
Refresh(log, files) ==
    LET unknown == UnknownSegments(log, files)
        grown == IF unknown = {} THEN log ELSE AddSegments(log, files, unknown)
    IN  IF grown.segments = <<>> THEN grown
        ELSE Reread(grown, files[Last(grown.segments).base])

NeedsRoll(log) ==
    \/ log.active = 0
    \/ log.segments[log.active].size >= SegmentSize

\* A new active segment, named after the next offset.
RollSegment(log) ==
    [log EXCEPT !.segments = Append(@, [base |-> log.nextIdx, size |-> 0]),
                !.active = Len(log.segments) + 1]

\* Mutant: the record number counts from the whole log's start.
IndexAppendedByOffset(log) ==
    [log EXCEPT !.segments[log.active].size = @ + 1,
                !.index = Append(@, [seg |-> Len(log.segments), rec |-> log.nextIdx]),
                !.nextIdx = @ + 1]

\* Mutant: the segment's position is one past the list.
IndexAppendedPositionTooHigh(log) ==
    [log EXCEPT !.segments[log.active].size = @ + 1,
                !.index = Append(@, [seg |-> Len(log.segments) + 1,
                                     rec |-> log.nextIdx - log.segments[log.active].base]),
                !.nextIdx = @ + 1]

\* A record is in the active segment: Append indexes it under its offset.
IndexAppended(log) ==
    [log EXCEPT !.segments[log.active].size = @ + 1,
                !.index = Append(@, [seg |-> Len(log.segments),
                                     rec |-> log.nextIdx - log.segments[log.active].base]),
                !.nextIdx = @ + 1]

\* The offset's index entry exists and leads to a record that can be read.
Readable(log, files, offset) ==
    /\ offset < Len(log.index)
    /\ LET entry == log.index[offset + 1]
           file == files[log.segments[entry.seg].base]
       IN  ~Corrupt(file) /\ entry.rec < Len(ReadAll(file))

\* The message the index finds for the offset.
MessageAt(log, files, offset) ==
    LET entry == log.index[offset + 1]
    IN  ReadAll(files[log.segments[entry.seg].base])[entry.rec + 1].msg

-----------------------------------------------------------------------------
(* The cursor *)

AdvanceConsumed(c, offset) ==
    IF offset + 1 > c.consumed THEN [c EXCEPT !.consumed = offset + 1] ELSE c

AdvancePostProcessed(c, offset) ==
    IF offset > c.postProcessed THEN [c EXCEPT !.postProcessed = offset] ELSE c
=============================================================================
