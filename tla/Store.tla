-------------------------------- MODULE Store --------------------------------
(***************************************************************************)
(* What pkg/store promises: one stream of messages, consumed in order      *)
(* through a cursor that survives a restart.  This is the abstract side:   *)
(* module Wal is shown to implement it, module Lifecycle composes it with  *)
(* the message pump.                                                       *)
(*                                                                         *)
(* An action that saves the cursor may fail to: the cursor in memory then  *)
(* runs ahead of the saved one until a later save or a restart.            *)
(***************************************************************************)
EXTENDS Naturals, Sequences, Functions

CONSTANTS
    Msgs,         \* the message payloads
    MaxMessages,  \* retention: the limit on the consumed count, 0 for none
    MaxBytes,     \* retention: the limit on the stream's size, in records, 0 for none
    None          \* no message is being handled

ASSUME StoreAssumption == /\ MaxMessages \in Nat
                          /\ MaxBytes \in Nat

VARIABLES
    stream,       \* the messages appended since the last truncation
    cur,          \* the cursor in memory
    saved,        \* the cursor a restart will find
    dead,         \* the dead-lettered messages
    snapshot,     \* the messages in the snapshot published last
    current       \* the message NextUnprocessed returned last, or None

storeVars == <<stream, cur, saved, dead, snapshot, current>>

CursorState == [consumed : Nat, postProcessed : Nat]
ZeroCursor == [consumed |-> 0, postProcessed |-> 0]

StoreTypeOK ==
    /\ stream \in Seq(Msgs)
    /\ cur \in CursorState
    /\ saved \in CursorState
    /\ dead \in Seq(Msgs)
    /\ snapshot \in Seq(Msgs)
    /\ current \in {None} \cup [offset : Nat, msg : Msgs]

StoreInit ==
    /\ stream = <<>>
    /\ cur = ZeroCursor
    /\ saved = ZeroCursor
    /\ dead = <<>>
    /\ snapshot = <<>>
    /\ current = None

\* The consumed cursor passes offset; it never moves back.
AdvanceConsumed(c, offset) ==
    IF offset + 1 > c.consumed THEN [c EXCEPT !.consumed = offset + 1] ELSE c

\* The highest post-processed offset.
AdvancePostProcessed(c, offset) ==
    IF offset > c.postProcessed THEN [c EXCEPT !.postProcessed = offset] ELSE c

\* The cursor moves to c in memory, and on disk if the save succeeds.
SaveCursor(c) ==
    /\ cur' = c
    /\ saved' \in {saved, c}

AppendMessage(m) ==
    /\ stream' = Append(stream, m)
    /\ UNCHANGED <<cur, saved, dead, snapshot, current>>

\* Mutant: the message handed out is the one after the cursor's.
SkipOneMessage ==
    /\ cur.consumed + 1 < Len(stream)
    /\ current' = [offset |-> cur.consumed, msg |-> stream[cur.consumed + 2]]
    /\ UNCHANGED <<stream, cur, saved, dead, snapshot>>

\* The first message not consumed, if there is one.
NextUnprocessed ==
    /\ cur.consumed < Len(stream)
    /\ current' = [offset |-> cur.consumed, msg |-> stream[cur.consumed + 1]]
    /\ UNCHANGED <<stream, cur, saved, dead, snapshot>>

MarkProcessed ==
    /\ current # None
    /\ SaveCursor(AdvanceConsumed(cur, current.offset))
    /\ UNCHANGED <<stream, dead, snapshot, current>>

MarkPostProcessed ==
    /\ current # None
    /\ SaveCursor(AdvancePostProcessed(cur, current.offset))
    /\ UNCHANGED <<stream, dead, snapshot, current>>

\* DeadLetter first makes the message durable among the dead ...
DeadLetterWrite ==
    /\ current # None
    /\ dead' = Append(dead, current.msg)
    /\ UNCHANGED <<stream, cur, saved, snapshot, current>>

\* ... and only then moves the cursor past it.
DeadLetterAdvance ==
    /\ current # None
    /\ current.msg \in Range(dead)
    /\ SaveCursor(AdvanceConsumed(cur, current.offset))
    /\ UNCHANGED <<stream, dead, snapshot, current>>

Snapshot ==
    /\ snapshot' = stream
    /\ UNCHANGED <<stream, cur, saved, dead, current>>

Truncate ==
    /\ stream' = <<>>
    /\ cur' = ZeroCursor
    /\ saved' = ZeroCursor
    /\ current' = None
    /\ UNCHANGED <<dead, snapshot>>

\* The process using the store ends and a new one opens it.
Restart ==
    /\ cur' = saved
    /\ current' = None
    /\ UNCHANGED <<stream, saved, dead, snapshot>>

\* The limits, for a Log that knows of size records.
RetentionExceeded(size) ==
    \/ MaxMessages > 0 /\ cur.consumed > MaxMessages
    \/ MaxBytes > 0 /\ size > MaxBytes

StoreNext ==
    \/ \E m \in Msgs : AppendMessage(m)
    \/ NextUnprocessed
    \/ MarkProcessed
    \/ MarkPostProcessed
    \/ DeadLetterWrite
    \/ DeadLetterAdvance
    \/ Snapshot
    \/ Truncate
    \/ Restart

StoreSpec == StoreInit /\ [][StoreNext]_storeVars
==============================================================================
