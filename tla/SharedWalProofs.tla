--------------------------- MODULE SharedWalProofs ---------------------------
(***************************************************************************)
(* SharedWal's invariants, for every number of senders, every set of       *)
(* messages and every bound.                                               *)
(*                                                                         *)
(* IInv is inductive without any condition and gives the types.  SentInv   *)
(* adds what AckedAtOrAfter needs: up to the first truncation no offset in *)
(* use is beyond the stream.  SegmentInv adds what StrictAppendOrder and   *)
(* NothingSkipped need: they hold from the start, and from each            *)
(* truncation, until a sender rolls a full segment.  MCSharedWalRoll shows *)
(* what can happen when one does.                                          *)
(***************************************************************************)
EXTENDS SharedWal, WalLogProofs

-----------------------------------------------------------------------------
(* The inductive invariant *)

\* Every file of the stream holds whole records: no write is cut short here.
StreamOK ==
    /\ IsFiniteSet(DOMAIN stream)
    /\ DOMAIN stream \subseteq Nat
    /\ stream \in [DOMAIN stream -> Seq(Record)]
    /\ \A base \in DOMAIN stream : \A i \in DOMAIN stream[base] :
         stream[base][i].missing = 0

\* The files of the runtime's Log are there, since nobody else removes any; its
\* cursor is the saved one, and the message in hand is the one at the cursor.
RuntimeOK ==
    /\ WellFormed(log)
    /\ Behind(log)
    /\ \A i \in DOMAIN log.segments : log.segments[i].base \in DOMAIN stream
    /\ log.cur = cursorFile
    /\ current \in {None} \cup [offset : Nat, msg : Msgs]
    /\ current # None => up /\ current.offset = log.cur.consumed
    /\ exit \in {"none", "clean", "failure"}
    /\ due \in BOOLEAN
    /\ due => up /\ current = None /\ RetentionExceeded(log)

\* What a sender has at each place in its command.
SenderOK(s) ==
    /\ phase[s] \in Phases
    /\ WellFormed(logs[s])
    /\ Behind(logs[s])
    /\ pending[s] \subseteq Nat
    /\ fd[s] \in DOMAIN stream \cup {None}
    /\ payload[s] \in Msgs \cup {None}
    /\ phase[s] = "out" => logs[s] = EmptyLog(ZeroCursor)
    /\ phase[s] = "opening" => logs[s].segments # <<>>
    /\ phase[s] \in {"writing", "returning"} =>
         logs[s].active # 0 /\ payload[s] \in Msgs

SendersOK ==
    /\ phase = [s \in Senders |-> phase[s]]
    /\ logs = [s \in Senders |-> logs[s]]
    /\ pending = [s \in Senders |-> pending[s]]
    /\ fd = [s \in Senders |-> fd[s]]
    /\ payload = [s \in Senders |-> payload[s]]
    /\ \A s \in Senders : SenderOK(s)

HistoryOK ==
    /\ appended \in Seq(Msgs)
    /\ unlinked \subseteq Msgs
    /\ acked \subseteq [offset : Nat, msg : Msgs]
    /\ delivered \subseteq Msgs
    /\ dead \subseteq Msgs
    /\ rolled \in BOOLEAN
    /\ retained \subseteq Msgs
    /\ crashes \in 0..MaxCrashes

IInv == StreamOK /\ RuntimeOK /\ SendersOK /\ HistoryOK

-----------------------------------------------------------------------------
(* The files *)

\* What a reader of a file of the stream finds.
LEMMA StreamFiles ==
    ASSUME StreamOK, NEW base \in DOMAIN stream
    PROVE  /\ base \in Nat
           /\ stream[base] \in Seq(Record)
           /\ Len(stream[base]) \in Nat
           /\ DOMAIN stream[base] = 1..Len(stream[base])
           /\ ReadAll(stream[base]) = stream[base]
           /\ ~Corrupt(stream[base])
<1>1. base \in Nat /\ stream[base] \in Seq(Record)
  BY DEF StreamOK
<1>2. \A i \in DOMAIN stream[base] : stream[base][i].missing = 0
  BY DEF StreamOK
<1>3. ReadAll(stream[base]) = stream[base] /\ ~Corrupt(stream[base])
  BY <1>2, ReadWholeFile
<1> QED BY <1>1, <1>3, LenProperties

\* createSegment leaves the files that are there as they are.
LEMMA CreateFileOK ==
    ASSUME StreamOK, NEW base \in Nat, stream' = CreateFile(stream, base)
    PROVE  StreamOK' /\ DOMAIN stream' = DOMAIN stream \cup {base}
<1>1. DOMAIN stream' = DOMAIN stream \cup {base}
  BY DEF CreateFile
<1>2. \A b \in DOMAIN stream' :
        stream'[b] = IF b \in DOMAIN stream THEN stream[b] ELSE <<>>
  BY DEF CreateFile
<1>3. IsFiniteSet(DOMAIN stream')
  BY <1>1, FS_AddElement DEF StreamOK
<1>4. \A b \in DOMAIN stream' : stream'[b] \in Seq(Record)
  BY <1>1, <1>2, EmptySeq DEF StreamOK
<1>5. ASSUME NEW b \in DOMAIN stream', NEW i \in DOMAIN stream'[b]
      PROVE  stream'[b][i].missing = 0
  <2>1. CASE b \in DOMAIN stream
    BY <1>2, <1>5, <2>1 DEF StreamOK
  <2>2. CASE b \notin DOMAIN stream
    BY <1>2, <1>5, <2>2, EmptySeq
  <2> QED BY <2>1, <2>2
<1>6. stream' = [b \in DOMAIN stream' |-> stream'[b]]
  BY DEF CreateFile
<1> QED BY <1>1, <1>3, <1>4, <1>5, <1>6 DEF StreamOK

\* A record at the end of a file.
LEMMA WriteFileOK ==
    ASSUME StreamOK, NEW base \in DOMAIN stream, NEW m \in Msgs,
           stream' = [stream EXCEPT ![base] = Append(@, Whole(m))]
    PROVE  /\ StreamOK'
           /\ DOMAIN stream' = DOMAIN stream
           /\ \A b \in DOMAIN stream : b # base => stream'[b] = stream[b]
           /\ Len(stream'[base]) = Len(stream[base]) + 1
           /\ \A i \in 1..Len(stream[base]) : stream'[base][i] = stream[base][i]
           /\ stream'[base][Len(stream[base]) + 1] = Whole(m)
<1>1. Whole(m) \in Record /\ Whole(m).missing = 0
  BY DEF Whole, Record
<1>2. /\ stream[base] \in Seq(Record) /\ Len(stream[base]) \in Nat
      /\ DOMAIN stream[base] = 1..Len(stream[base])
  BY StreamFiles
<1> DEFINE new == Append(stream[base], Whole(m))
<1>3. /\ new \in Seq(Record) /\ Len(new) = Len(stream[base]) + 1
      /\ DOMAIN new = 1..Len(stream[base]) + 1
      /\ \A i \in 1..Len(stream[base]) : new[i] = stream[base][i]
      /\ new[Len(stream[base]) + 1] = Whole(m)
  BY <1>1, <1>2, AppendProperties, LenProperties
<1>4. stream' = [stream EXCEPT ![base] = new]
  OBVIOUS
<1> HIDE DEF new
<1>5. /\ DOMAIN stream' = DOMAIN stream
      /\ stream'[base] = new
      /\ \A b \in DOMAIN stream : b # base => stream'[b] = stream[b]
      /\ stream' = [b \in DOMAIN stream |-> stream'[b]]
  BY <1>4 DEF StreamOK
<1>6. \A b \in DOMAIN stream : stream'[b] \in Seq(Record)
  BY <1>3, <1>5 DEF StreamOK
<1>7. ASSUME NEW b \in DOMAIN stream, NEW i \in DOMAIN stream'[b]
      PROVE  stream'[b][i].missing = 0
  <2>1. CASE b # base
    BY <1>5, <1>7, <2>1 DEF StreamOK
  <2>2. CASE b = base /\ i \in 1..Len(stream[base])
    BY <1>2, <1>3, <1>5, <2>2 DEF StreamOK
  <2>3. CASE b = base /\ i = Len(stream[base]) + 1
    BY <1>1, <1>3, <1>5, <2>3
  <2> QED BY <1>2, <1>3, <1>5, <1>7, <2>1, <2>2, <2>3
<1>8. StreamOK'
  BY <1>5, <1>6, <1>7 DEF StreamOK
<1> QED BY <1>3, <1>5, <1>8
-----------------------------------------------------------------------------
(* The steps of the senders *)

\* At the start nobody has the directory open.
LEMMA InitInv == Init => IInv
<1> SUFFICES ASSUME Init PROVE IInv
  OBVIOUS
<1>1. ZeroCursor \in CursorState
  BY DEF ZeroCursor, CursorState
<1>2. WellFormed(EmptyLog(ZeroCursor))
  BY <1>1, EmptyLogWellFormed
<1>3. /\ EmptyLog(ZeroCursor).segments = <<>>
      /\ EmptyLog(ZeroCursor).cur = ZeroCursor
  BY DEF EmptyLog
<1>4. Behind(EmptyLog(ZeroCursor))
  BY <1>3, EmptySeq DEF Behind
<1>5. StreamOK
  <2>1. DOMAIN stream = {} /\ IsFiniteSet({})
    BY EmptySeq, FS_EmptySet DEF Init
  <2>2. stream = [b \in {} |-> stream[b]]
    BY <2>1 DEF Init
  <2> QED BY <2>1, <2>2 DEF StreamOK
<1>6. RuntimeOK
  <2>1. DOMAIN log.segments = {} /\ log.cur = cursorFile
    BY <1>3, EmptySeq DEF Init
  <2>2. current = None /\ exit = "none" /\ due = FALSE /\ log = EmptyLog(ZeroCursor)
    BY DEF Init
  <2> QED BY <1>2, <1>4, <2>1, <2>2 DEF RuntimeOK
<1>7. SendersOK
  <2>1. \A s \in Senders : SenderOK(s)
    BY <1>2, <1>4 DEF Init, SenderOK, Phases
  <2> QED BY <2>1 DEF Init, SendersOK
<1>8. HistoryOK
  <2>1. 0 \in 0..MaxCrashes /\ appended \in Seq(Msgs)
    BY SharedWalAssumption, EmptySeq DEF Init
  <2> QED BY <2>1 DEF Init, HistoryOK
<1> QED BY <1>5, <1>6, <1>7, <1>8 DEF IInv

\* A sender's step leaves the other senders alone.
OnlySender(s) ==
    /\ phase' = [phase EXCEPT ![s] = phase'[s]]
    /\ logs' = [logs EXCEPT ![s] = logs'[s]]
    /\ pending' = [pending EXCEPT ![s] = pending'[s]]
    /\ fd' = [fd EXCEPT ![s] = fd'[s]]
    /\ payload' = [payload EXCEPT ![s] = payload'[s]]

\* Others see of a sender's step no more than new files.
LEMMA OnlySenderOK ==
    ASSUME SendersOK, NEW s \in Senders, OnlySender(s), SenderOK(s)',
           DOMAIN stream \subseteq DOMAIN stream'
    PROVE  SendersOK'
<1>1. /\ phase' = [t \in Senders |-> phase'[t]]
      /\ logs' = [t \in Senders |-> logs'[t]]
      /\ pending' = [t \in Senders |-> pending'[t]]
      /\ fd' = [t \in Senders |-> fd'[t]]
      /\ payload' = [t \in Senders |-> payload'[t]]
  <2>1. phase' = [t \in Senders |-> phase'[t]]
    BY DEF SendersOK, OnlySender
  <2>2. logs' = [t \in Senders |-> logs'[t]]
    BY DEF SendersOK, OnlySender
  <2>3. pending' = [t \in Senders |-> pending'[t]]
    BY DEF SendersOK, OnlySender
  <2>4. fd' = [t \in Senders |-> fd'[t]]
    BY DEF SendersOK, OnlySender
  <2>5. payload' = [t \in Senders |-> payload'[t]]
    BY DEF SendersOK, OnlySender
  <2> QED BY <2>1, <2>2, <2>3, <2>4, <2>5
<1>2. ASSUME NEW t \in Senders, t # s
      PROVE  SenderOK(t)'
  <2>1. /\ phase'[t] = phase[t] /\ logs'[t] = logs[t] /\ pending'[t] = pending[t]
        /\ fd'[t] = fd[t] /\ payload'[t] = payload[t]
    BY <1>2 DEF SendersOK, OnlySender
  <2>2. SenderOK(t)
    BY DEF SendersOK
  <2> QED BY <2>1, <2>2 DEF SenderOK
<1> QED BY <1>1, <1>2 DEF SendersOK

\* The runtime does not notice new files before it looks for them.
LEMMA RuntimeFrame ==
    ASSUME RuntimeOK, UNCHANGED <<runtime, cursorFile>>,
           DOMAIN stream \subseteq DOMAIN stream'
    PROVE  RuntimeOK'
BY DEF RuntimeOK, runtime, up, RetentionExceeded

\* An unchanged variable, as OnlySender has it.
LEMMA Untouched ==
    ASSUME NEW f, f = [t \in Senders |-> f[t]], NEW s \in Senders
    PROVE  f = [f EXCEPT ![s] = f[s]]
OBVIOUS

\* The process that ends leaves nothing behind but its message, if it has one.
LEMMA LeaveOK ==
    ASSUME IInv, NEW s \in Senders, Leave(s), payload' = payload,
           phase[s] \notin {"writing", "returning"}, stream' = stream
    PROVE  OnlySender(s) /\ SenderOK(s)'
<1>1. ZeroCursor \in CursorState
  BY DEF ZeroCursor, CursorState
<1>2. WellFormed(EmptyLog(ZeroCursor))
  BY <1>1, EmptyLogWellFormed
<1>3. Behind(EmptyLog(ZeroCursor))
  BY EmptySeq DEF Behind, EmptyLog
<1>4. /\ phase'[s] = "out" /\ logs'[s] = EmptyLog(ZeroCursor)
      /\ pending'[s] = {} /\ fd'[s] = None /\ payload'[s] = payload[s]
  BY DEF Leave, Goto, IInv, SendersOK
<1>5. SenderOK(s)
  BY DEF IInv, SendersOK
<1>6. OnlySender(s)
  BY <1>4 DEF Leave, Goto, IInv, SendersOK, OnlySender
<1> QED BY <1>2, <1>3, <1>4, <1>5, <1>6 DEF SenderOK, Phases

\* Open: the listing, the reading of the segments, the activation of the last.
LEMMA SenderListStep ==
    ASSUME IInv, NEW s \in Senders, SenderList(s)
    PROVE  IInv' /\ OnlySender(s)
<1>1. /\ phase'[s] \in {"ready", "recovering"} /\ logs'[s] = logs[s]
      /\ pending'[s] = DOMAIN stream /\ fd'[s] = fd[s] /\ payload'[s] = payload[s]
  BY DEF SenderList, Goto, IInv, SendersOK
<1>2. OnlySender(s)
  BY <1>1 DEF SenderList, Goto, IInv, SendersOK, OnlySender
<1>3. SenderOK(s) /\ stream' = stream /\ DOMAIN stream \subseteq Nat
  BY DEF IInv, SendersOK, StreamOK, SenderList, disk
<1>4. SenderOK(s)'
  BY <1>1, <1>3 DEF SenderOK, Phases
<1>5. SendersOK'
  BY <1>2, <1>3, <1>4, OnlySenderOK DEF IInv
<1>6. RuntimeOK'
  BY <1>3, RuntimeFrame DEF IInv, SenderList, disk
<1> QED BY <1>2, <1>5, <1>6 DEF IInv, StreamOK, HistoryOK, SenderList, disk, history

LEMMA SenderRecoverStep ==
    ASSUME IInv, NEW s \in Senders, SenderRecover(s)
    PROVE  IInv' /\ OnlySender(s)
<1>1. PICK base \in pending[s] \cap DOMAIN stream :
        /\ pending' = [pending EXCEPT ![s] = @ \ {base}]
        /\ logs' = [logs EXCEPT ![s] = AddSegment(@, base, stream[base])]
  BY DEF SenderRecover
<1>2. /\ phase[s] = "recovering"
      /\ phase'[s] \in {"opening", "recovering"}
      /\ logs'[s] = AddSegment(logs[s], base, stream[base])
      /\ pending'[s] = pending[s] \ {base}
      /\ fd'[s] = fd[s] /\ payload'[s] = payload[s]
  BY <1>1 DEF SenderRecover, Goto, IInv, SendersOK
<1>3. OnlySender(s)
  <2>1. phase' = [phase EXCEPT ![s] = phase'[s]]
    BY DEF SenderRecover, Goto, IInv, SendersOK
  <2>2. logs' = [logs EXCEPT ![s] = logs'[s]]
    BY <1>1 DEF IInv, SendersOK
  <2>3. pending' = [pending EXCEPT ![s] = pending'[s]]
    BY <1>1 DEF IInv, SendersOK
  <2>4. fd' = [fd EXCEPT ![s] = fd'[s]] /\ payload' = [payload EXCEPT ![s] = payload'[s]]
    BY DEF SenderRecover, IInv, SendersOK
  <2> QED BY <2>1, <2>2, <2>3, <2>4 DEF OnlySender
<1>4. SenderOK(s) /\ stream' = stream
  BY DEF IInv, SendersOK, SenderRecover, disk
<1>5. /\ base \in Nat /\ stream[base] \in Seq(Record)
      /\ Len(stream[base]) \in Nat /\ ReadAll(stream[base]) = stream[base]
  BY StreamFiles DEF IInv
<1>6. /\ WellFormed(logs'[s])
      /\ logs'[s].segments =
           Append(logs[s].segments, [base |-> base, size |-> Len(stream[base])])
      /\ logs'[s].nextIdx = IF base + Len(stream[base]) > logs[s].nextIdx
                            THEN base + Len(stream[base]) ELSE logs[s].nextIdx
  <2> DEFINE l == logs[s]
             new == logs'[s]
             file == stream[base]
  <2>1. WellFormed(l)
    BY <1>4 DEF SenderOK
  <2>2. new = AddSegment(l, base, file)
    BY <1>2
  <2>3. file \in Seq(Record) /\ ReadAll(file) = file
    BY <1>5
  <2> HIDE DEF l, new, file
  <2>4. /\ WellFormed(new)
        /\ new.segments = Append(l.segments, [base |-> base, size |-> Len(file)])
        /\ new.nextIdx = IF base + Len(file) > l.nextIdx
                         THEN base + Len(file) ELSE l.nextIdx
    BY <1>5, <2>1, <2>2, <2>3, AddSegmentWellFormed
  <2> QED BY <2>4 DEF l, new, file
<1>7. /\ logs[s].segments \in Seq(Segment) /\ logs[s].nextIdx \in Nat
      /\ Len(logs[s].segments) \in Nat
      /\ DOMAIN logs[s].segments = 1..Len(logs[s].segments)
      /\ \A i \in DOMAIN logs[s].segments : logs[s].segments[i].base \in Nat
  BY <1>4, LogFields DEF SenderOK
<1>8. Behind(logs'[s]) /\ logs'[s].segments # <<>>
  <2> DEFINE added == [base |-> base, size |-> Len(stream[base])]
  <2>1. added \in Segment /\ added.base = base
    BY <1>5 DEF Segment
  <2> HIDE DEF added
  <2>2. /\ DOMAIN logs'[s].segments = 1..Len(logs[s].segments) + 1
        /\ \A i \in 1..Len(logs[s].segments) :
             logs'[s].segments[i] = logs[s].segments[i]
        /\ logs'[s].segments[Len(logs[s].segments) + 1] = added
    BY <1>6, <1>7, <2>1, AppendProperties, LenProperties DEF added
  <2>3. \A i \in 1..Len(logs[s].segments) : logs[s].segments[i].base <= logs[s].nextIdx
    BY <1>4, <1>7 DEF SenderOK, Behind
  <2>4. logs[s].nextIdx <= logs'[s].nextIdx /\ base <= logs'[s].nextIdx
    BY <1>5, <1>6, <1>7
  <2>5. logs'[s].nextIdx \in Nat
    BY <1>6, LogFields
  <2>6. ASSUME NEW i \in 1..Len(logs[s].segments) + 1
        PROVE  logs'[s].segments[i].base <= logs'[s].nextIdx
    <3>1. CASE i \in 1..Len(logs[s].segments)
      <4>1. /\ logs'[s].segments[i].base = logs[s].segments[i].base
            /\ logs[s].segments[i].base <= logs[s].nextIdx
            /\ logs[s].segments[i].base \in Nat
        BY <1>7, <2>2, <2>3, <3>1
      <4> QED BY <1>7, <2>4, <2>5, <4>1
    <3>2. CASE i = Len(logs[s].segments) + 1
      BY <2>1, <2>2, <2>4, <3>2
    <3> QED BY <1>7, <3>1, <3>2
  <2> QED BY <1>7, <2>2, <2>6, EmptySeq DEF Behind
<1>9. SenderOK(s)'
  BY <1>2, <1>4, <1>6, <1>8 DEF SenderOK, Phases
<1>10. SendersOK'
  BY <1>3, <1>4, <1>9, OnlySenderOK DEF IInv
<1>11. RuntimeOK'
  BY <1>4, RuntimeFrame DEF IInv, SenderRecover, disk
<1> QED BY <1>3, <1>10, <1>11 DEF IInv, StreamOK, HistoryOK, SenderRecover, disk, history

LEMMA SenderOpenStep ==
    ASSUME IInv, NEW s \in Senders, SenderOpen(s)
    PROVE  IInv' /\ OnlySender(s)
<1> DEFINE last == Last(logs[s].segments).base
<1>1. /\ phase'[s] = "ready" /\ fd'[s] = last
      /\ logs'[s] = [logs[s] EXCEPT !.active = Len(logs[s].segments)]
      /\ pending'[s] = pending[s] /\ payload'[s] = payload[s]
  BY DEF SenderOpen, Goto, IInv, SendersOK
<1>2. OnlySender(s)
  <2>1. phase' = [phase EXCEPT ![s] = phase'[s]]
    BY DEF SenderOpen, Goto, IInv, SendersOK
  <2>2. logs' = [logs EXCEPT ![s] = logs'[s]]
    BY DEF SenderOpen, IInv, SendersOK
  <2>3. fd' = [fd EXCEPT ![s] = fd'[s]]
    BY DEF SenderOpen, IInv, SendersOK
  <2>4. /\ pending' = [pending EXCEPT ![s] = pending'[s]]
        /\ payload' = [payload EXCEPT ![s] = payload'[s]]
    BY DEF SenderOpen, IInv, SendersOK
  <2> QED BY <2>1, <2>2, <2>3, <2>4 DEF OnlySender
<1>3. SenderOK(s) /\ stream' = stream /\ last \in DOMAIN stream
  BY DEF IInv, SendersOK, SenderOpen, disk
<1>4. /\ WellFormed(logs'[s])
      /\ logs'[s].segments = logs[s].segments /\ logs'[s].nextIdx = logs[s].nextIdx
  BY <1>1, <1>3, SetActiveWellFormed DEF SenderOK
<1> HIDE DEF last
<1>5. SenderOK(s)'
  <2>1. Behind(logs'[s])
    BY <1>3, <1>4 DEF Behind, SenderOK
  <2> QED BY <1>1, <1>3, <1>4, <2>1 DEF SenderOK, Phases
<1>6. SendersOK'
  BY <1>2, <1>3, <1>5, OnlySenderOK DEF IInv
<1>7. RuntimeOK'
  BY <1>3, RuntimeFrame DEF IInv, SenderOpen, disk
<1> QED BY <1>2, <1>6, <1>7 DEF IInv, StreamOK, HistoryOK, SenderOpen, disk, history

\* A process that ends, because Open failed or because it has sent everything.
LEMMA SenderLeavesStep ==
    ASSUME IInv, NEW s \in Senders, SenderFails(s) \/ SenderEnds(s)
    PROVE  IInv' /\ OnlySender(s)
<1>1. /\ Leave(s) /\ payload' = payload /\ stream' = stream
      /\ UNCHANGED <<disk, runtime, history>>
      /\ phase[s] \notin {"writing", "returning"}
  <2>1. CASE SenderFails(s)
    BY <2>1 DEF SenderFails, disk
  <2>2. CASE SenderEnds(s)
    BY <2>2 DEF SenderEnds, disk
  <2> QED BY <2>1, <2>2
<1>2. OnlySender(s) /\ SenderOK(s)'
  BY <1>1, LeaveOK
<1>3. SendersOK'
  BY <1>1, <1>2, OnlySenderOK DEF IInv
<1>4. RuntimeOK'
  BY <1>1, RuntimeFrame DEF IInv, disk
<1> QED BY <1>1, <1>2, <1>3, <1>4 DEF IInv, StreamOK, HistoryOK, disk, history
\* Append, up to the write: the active segment is there, after a roll if need be.
LEMMA SenderAppendStep ==
    ASSUME IInv, NEW s \in Senders, SenderAppend(s)
    PROVE  IInv' /\ OnlySender(s)
<1>1. PICK m \in Unsent : payload' = [payload EXCEPT ![s] = m]
  BY DEF SenderAppend
<1>2. /\ phase[s] = "ready" /\ phase'[s] = "writing"
      /\ pending'[s] = pending[s] /\ payload'[s] = m /\ m \in Msgs
  BY <1>1 DEF SenderAppend, Goto, IInv, SendersOK, Unsent
<1>3. SenderOK(s) /\ WellFormed(logs[s]) /\ Behind(logs[s]) /\ logs[s].nextIdx \in Nat
  <2>1. SenderOK(s)
    BY DEF IInv, SendersOK
  <2> QED BY <2>1, LogFields DEF SenderOK
<1>4. /\ phase' = [phase EXCEPT ![s] = phase'[s]]
      /\ pending' = [pending EXCEPT ![s] = pending'[s]]
      /\ payload' = [payload EXCEPT ![s] = payload'[s]]
  <2>1. phase' = [phase EXCEPT ![s] = phase'[s]]
    BY DEF SenderAppend, Goto, IInv, SendersOK
  <2>2. pending' = [pending EXCEPT ![s] = pending'[s]]
    BY DEF SenderAppend, IInv, SendersOK
  <2>3. payload' = [payload EXCEPT ![s] = payload'[s]]
    BY <1>1, <1>2
  <2> QED BY <2>1, <2>2, <2>3
<1>5. CASE NeedsRoll(logs[s])
  <2>1. /\ stream' = CreateFile(stream, logs[s].nextIdx)
        /\ logs' = [logs EXCEPT ![s] = RollSegment(@)]
        /\ fd' = [fd EXCEPT ![s] = logs[s].nextIdx]
    BY <1>5 DEF SenderAppend
  <2>2. logs'[s] = RollSegment(logs[s]) /\ fd'[s] = logs[s].nextIdx
    BY <2>1 DEF IInv, SendersOK
  <2>3. OnlySender(s)
    <3>1. logs' = [logs EXCEPT ![s] = logs'[s]]
      BY <2>1, <2>2
    <3>2. fd' = [fd EXCEPT ![s] = fd'[s]]
      BY <2>1, <2>2
    <3> QED BY <1>4, <3>1, <3>2 DEF OnlySender
  <2>4. StreamOK' /\ DOMAIN stream' = DOMAIN stream \cup {logs[s].nextIdx}
    BY <1>3, <2>1, CreateFileOK DEF IInv
  <2>5. /\ WellFormed(logs'[s])
        /\ logs'[s].segments =
             Append(logs[s].segments, [base |-> logs[s].nextIdx, size |-> 0])
        /\ logs'[s].active = Len(logs[s].segments) + 1
        /\ logs'[s].nextIdx = logs[s].nextIdx
    BY <1>3, <2>2, RollSegmentWellFormed
  <2>6. Behind(logs'[s]) /\ logs'[s].active # 0
    <3> DEFINE added == [base |-> logs[s].nextIdx, size |-> 0]
    <3>1. /\ logs[s].segments \in Seq(Segment) /\ Len(logs[s].segments) \in Nat
          /\ DOMAIN logs[s].segments = 1..Len(logs[s].segments)
      BY <1>3, LogFields
    <3>2. added \in Segment /\ added.base = logs[s].nextIdx
      BY <1>3 DEF Segment
    <3> HIDE DEF added
    <3>3. /\ DOMAIN logs'[s].segments = 1..Len(logs[s].segments) + 1
          /\ \A i \in 1..Len(logs[s].segments) :
               logs'[s].segments[i] = logs[s].segments[i]
          /\ logs'[s].segments[Len(logs[s].segments) + 1] = added
      BY <2>5, <3>1, <3>2, AppendProperties, LenProperties DEF added
    <3>4. \A i \in 1..Len(logs[s].segments) :
            logs[s].segments[i].base <= logs[s].nextIdx
      BY <1>3, <3>1 DEF Behind
    <3>5. ASSUME NEW i \in 1..Len(logs[s].segments) + 1
          PROVE  logs'[s].segments[i].base <= logs'[s].nextIdx
      <4>1. CASE i \in 1..Len(logs[s].segments)
        BY <2>5, <3>3, <3>4, <4>1
      <4>2. CASE i = Len(logs[s].segments) + 1
        BY <1>3, <2>5, <3>2, <3>3, <4>2
      <4> QED BY <3>1, <4>1, <4>2
    <3> QED BY <2>5, <3>1, <3>3, <3>5 DEF Behind
  <2>7. SenderOK(s)'
    BY <1>2, <1>3, <2>2, <2>4, <2>5, <2>6 DEF SenderOK, Phases
  <2>8. SendersOK'
    BY <2>3, <2>4, <2>7, OnlySenderOK DEF IInv
  <2>9. RuntimeOK'
    BY <2>4, RuntimeFrame DEF IInv, SenderAppend
  <2>10. HistoryOK'
    BY <1>5 DEF IInv, HistoryOK, SenderAppend
  <2> QED BY <2>3, <2>4, <2>8, <2>9, <2>10 DEF IInv
<1>6. CASE ~NeedsRoll(logs[s])
  <2>1. UNCHANGED <<stream, logs, fd>> /\ logs[s].active # 0
    BY <1>6 DEF SenderAppend, NeedsRoll
  <2>2. OnlySender(s)
    <3>1. logs' = [logs EXCEPT ![s] = logs'[s]] /\ fd' = [fd EXCEPT ![s] = fd'[s]]
      BY <2>1 DEF IInv, SendersOK
    <3> QED BY <1>4, <3>1 DEF OnlySender
  <2>3. SenderOK(s)'
    BY <1>2, <1>3, <2>1 DEF SenderOK, Phases
  <2>4. SendersOK'
    BY <2>1, <2>2, <2>3, OnlySenderOK DEF IInv
  <2>5. RuntimeOK'
    BY <2>1, RuntimeFrame DEF IInv, SenderAppend
  <2>6. HistoryOK'
    BY <1>6 DEF IInv, HistoryOK, SenderAppend
  <2> QED BY <2>1, <2>2, <2>4, <2>5, <2>6 DEF IInv, StreamOK
<1> QED BY <1>5, <1>6

\* The write: to the file if it is still there.
LEMMA SenderWriteStep ==
    ASSUME IInv, NEW s \in Senders, SenderWrite(s)
    PROVE  IInv' /\ OnlySender(s)
<1>1. /\ phase[s] = "writing" /\ phase'[s] = "returning"
      /\ UNCHANGED <<logs, pending, fd, payload>>
  BY DEF SenderWrite, Goto, IInv, SendersOK
<1>2. SenderOK(s) /\ payload[s] \in Msgs /\ logs[s].active # 0
  BY <1>1 DEF IInv, SendersOK, SenderOK
<1>3. OnlySender(s)
  <2>1. phase' = [phase EXCEPT ![s] = phase'[s]]
    BY DEF SenderWrite, Goto, IInv, SendersOK
  <2> QED BY <1>1, <2>1 DEF IInv, SendersOK, OnlySender
<1>4. /\ StreamOK' /\ DOMAIN stream' = DOMAIN stream
      /\ appended' \in Seq(Msgs) /\ unlinked' \subseteq Msgs
  <2>1. CASE fd[s] = None
    BY <1>2, <2>1 DEF SenderWrite, IInv, StreamOK, HistoryOK
  <2>2. CASE fd[s] # None
    <3>1. fd[s] \in DOMAIN stream
      BY <1>2, <2>2 DEF SenderOK
    <3>2. /\ stream' = [stream EXCEPT ![fd[s]] = Append(@, Whole(payload[s]))]
          /\ appended' = Append(appended, payload[s])
          /\ UNCHANGED unlinked
      BY <2>2 DEF SenderWrite
    <3>3. StreamOK' /\ DOMAIN stream' = DOMAIN stream
      BY <1>2, <3>1, <3>2, WriteFileOK DEF IInv
    <3>4. appended' \in Seq(Msgs)
      BY <1>2, <3>2, AppendProperties DEF IInv, HistoryOK
    <3> QED BY <3>2, <3>3, <3>4 DEF IInv, HistoryOK
  <2> QED BY <2>1, <2>2
<1>5. SenderOK(s)'
  BY <1>1, <1>2, <1>4 DEF SenderOK, Phases
<1>6. SendersOK'
  BY <1>3, <1>4, <1>5, OnlySenderOK DEF IInv
<1>7. RuntimeOK'
  BY <1>4, RuntimeFrame DEF IInv, SenderWrite
<1>8. HistoryOK'
  BY <1>4 DEF IInv, HistoryOK, SenderWrite
<1> QED BY <1>3, <1>4, <1>6, <1>7, <1>8 DEF IInv

\* Append returns: the record is indexed and the offset moves on.
LEMMA SenderReturnStep ==
    ASSUME IInv, NEW s \in Senders, SenderReturn(s)
    PROVE  IInv' /\ OnlySender(s)
<1>1. /\ phase[s] = "returning" /\ phase'[s] = "ready"
      /\ logs'[s] = IndexAppended(logs[s]) /\ payload'[s] = None
      /\ pending'[s] = pending[s] /\ fd'[s] = fd[s]
      /\ acked' = acked \cup {[offset |-> logs[s].nextIdx, msg |-> payload[s]]}
      /\ stream' = stream
  BY DEF SenderReturn, Returns, Goto, IInv, SendersOK, disk
<1>2. SenderOK(s) /\ payload[s] \in Msgs /\ logs[s].active # 0
  BY <1>1 DEF IInv, SendersOK, SenderOK
<1>3. OnlySender(s)
  <2>1. phase' = [phase EXCEPT ![s] = phase'[s]]
    BY DEF SenderReturn, Returns, Goto, IInv, SendersOK
  <2>2. logs' = [logs EXCEPT ![s] = logs'[s]]
    BY <1>1 DEF SenderReturn, Returns
  <2>3. payload' = [payload EXCEPT ![s] = payload'[s]]
    BY <1>1 DEF SenderReturn, Returns
  <2>4. pending' = [pending EXCEPT ![s] = pending'[s]] /\ fd' = [fd EXCEPT ![s] = fd'[s]]
    BY DEF SenderReturn, Returns, IInv, SendersOK
  <2> QED BY <2>1, <2>2, <2>3, <2>4 DEF OnlySender
<1> DEFINE l == logs[s]
           new == logs'[s]
<1>4. /\ WellFormed(l) /\ Behind(l) /\ l.active # 0
      /\ new = IndexAppended(l)
  BY <1>1, <1>2 DEF SenderOK
<1>5. Behind(new) /\ WellFormed(new) /\ new.active = l.active /\ l.nextIdx \in Nat
  <2> HIDE DEF l, new
  <2>1. /\ l.active \in DOMAIN l.segments /\ l.nextIdx \in Nat
        /\ \A i \in DOMAIN l.segments : l.segments[i].base \in Nat
    BY <1>4, LogFields
  <2>2. /\ WellFormed(new) /\ Len(new.segments) = Len(l.segments)
        /\ \A i \in DOMAIN l.segments : new.segments[i].base = l.segments[i].base
        /\ new.nextIdx = l.nextIdx + 1 /\ new.active = l.active
    BY <1>4, <2>1, IndexAppendedWellFormed DEF Behind
  <2>3. DOMAIN new.segments = DOMAIN l.segments
    BY <1>4, <2>2, LogFields
  <2>4. \A i \in DOMAIN new.segments : new.segments[i].base <= new.nextIdx
    BY <1>4, <2>1, <2>2, <2>3 DEF Behind
  <2> QED BY <2>1, <2>2, <2>4 DEF Behind
<1> HIDE DEF new
<1>6. SenderOK(s)'
  BY <1>1, <1>2, <1>5 DEF SenderOK, Phases, new
<1>7. SendersOK'
  BY <1>1, <1>3, <1>6, OnlySenderOK DEF IInv
<1>8. RuntimeOK'
  BY <1>1, RuntimeFrame DEF IInv, SenderReturn, Returns, disk
<1>9. HistoryOK'
  BY <1>1, <1>2, <1>5 DEF IInv, HistoryOK, SenderReturn, Returns
<1> QED BY <1>1, <1>3, <1>7, <1>8, <1>9 DEF IInv, StreamOK

\* Whatever a sender does.
LEMMA SenderInv ==
    ASSUME IInv, NEW s \in Senders, SenderStep(s)
    PROVE  IInv' /\ OnlySender(s)
BY SenderListStep, SenderRecoverStep, SenderOpenStep, SenderLeavesStep,
   SenderAppendStep, SenderWriteStep, SenderReturnStep DEF SenderStep
-----------------------------------------------------------------------------
(* The steps of the runtime *)

\* What NextUnprocessed reads is a message of a file that has some.
LEMMA MessageAtFile ==
    ASSUME StreamOK, NEW l, WellFormed(l),
           \A i \in DOMAIN l.segments : l.segments[i].base \in DOMAIN stream,
           NEW offset \in Nat, Readable(l, stream, offset)
    PROVE  LET entry == l.index[offset + 1]
               base == l.segments[entry.seg].base
           IN  /\ offset < Len(l.index)
               /\ base \in DOMAIN stream
               /\ entry.rec + 1 \in DOMAIN stream[base]
               /\ MessageAt(l, stream, offset) = stream[base][entry.rec + 1].msg
               /\ MessageAt(l, stream, offset) \in Msgs
<1> DEFINE entry == l.index[offset + 1]
           base == l.segments[entry.seg].base
           file == stream[base]
<1>1. offset < Len(l.index) /\ offset + 1 \in DOMAIN l.index
  BY LogFields DEF Readable
<1>2. entry.seg \in DOMAIN l.segments /\ entry.rec \in Nat
  BY <1>1, LogFields
<1>3. base \in DOMAIN stream
  BY <1>2
<1> HIDE DEF entry
<1>4. /\ file \in Seq(Record) /\ Len(file) \in Nat /\ DOMAIN file = 1..Len(file)
      /\ ReadAll(file) = file
  BY <1>3, StreamFiles
<1>5. entry.rec < Len(ReadAll(file))
  BY DEF Readable, entry
<1>6. MessageAt(l, stream, offset) = ReadAll(file)[entry.rec + 1].msg
  BY DEF MessageAt, entry
<1> HIDE DEF file
<1>7. entry.rec + 1 \in DOMAIN file
  BY <1>2, <1>4, <1>5
<1>8. file[entry.rec + 1] \in Record
  BY <1>4, <1>7, ElementOfSeq
<1>9. file[entry.rec + 1].msg \in Msgs
  BY <1>8 DEF Record
<1> QED BY <1>1, <1>3, <1>4, <1>6, <1>7, <1>9 DEF file, entry

\* The Log after NextUnprocessed, which refreshes it if there is nothing left.
LEMMA PolledLog ==
    ASSUME IInv, log' = IF CaughtUp THEN Refresh(log, stream) ELSE log
    PROVE  /\ WellFormed(log') /\ Behind(log')
           /\ \A i \in DOMAIN log'.segments : log'.segments[i].base \in DOMAIN stream
           /\ log'.cur = log.cur
<1>1. /\ WellFormed(log) /\ Behind(log)
      /\ \A i \in DOMAIN log.segments : log.segments[i].base \in DOMAIN stream
  BY DEF IInv, RuntimeOK
<1>2. /\ DOMAIN stream \in SUBSET Nat /\ IsFiniteSet(DOMAIN stream)
      /\ \A b \in DOMAIN stream : stream[b] \in Seq(Record) /\ ReadAll(stream[b]) = stream[b]
  BY StreamFiles DEF IInv, StreamOK
<1>3. CASE CaughtUp
  <2> DEFINE new == Refresh(log, stream)
  <2>1. /\ WellFormed(new) /\ Behind(new)
        /\ \A i \in DOMAIN new.segments : new.segments[i].base \in DOMAIN stream
        /\ new.cur = log.cur
    BY <1>1, <1>2, RefreshWellFormed
  <2>2. log' = new
    BY <1>3
  <2> HIDE DEF new
  <2> QED BY <2>1, <2>2
<1>4. CASE ~CaughtUp
  BY <1>1, <1>4
<1> QED BY <1>3, <1>4

\* The senders do not notice what the runtime does with its Log.
LEMMA SendersFrame ==
    ASSUME SendersOK, UNCHANGED senders, DOMAIN stream \subseteq DOMAIN stream'
    PROVE  SendersOK'
BY DEF SendersOK, SenderOK, senders

LEMMA PollStep ==
    ASSUME IInv, Poll
    PROVE  IInv'
<1>1. /\ log' = IF CaughtUp THEN Refresh(log, stream) ELSE log
      /\ exit = "none" /\ current = None /\ due = FALSE
      /\ UNCHANGED <<disk, senders, history>>
  BY DEF Poll, up, IInv, RuntimeOK
<1>2. /\ WellFormed(log') /\ Behind(log')
      /\ \A i \in DOMAIN log'.segments : log'.segments[i].base \in DOMAIN stream
      /\ log'.cur = log.cur
  BY <1>1, PolledLog
<1>3. log.cur = cursorFile /\ log.cur.consumed \in Nat /\ StreamOK
  BY LogFields DEF IInv, RuntimeOK
<1> DEFINE offset == log.cur.consumed
<1>4. /\ current' \in {None} \cup [offset : Nat, msg : Msgs]
      /\ current' # None => up' /\ current'.offset = log'.cur.consumed
      /\ exit' \in {"none", "clean", "failure"}
      /\ due' \in BOOLEAN
      /\ due' => up' /\ current' = None /\ RetentionExceeded(log')
  <2>1. CASE /\ due' = RetentionExceeded(log')
             /\ UNCHANGED <<exit, current>>
    BY <1>1, <2>1 DEF up, RetentionExceeded
  <2>2. CASE /\ Readable(log', stream, offset)
             /\ current' = [offset |-> offset, msg |-> MessageAt(log', stream, offset)]
             /\ UNCHANGED <<exit, due>>
    <3>1. MessageAt(log', stream, offset) \in Msgs
      BY <1>2, <1>3, <2>2, MessageAtFile
    <3> QED BY <1>1, <1>2, <1>3, <2>2, <3>1 DEF up
  <2>3. CASE exit' \in {"clean", "failure"} /\ UNCHANGED <<current, due>>
    BY <1>1, <2>3
  <2> QED BY <2>1, <2>2, <2>3 DEF Poll
<1>5. stream' = stream /\ cursorFile' = cursorFile
  BY <1>1 DEF disk
<1>6. RuntimeOK'
  BY <1>2, <1>3, <1>4, <1>5 DEF RuntimeOK, RetentionExceeded
<1>7. SendersOK'
  BY <1>1, <1>5, SendersFrame DEF IInv
<1> QED BY <1>1, <1>5, <1>6, <1>7 DEF IInv, StreamOK, HistoryOK, history

LEMMA ProcessStep ==
    ASSUME IInv, Process \/ DeadLetter
    PROVE  IInv'
<1>1. /\ log' = [log EXCEPT !.cur = AdvanceConsumed(@, current.offset)]
      /\ exit = "none" /\ cursorFile' = log'.cur /\ current' = None
      /\ due' = RetentionExceeded(log')
      /\ UNCHANGED <<stream, exit, senders, appended, unlinked, acked, retained,
                     rolled, crashes>>
  BY DEF Process, DeadLetter, Finish, up
<1>2. /\ WellFormed(log) /\ Behind(log)
      /\ current \in [offset : Nat, msg : Msgs]
      /\ \A i \in DOMAIN log.segments : log.segments[i].base \in DOMAIN stream
  BY DEF IInv, RuntimeOK, Process, DeadLetter, Finish
<1> DEFINE cur == AdvanceConsumed(log.cur, current.offset)
<1>3. cur \in CursorState
  <2>1. current.offset \in Nat /\ log.cur \in CursorState
    BY <1>2, LogFields
  <2> QED BY <2>1, AdvanceConsumedType
<1>4. log' = [log EXCEPT !.cur = cur]
  BY <1>1
<1> HIDE DEF cur
<1>5. /\ WellFormed(log')
      /\ log'.segments = log.segments /\ log'.nextIdx = log.nextIdx
      /\ log'.index = log.index /\ log'.cur = cur
  BY <1>2, <1>3, <1>4, SetCursorWellFormed
<1>6. RuntimeOK'
  <2>1. due' \in BOOLEAN /\ (due' => RetentionExceeded(log'))
    BY <1>1 DEF RetentionExceeded
  <2> QED BY <1>1, <1>2, <1>5, <2>1 DEF RuntimeOK, Behind, RetentionExceeded, up
<1>7. SendersOK'
  BY <1>1, SendersFrame DEF IInv
<1>8. HistoryOK'
  <2>1. delivered' \subseteq delivered \cup {current.msg} /\ dead' \subseteq dead \cup {current.msg}
    BY DEF Process, DeadLetter
  <2> QED BY <1>1, <1>2, <2>1 DEF IInv, HistoryOK
<1> QED BY <1>1, <1>6, <1>7, <1>8 DEF IInv, StreamOK

\* An empty Log fits every directory.
LEMMA EmptyLogOK ==
    ASSUME NEW c \in CursorState
    PROVE  /\ WellFormed(EmptyLog(c)) /\ Behind(EmptyLog(c))
           /\ DOMAIN EmptyLog(c).segments = {}
           /\ EmptyLog(c).cur = c /\ EmptyLog(c).nextIdx = 0
<1>1. DOMAIN EmptyLog(c).segments = {}
  BY EmptySeq DEF EmptyLog
<1> QED BY <1>1, EmptyLogWellFormed DEF EmptyLog, Behind

LEMMA TruncateStep ==
    ASSUME IInv, Truncate
    PROVE  IInv'
<1>1. /\ current = None /\ due' = FALSE /\ rolled' = FALSE
      /\ stream' = <<>> /\ fd' = [s \in Senders |-> None]
      /\ log' = EmptyLog(ZeroCursor) /\ cursorFile' = ZeroCursor
      /\ appended' = <<>> /\ retained' \subseteq retained \cup Msgs
      /\ UNCHANGED <<exit, current, phase, logs, pending, payload, unlinked, acked,
                     delivered, dead, crashes>>
  BY DEF Truncate, IInv, RuntimeOK
<1>2. ZeroCursor \in CursorState
  BY DEF ZeroCursor, CursorState
<1>3. StreamOK'
  <2>1. DOMAIN stream' = {} /\ IsFiniteSet({})
    BY <1>1, EmptySeq, FS_EmptySet
  <2>2. stream' = [b \in {} |-> stream'[b]]
    BY <1>1, <2>1
  <2> QED BY <2>1, <2>2 DEF StreamOK
<1>4. RuntimeOK'
  BY <1>1, <1>2, EmptyLogOK DEF IInv, RuntimeOK
<1>5. SendersOK'
  <2>1. \A s \in Senders : SenderOK(s)'
    BY <1>1 DEF IInv, SendersOK, SenderOK
  <2> QED BY <1>1, <2>1 DEF IInv, SendersOK
<1>6. HistoryOK'
  BY <1>1, EmptySeq DEF IInv, HistoryOK
<1> QED BY <1>3, <1>4, <1>5, <1>6 DEF IInv

LEMMA RuntimeOpensStep ==
    ASSUME IInv, RuntimeOpens
    PROVE  IInv'
<1> DEFINE empty == EmptyLog(cursorFile)
<1>1. /\ exit # "none" /\ exit' = "none"
      /\ log' = AddSegments(empty, stream, DOMAIN stream)
      /\ UNCHANGED <<disk, current, due, senders, history>>
  BY DEF RuntimeOpens, up
<1>2. /\ DOMAIN stream \in SUBSET Nat /\ IsFiniteSet(DOMAIN stream)
      /\ \A b \in DOMAIN stream : stream[b] \in Seq(Record) /\ ReadAll(stream[b]) = stream[b]
  BY StreamFiles DEF IInv, StreamOK
<1>3. /\ WellFormed(empty) /\ Behind(empty)
      /\ DOMAIN empty.segments = {} /\ empty.cur = cursorFile
  <2>1. cursorFile \in CursorState
    BY LogFields DEF IInv, RuntimeOK
  <2> QED BY <2>1, EmptyLogOK
<1> HIDE DEF empty
<1>4. /\ WellFormed(log') /\ log'.cur = cursorFile
      /\ \A i \in DOMAIN log'.segments : log'.segments[i].base \in DOMAIN stream
  <2>1. /\ WellFormed(log') /\ log'.cur = empty.cur
        /\ \A i \in DOMAIN log'.segments :
             \/ log'.segments[i].base \in DOMAIN stream
             \/ \E t \in DOMAIN empty.segments :
                  empty.segments[t].base = log'.segments[i].base
    BY <1>1, <1>2, <1>3, AddSegmentsWellFormed
  <2> QED BY <1>3, <2>1
<1>5. Behind(log')
  BY <1>1, <1>2, <1>3, AddSegmentsBehind
<1>6. stream' = stream /\ cursorFile' = cursorFile
  BY <1>1 DEF disk
<1>7. RuntimeOK'
  BY <1>1, <1>4, <1>5, <1>6 DEF IInv, RuntimeOK, up
<1>8. SendersOK'
  BY <1>1, <1>6, SendersFrame DEF IInv
<1> QED BY <1>1, <1>6, <1>7, <1>8 DEF IInv, StreamOK, HistoryOK, history

LEMMA RuntimeEndsStep ==
    ASSUME IInv, RuntimeEnds
    PROVE  IInv'
<1>1. /\ exit' \in {"clean", "failure"} /\ current' = None /\ due' = FALSE
      /\ stream' = stream /\ cursorFile' = cursorFile
      /\ crashes' = crashes + 1 /\ crashes < MaxCrashes
      /\ UNCHANGED <<log, senders, appended, unlinked, acked, delivered, dead,
                     retained, rolled>>
  BY DEF RuntimeEnds, disk
<1>2. crashes' \in 0..MaxCrashes
  BY <1>1, SharedWalAssumption DEF IInv, HistoryOK
<1>3. SendersOK'
  BY <1>1, SendersFrame DEF IInv
<1>4. RuntimeOK'
  BY <1>1 DEF IInv, RuntimeOK
<1> QED BY <1>1, <1>2, <1>3, <1>4 DEF IInv, StreamOK, HistoryOK

\* The invariant is inductive.
LEMMA NextInv ==
    ASSUME IInv, [Next]_vars
    PROVE  IInv'
<1>1. CASE Next
  BY <1>1, SenderInv, PollStep, ProcessStep, TruncateStep, RuntimeOpensStep,
     RuntimeEndsStep DEF Next, RuntimeStep
<1>2. CASE UNCHANGED vars
  BY <1>2 DEF vars, disk, runtime, senders, history, IInv, StreamOK, RuntimeOK,
     SendersOK, SenderOK, HistoryOK, up, RetentionExceeded
<1> QED BY <1>1, <1>2

\* The invariant holds for every number of senders and every bound.
THEOREM Invariance == Spec => []IInv
<1>1. Init => IInv
  BY InitInv
<1>2. IInv /\ [Next]_vars => IInv'
  BY NextInv
<1> QED BY <1>1, <1>2, PTL DEF Spec

\* Every variable has its type, in particular every Log is one whose positions
\* are positions in its segment list (wal.go Log).
THEOREM TypeCorrect == Spec => []TypeOK
<1>1. IInv => TypeOK
  <2> SUFFICES ASSUME IInv PROVE TypeOK
    OBVIOUS
  <2>1. WellFormed(log) /\ cursorFile \in CursorState
    BY LogFields DEF IInv, RuntimeOK
  <2>2. \A s \in Senders : SenderOK(s) /\ fd[s] \in Nat \cup {None}
    BY DEF IInv, SendersOK, SenderOK, StreamOK
  <2>3. /\ phase \in [Senders -> Phases] /\ fd \in [Senders -> Nat \cup {None}]
        /\ payload \in [Senders -> Msgs \cup {None}]
    BY <2>2 DEF IInv, SendersOK, SenderOK
  <2>4. \A s \in Senders : WellFormed(logs[s]) /\ pending[s] \subseteq Nat
    BY <2>2 DEF SenderOK
  <2> QED BY <2>1, <2>3, <2>4 DEF IInv, StreamOK, RuntimeOK, HistoryOK, TypeOK
<1> QED BY <1>1, Invariance, PTL
-----------------------------------------------------------------------------
(* Up to the first truncation no offset in use is beyond the stream *)

\* What has been consumed, or is being handled, was in some file: a truncation
\* has something to retain.
ConsumedIsThere ==
    current # None \/ cursorFile.consumed > 0 =>
        \E base \in DOMAIN stream : Len(stream[base]) > 0

\* No file reaches beyond the messages that have reached the stream.
FilesEnd ==
    retained = {} =>
        \A base \in DOMAIN stream : base + Len(stream[base]) <= Len(appended)

\* A sender's next offset is not beyond the stream, the active file is there,
\* and the record it has written is behind the offset it is about to return.
SenderBehind(s) ==
    retained = {} =>
        /\ logs[s].nextIdx <= Len(appended)
        /\ logs[s].active # 0 => fd[s] # None
        /\ phase[s] = "returning" =>
             \E o \in DOMAIN appended : appended[o] = payload[s] /\ logs[s].nextIdx < o

SendersBehind == \A s \in Senders : SenderBehind(s)

SentInv == ConsumedIsThere /\ FilesEnd /\ SendersBehind /\ AckedAtOrAfter

\* The stream keeps what it has and may get more.
Grows ==
    /\ retained' = retained
    /\ Len(appended) <= Len(appended')
    /\ \A o \in DOMAIN appended : o \in DOMAIN appended' /\ appended'[o] = appended[o]

LEMMA InitSent == Init => SentInv
<1> SUFFICES ASSUME Init PROVE SentInv
  OBVIOUS
<1>1. DOMAIN stream = {} /\ Len(appended) = 0
  BY EmptySeq DEF Init
<1>2. \A s \in Senders : SenderBehind(s)
  BY <1>1 DEF Init, SenderBehind, EmptyLog
<1>3. ConsumedIsThere
  BY DEF Init, ConsumedIsThere, ZeroCursor
<1> QED BY <1>1, <1>2, <1>3 DEF Init, SentInv, FilesEnd, SendersBehind, AckedAtOrAfter

\* Nothing the others rely on is lost when the stream grows.
LEMMA SentFrame ==
    ASSUME IInv, IInv', SentInv, NEW s \in Senders, OnlySender(s), Grows,
           SenderBehind(s)'
    PROVE  SendersBehind'
<1> SUFFICES ASSUME NEW t \in Senders, t # s PROVE SenderBehind(t)'
  BY DEF SendersBehind
<1>1. /\ phase'[t] = phase[t] /\ logs'[t] = logs[t] /\ fd'[t] = fd[t]
      /\ payload'[t] = payload[t]
  BY DEF OnlySender, IInv, SendersOK
<1>2. SenderBehind(t)
  BY DEF SentInv, SendersBehind
<1>3. /\ logs[t].nextIdx \in Nat /\ Len(appended) \in Nat /\ Len(appended') \in Nat
  <2>1. WellFormed(logs[t]) /\ appended \in Seq(Msgs) /\ appended' \in Seq(Msgs)
    BY DEF IInv, SendersOK, SenderOK, HistoryOK
  <2> QED BY <2>1, LogFields, LenProperties
<1> QED BY <1>1, <1>2, <1>3 DEF SenderBehind, Grows

LEMMA AckedFrame ==
    ASSUME AckedAtOrAfter, Grows, acked' = acked
    PROVE  AckedAtOrAfter'
BY DEF AckedAtOrAfter, Grows

\* A step of a sender that neither writes to a file nor returns.
LEMMA SentUnchanged ==
    ASSUME IInv, IInv', SentInv, NEW s \in Senders, OnlySender(s), SenderBehind(s)',
           UNCHANGED <<stream, cursorFile, current, appended, retained, acked>>
    PROVE  SentInv'
<1>1. Grows
  BY LenProperties DEF Grows, IInv, HistoryOK
<1>2. ConsumedIsThere' /\ FilesEnd'
  BY DEF SentInv, ConsumedIsThere, FilesEnd
<1> QED BY <1>1, <1>2, SentFrame, AckedFrame DEF SentInv

LEMMA SenderListSent ==
    ASSUME IInv, SentInv, NEW s \in Senders, SenderList(s)
    PROVE  SentInv'
<1>1. IInv' /\ OnlySender(s)
  BY SenderListStep
<1>2. /\ phase'[s] # "returning" /\ logs'[s] = logs[s] /\ fd'[s] = fd[s]
      /\ UNCHANGED <<stream, cursorFile, current, appended, retained, acked>>
  BY DEF SenderList, Goto, IInv, SendersOK, disk, runtime, history
<1>3. SenderBehind(s)'
  BY <1>2 DEF SentInv, SendersBehind, SenderBehind
<1> QED BY <1>1, <1>2, <1>3, SentUnchanged

LEMMA SenderRecoverSent ==
    ASSUME IInv, SentInv, NEW s \in Senders, SenderRecover(s)
    PROVE  SentInv'
<1>1. IInv' /\ OnlySender(s)
  BY SenderRecoverStep
<1>2. PICK base \in pending[s] \cap DOMAIN stream :
        logs' = [logs EXCEPT ![s] = AddSegment(@, base, stream[base])]
  BY DEF SenderRecover
<1>3. /\ phase'[s] # "returning" /\ fd'[s] = fd[s]
      /\ logs'[s] = AddSegment(logs[s], base, stream[base])
      /\ UNCHANGED <<stream, cursorFile, current, appended, retained, acked>>
  BY <1>2 DEF SenderRecover, Goto, IInv, SendersOK, disk, runtime, history
<1> DEFINE l == logs[s]
           new == logs'[s]
           file == stream[base]
<1>4. /\ base \in Nat /\ file \in Seq(Record) /\ Len(file) \in Nat
      /\ ReadAll(file) = file
  BY StreamFiles DEF IInv
<1>5. WellFormed(l) /\ new = AddSegment(l, base, file)
  BY <1>3 DEF IInv, SendersOK, SenderOK
<1> HIDE DEF l, new, file
<1>6. /\ new.nextIdx = IF base + Len(file) > l.nextIdx
                       THEN base + Len(file) ELSE l.nextIdx
      /\ new.active = l.active
  BY <1>4, <1>5, AddSegmentWellFormed
<1>7. retained = {} => /\ base + Len(file) <= Len(appended)
                       /\ l.nextIdx <= Len(appended)
                       /\ l.active # 0 => fd[s] # None
  BY DEF SentInv, FilesEnd, SendersBehind, SenderBehind, l, file
<1>8. SenderBehind(s)'
  BY <1>3, <1>6, <1>7 DEF SenderBehind, new
<1> QED BY <1>1, <1>3, <1>8, SentUnchanged

LEMMA SenderOpenSent ==
    ASSUME IInv, SentInv, NEW s \in Senders, SenderOpen(s)
    PROVE  SentInv'
<1>1. IInv' /\ OnlySender(s)
  BY SenderOpenStep
<1>2. /\ phase'[s] = "ready" /\ fd'[s] \in DOMAIN stream
      /\ logs'[s] = [logs[s] EXCEPT !.active = Len(logs[s].segments)]
      /\ UNCHANGED <<stream, cursorFile, current, appended, retained, acked>>
  BY DEF SenderOpen, Goto, IInv, SendersOK, disk, runtime, history
<1>3. fd'[s] # None
  BY <1>2, SharedWalAssumption DEF IInv, StreamOK
<1>4. logs'[s].nextIdx = logs[s].nextIdx
  <2>1. WellFormed(logs[s])
    BY DEF IInv, SendersOK, SenderOK
  <2> QED BY <1>2, <2>1, SetActiveWellFormed
<1>5. SenderBehind(s)'
  BY <1>2, <1>3, <1>4 DEF SentInv, SendersBehind, SenderBehind
<1> QED BY <1>1, <1>2, <1>5, SentUnchanged

LEMMA SenderLeavesSent ==
    ASSUME IInv, SentInv, NEW s \in Senders, SenderFails(s) \/ SenderEnds(s)
    PROVE  SentInv'
<1>1. IInv' /\ OnlySender(s)
  BY SenderLeavesStep
<1>2. Leave(s) /\ UNCHANGED <<disk, runtime, history>>
  BY DEF SenderFails, SenderEnds
<1>3. /\ phase'[s] = "out" /\ logs'[s].nextIdx = 0 /\ logs'[s].active = 0
      /\ UNCHANGED <<stream, cursorFile, current, appended, retained, acked>>
  BY <1>2 DEF Leave, Goto, IInv, SendersOK, EmptyLog, disk, runtime, history
<1>4. Len(appended) \in Nat
  BY LenProperties DEF IInv, HistoryOK
<1>5. SenderBehind(s)'
  BY <1>3, <1>4 DEF SenderBehind
<1> QED BY <1>1, <1>3, <1>5, SentUnchanged

LEMMA SenderAppendSent ==
    ASSUME IInv, SentInv, NEW s \in Senders, SenderAppend(s)
    PROVE  SentInv'
<1>1. IInv' /\ OnlySender(s)
  BY SenderAppendStep
<1>2. /\ phase'[s] = "writing"
      /\ UNCHANGED <<cursorFile, current, appended, retained, acked>>
  BY DEF SenderAppend, Goto, IInv, SendersOK, runtime
<1>3. WellFormed(logs[s]) /\ logs[s].nextIdx \in Nat
  <2>1. WellFormed(logs[s])
    BY DEF IInv, SendersOK, SenderOK
  <2> QED BY <2>1, LogFields
<1>4. CASE NeedsRoll(logs[s])
  <2>1. /\ stream' = CreateFile(stream, logs[s].nextIdx)
        /\ logs'[s] = RollSegment(logs[s]) /\ fd'[s] = logs[s].nextIdx
    BY <1>4 DEF SenderAppend, IInv, SendersOK
  <2>2. logs'[s].nextIdx = logs[s].nextIdx
    BY <1>3, <2>1, RollSegmentWellFormed
  <2>3. fd'[s] # None
    BY <1>3, <2>1, SharedWalAssumption
  <2>4. SenderBehind(s)'
    BY <1>2, <2>2, <2>3 DEF SentInv, SendersBehind, SenderBehind
  <2>5. /\ DOMAIN stream' = DOMAIN stream \cup {logs[s].nextIdx}
        /\ \A b \in DOMAIN stream : stream'[b] = stream[b]
        /\ logs[s].nextIdx \notin DOMAIN stream => stream'[logs[s].nextIdx] = <<>>
    BY <2>1 DEF CreateFile
  <2>6. FilesEnd'
    <3> SUFFICES ASSUME retained' = {}, NEW b \in DOMAIN stream'
                 PROVE  b + Len(stream'[b]) <= Len(appended')
      BY DEF FilesEnd
    <3>1. CASE b \in DOMAIN stream
      BY <1>2, <2>5, <3>1 DEF SentInv, FilesEnd
    <3>2. CASE b \notin DOMAIN stream
      <4>1. b = logs[s].nextIdx /\ stream'[b] = <<>>
        BY <2>5, <3>2
      <4>2. Len(stream'[b]) = 0
        BY <4>1, EmptySeq
      <4>3. logs[s].nextIdx <= Len(appended')
        BY <1>2 DEF SentInv, SendersBehind, SenderBehind
      <4> QED BY <1>3, <4>1, <4>2, <4>3
    <3> QED BY <3>1, <3>2
  <2>7. ConsumedIsThere'
    BY <1>2, <2>5 DEF SentInv, ConsumedIsThere
  <2>8. Grows
    BY <1>2, LenProperties DEF Grows, IInv, HistoryOK
  <2> QED BY <1>1, <1>2, <2>4, <2>6, <2>7, <2>8, SentFrame, AckedFrame DEF SentInv
<1>5. CASE ~NeedsRoll(logs[s])
  <2>1. UNCHANGED <<stream, logs, fd>>
    BY <1>5 DEF SenderAppend
  <2>2. SenderBehind(s)'
    BY <1>2, <2>1 DEF SentInv, SendersBehind, SenderBehind
  <2> QED BY <1>1, <1>2, <2>1, <2>2, SentUnchanged
<1> QED BY <1>4, <1>5

LEMMA SenderWriteSent ==
    ASSUME IInv, SentInv, NEW s \in Senders, SenderWrite(s)
    PROVE  SentInv'
<1>1. IInv' /\ OnlySender(s)
  BY SenderWriteStep
<1>2. /\ phase[s] = "writing" /\ phase'[s] = "returning"
      /\ UNCHANGED <<cursorFile, current, logs, fd, payload, retained, acked>>
  BY DEF SenderWrite, Goto, IInv, SendersOK, runtime
<1>3. /\ logs[s].active # 0 /\ payload[s] \in Msgs /\ fd[s] \in DOMAIN stream \cup {None}
      /\ logs[s].nextIdx \in Nat
  <2>1. SenderOK(s)
    BY DEF IInv, SendersOK
  <2> QED BY <1>2, <2>1, LogFields DEF SenderOK
<1>4. CASE fd[s] # None
  <2>1. fd[s] \in DOMAIN stream
    BY <1>3, <1>4
  <2>2. /\ stream' = [stream EXCEPT ![fd[s]] = Append(@, Whole(payload[s]))]
        /\ appended' = Append(appended, payload[s])
    BY <1>4 DEF SenderWrite
  <2>3. /\ DOMAIN stream' = DOMAIN stream
        /\ \A b \in DOMAIN stream : b # fd[s] => stream'[b] = stream[b]
        /\ Len(stream'[fd[s]]) = Len(stream[fd[s]]) + 1
    BY <1>3, <2>1, <2>2, WriteFileOK DEF IInv
  <2>4. /\ Len(appended) \in Nat /\ DOMAIN appended = 1..Len(appended)
        /\ Len(appended') = Len(appended) + 1
        /\ DOMAIN appended' = 1..Len(appended) + 1
        /\ \A o \in 1..Len(appended) : appended'[o] = appended[o]
        /\ appended'[Len(appended) + 1] = payload[s]
    <3>1. appended \in Seq(Msgs) /\ appended' \in Seq(Msgs)
      BY <1>1 DEF IInv, HistoryOK
    <3> QED BY <1>3, <2>2, <3>1, AppendProperties, LenProperties
  <2>5. Grows
    BY <1>2, <2>4 DEF Grows
  <2>6. SenderBehind(s)'
    <3> SUFFICES ASSUME retained = {} PROVE SenderBehind(s)'
      BY <1>2 DEF SenderBehind
    <3>1. logs[s].nextIdx <= Len(appended)
      BY DEF SentInv, SendersBehind, SenderBehind
    <3>2. /\ Len(appended) + 1 \in DOMAIN appended'
          /\ logs[s].nextIdx < Len(appended) + 1
      BY <1>3, <2>4, <3>1
    <3>3. logs'[s].nextIdx <= Len(appended')
      BY <1>2, <1>3, <2>4, <3>1
    <3> QED BY <1>2, <1>4, <2>4, <3>2, <3>3 DEF SenderBehind
  <2>7. FilesEnd'
    <3> SUFFICES ASSUME retained = {}, NEW b \in DOMAIN stream
                 PROVE  b + Len(stream'[b]) <= Len(appended')
      BY <1>2, <2>3 DEF FilesEnd
    <3>1. b \in Nat /\ Len(stream[b]) \in Nat /\ b + Len(stream[b]) <= Len(appended)
      BY StreamFiles DEF IInv, SentInv, FilesEnd
    <3>2. Len(stream'[b]) = Len(stream[b]) + (IF b = fd[s] THEN 1 ELSE 0)
      BY <2>3, <3>1
    <3> QED BY <2>4, <3>1, <3>2
  <2>8. ConsumedIsThere'
    <3>1. ASSUME NEW b \in DOMAIN stream, Len(stream[b]) > 0
          PROVE  b \in DOMAIN stream' /\ Len(stream'[b]) > 0
      <4>1. Len(stream[b]) \in Nat
        BY StreamFiles DEF IInv
      <4>2. CASE b = fd[s]
        BY <2>3, <3>1, <4>1, <4>2
      <4>3. CASE b # fd[s]
        BY <2>3, <3>1, <4>3
      <4> QED BY <2>3, <4>2, <4>3
    <3> QED BY <1>2, <3>1 DEF SentInv, ConsumedIsThere
  <2> QED BY <1>1, <1>2, <2>5, <2>6, <2>7, <2>8, SentFrame, AckedFrame DEF SentInv
<1>5. CASE fd[s] = None
  <2>1. UNCHANGED <<stream, appended>> /\ retained # {}
    BY <1>3, <1>5 DEF SenderWrite, SentInv, SendersBehind, SenderBehind
  <2>2. SenderBehind(s)'
    BY <1>2, <2>1 DEF SenderBehind
  <2> QED BY <1>1, <1>2, <2>1, <2>2, SentUnchanged
<1> QED BY <1>4, <1>5

LEMMA SenderReturnSent ==
    ASSUME IInv, SentInv, NEW s \in Senders, SenderReturn(s)
    PROVE  SentInv'
<1>1. IInv' /\ OnlySender(s)
  BY SenderReturnStep
<1>2. /\ phase[s] = "returning" /\ phase'[s] = "ready" /\ fd'[s] = fd[s]
      /\ logs'[s] = IndexAppended(logs[s])
      /\ acked' = acked \cup {[offset |-> logs[s].nextIdx, msg |-> payload[s]]}
      /\ UNCHANGED <<stream, cursorFile, current, appended, retained>>
  BY DEF SenderReturn, Returns, Goto, IInv, SendersOK, disk, runtime
<1>3. WellFormed(logs[s]) /\ Behind(logs[s]) /\ logs[s].active # 0
  BY <1>2 DEF IInv, SendersOK, SenderOK
<1> DEFINE l == logs[s]
           new == logs'[s]
<1>4. l.nextIdx \in Nat /\ new.nextIdx = l.nextIdx + 1 /\ new.active = l.active
  <2>1. WellFormed(l) /\ Behind(l) /\ l.active # 0 /\ new = IndexAppended(l)
    BY <1>2, <1>3
  <2> HIDE DEF l, new
  <2>2. l.active \in DOMAIN l.segments /\ l.nextIdx \in Nat
    BY <2>1, LogFields
  <2> QED BY <2>1, <2>2, IndexAppendedWellFormed DEF Behind
<1>5. SenderBehind(s)
  BY DEF SentInv, SendersBehind
<1>6. DOMAIN appended = 1..Len(appended) /\ Len(appended) \in Nat
  BY LenProperties DEF IInv, HistoryOK
<1>7. retained = {} => \E o \in DOMAIN appended : appended[o] = payload[s] /\ l.nextIdx < o
  BY <1>2, <1>5 DEF SenderBehind
<1> HIDE DEF l, new
<1>8. retained = {} => new.nextIdx <= Len(appended)
  BY <1>4, <1>6, <1>7
<1>9. SenderBehind(s)'
  BY <1>2, <1>4, <1>5, <1>8 DEF SenderBehind, l, new
<1>10. Grows
  BY <1>2, <1>6 DEF Grows
<1>11. AckedAtOrAfter'
  <2> SUFFICES ASSUME retained = {}, NEW a \in acked'
               PROVE  \E o \in DOMAIN appended : appended[o] = a.msg /\ a.offset < o
    BY <1>2 DEF AckedAtOrAfter
  <2>1. CASE a \in acked
    BY <2>1 DEF SentInv, AckedAtOrAfter
  <2>2. CASE a = [offset |-> l.nextIdx, msg |-> payload[s]]
    <3>1. a.offset = l.nextIdx /\ a.msg = payload[s]
      BY <2>2
    <3> QED BY <1>7, <3>1
  <2> QED BY <1>2, <2>1, <2>2 DEF l
<1>12. ConsumedIsThere' /\ FilesEnd'
  BY <1>2 DEF SentInv, ConsumedIsThere, FilesEnd
<1> QED BY <1>1, <1>9, <1>10, <1>11, <1>12, SentFrame DEF SentInv
LEMMA SenderSent ==
    ASSUME IInv, SentInv, NEW s \in Senders, SenderStep(s)
    PROVE  SentInv'
BY SenderListSent, SenderRecoverSent, SenderOpenSent, SenderLeavesSent,
   SenderAppendSent, SenderWriteSent, SenderReturnSent DEF SenderStep

\* A step of the runtime that leaves the stream alone.
LEMMA RuntimeSent ==
    ASSUME SentInv, UNCHANGED <<senders, stream, appended, retained, acked>>,
           ConsumedIsThere'
    PROVE  SentInv'
BY DEF SentInv, FilesEnd, SendersBehind, SenderBehind, AckedAtOrAfter, senders

\* A message in hand was read from a file that has it.
LEMMA PollSent ==
    ASSUME IInv, SentInv, Poll
    PROVE  SentInv'
<1>1. /\ log' = IF CaughtUp THEN Refresh(log, stream) ELSE log
      /\ UNCHANGED <<senders, stream, cursorFile, appended, retained, acked>>
  BY DEF Poll, disk, history
<1>2. /\ WellFormed(log')
      /\ \A i \in DOMAIN log'.segments : log'.segments[i].base \in DOMAIN stream
  BY <1>1, PolledLog
<1> DEFINE offset == log.cur.consumed
<1>3. offset \in Nat /\ StreamOK
  BY LogFields DEF IInv, RuntimeOK
<1>4. CASE Readable(log', stream, offset)
  <2>1. PICK base \in DOMAIN stream, r \in Nat : r + 1 \in DOMAIN stream[base]
    <3> DEFINE entry == log'.index[offset + 1]
    <3>1. /\ offset < Len(log'.index)
          /\ log'.segments[entry.seg].base \in DOMAIN stream
          /\ entry.rec + 1 \in DOMAIN stream[log'.segments[entry.seg].base]
      BY <1>2, <1>3, <1>4, MessageAtFile
    <3>2. offset + 1 \in DOMAIN log'.index
      BY <1>2, <1>3, <3>1, LogFields
    <3>3. entry.rec \in Nat
      BY <1>2, <3>2, LogFields
    <3> QED BY <3>1, <3>3
  <2>2. Len(stream[base]) > 0
    BY <1>3, <2>1, StreamFiles
  <2>3. ConsumedIsThere'
    BY <1>1, <2>2 DEF ConsumedIsThere
  <2> QED BY <1>1, <2>3, RuntimeSent
<1>5. CASE ~Readable(log', stream, offset)
  <2>1. UNCHANGED current
    BY <1>5 DEF Poll
  <2>2. ConsumedIsThere'
    BY <1>1, <2>1 DEF SentInv, ConsumedIsThere
  <2> QED BY <1>1, <2>2, RuntimeSent
<1> QED BY <1>4, <1>5

LEMMA ProcessSent ==
    ASSUME IInv, SentInv, Process \/ DeadLetter
    PROVE  SentInv'
<1>1. /\ current # None /\ current' = None
      /\ UNCHANGED <<senders, stream, appended, retained, acked>>
  BY DEF Process, DeadLetter, Finish
<1>2. ConsumedIsThere'
  BY <1>1 DEF SentInv, ConsumedIsThere
<1> QED BY <1>1, <1>2, RuntimeSent

\* What is truncated was not empty, so something is retained from then on.
LEMMA TruncateSent ==
    ASSUME IInv, SentInv, Truncate
    PROVE  SentInv'
<1>1. cursorFile.consumed > 0 /\ StreamOK
  <2>1. MaxMessages > 0 /\ log.cur.consumed > MaxMessages
    BY DEF Truncate, IInv, RuntimeOK, RetentionExceeded
  <2>2. log.cur.consumed \in Nat /\ log.cur = cursorFile /\ StreamOK
    BY LogFields DEF IInv, RuntimeOK
  <2> QED BY <2>1, <2>2, SharedWalAssumption
<1>2. PICK base \in DOMAIN stream : Len(stream[base]) > 0
  BY <1>1 DEF SentInv, ConsumedIsThere
<1> DEFINE file == stream[base]
           m == file[1].msg
<1>3. file \in Seq(Record) /\ Len(file) \in Nat /\ DOMAIN file = 1..Len(file)
  BY <1>1, StreamFiles
<1>4. file[1] \in Record /\ 1 \in 1..Len(file)
  BY <1>2, <1>3, ElementOfSeq
<1>5. m \in Msgs
  BY <1>4 DEF Record
<1>6. m \in ToSet(Messages(file))
  <2>1. Messages(file)[1] = m /\ DOMAIN Messages(file) = 1..Len(file)
    BY <1>4 DEF Messages
  <2> QED BY <1>4, <2>1 DEF ToSet
<1>7. retained' # {}
  <2>1. retained' = retained \cup {n \in Msgs : \E b \in DOMAIN stream :
                                     n \in ToSet(Messages(stream[b]))}
    BY DEF Truncate
  <2> HIDE DEF m
  <2> QED BY <1>5, <1>6, <2>1
<1>8. ConsumedIsThere'
  BY DEF Truncate, ConsumedIsThere, ZeroCursor, IInv, RuntimeOK
<1> QED BY <1>7, <1>8 DEF SentInv, FilesEnd, SendersBehind, SenderBehind, AckedAtOrAfter

LEMMA RuntimeRestartSent ==
    ASSUME IInv, SentInv, RuntimeOpens \/ RuntimeEnds
    PROVE  SentInv'
<1>1. UNCHANGED <<senders, stream, cursorFile, appended, retained, acked>>
  BY DEF RuntimeOpens, RuntimeEnds, disk, history
<1>2. current' = current \/ current' = None
  BY DEF RuntimeOpens, RuntimeEnds
<1>3. ConsumedIsThere'
  BY <1>1, <1>2 DEF SentInv, ConsumedIsThere
<1> QED BY <1>1, <1>3, RuntimeSent

LEMMA NextSent ==
    ASSUME IInv, SentInv, [Next]_vars
    PROVE  SentInv'
<1>1. CASE Next
  BY <1>1, SenderSent, PollSent, ProcessSent, TruncateSent, RuntimeRestartSent
     DEF Next, RuntimeStep
<1>2. CASE UNCHANGED vars
  BY <1>2 DEF vars, disk, runtime, senders, history, SentInv, ConsumedIsThere,
     FilesEnd, SendersBehind, SenderBehind, AckedAtOrAfter
<1> QED BY <1>1, <1>2

\* However many processes append to the directory at the same time and however
\* their segments roll, the offset Append returns to one of them (wal.go Append,
\* the nextIdx of its own Log) is never beyond the place of its message, until
\* the runtime first truncates the stream.
THEOREM AckedCorrect == Spec => []AckedAtOrAfter
<1>1. Init => IInv /\ SentInv
  BY InitInv, InitSent
<1>2. IInv /\ SentInv /\ [Next]_vars => (IInv /\ SentInv)'
  BY NextInv, NextSent
<1>3. SentInv => AckedAtOrAfter
  BY DEF SentInv
<1> QED BY <1>1, <1>2, <1>3, PTL DEF Spec
-----------------------------------------------------------------------------
(* One segment *)

\* There is one file at most, and it holds the stream as it was appended.
OneFile ==
    /\ DOMAIN stream \subseteq {0}
    /\ 0 \in DOMAIN stream =>
        /\ Len(stream[0]) = Len(appended)
        /\ \A i \in 1..Len(appended) : stream[0][i].msg = appended[i]
    /\ 0 \notin DOMAIN stream => appended = <<>>

\* A sender that found no segment is going to create the first.
OneFileSenders ==
    \A s \in Senders :
        phase[s] = "ready" /\ logs[s].active = 0 => logs[s].nextIdx = 0

\* A Log that knows the first segment at most: offset o is its record o.
OneSegment(l) ==
    /\ Len(l.segments) <= 1
    /\ Len(l.segments) = 0 => l.nextIdx = 0
    /\ \A i \in DOMAIN l.segments : l.segments[i].base = 0
    /\ Len(l.index) = l.nextIdx
    /\ \A o \in 1..Len(l.index) : l.index[o].rec = o - 1

\* The runtime knows no more than there is, and has consumed no more.
OneFileRuntime ==
    /\ OneSegment(log)
    /\ log.nextIdx <= Len(appended)
    /\ cursorFile.consumed <= Len(appended)

\* What holds until a sender rolls, and from the next truncation on again.
FileInv ==
    /\ OneFile
    /\ OneFileRuntime
    /\ StrictAppendOrder
    /\ NothingSkipped

\* The senders know when they may create the first segment whatever was rolled.
SegmentInv == OneFileSenders /\ (~rolled => FileInv)

\* The first segment is added to a Log that knows none.
LEMMA AddFirstSegment ==
    ASSUME NEW l, WellFormed(l), OneSegment(l), Len(l.segments) = 0,
           NEW file \in Seq(Record), ReadAll(file) = file
    PROVE  LET new == AddSegment(l, 0, file)
           IN  /\ WellFormed(new) /\ OneSegment(new) /\ Behind(new)
               /\ new.nextIdx = Len(file) /\ Len(new.segments) = 1
               /\ new.cur = l.cur
<1> DEFINE new == AddSegment(l, 0, file)
           count == Len(file)
           added == [base |-> 0, size |-> count]
           more == Entries(1, 0, count)
<1>1. /\ l.segments \in Seq(Segment) /\ l.index \in Seq(IndexEntry)
      /\ Len(l.index) = 0 /\ l.nextIdx = 0 /\ count \in Nat
  BY LogFields, LenProperties DEF OneSegment
<1>2. l.index = <<>> /\ l.segments = <<>>
  BY <1>1, EmptySeq
<1>3. /\ WellFormed(new)
      /\ new.segments = Append(l.segments, added)
      /\ new.index = l.index \o Entries(Len(l.segments) + 1, 0, count)
      /\ new.nextIdx = IF 0 + count > l.nextIdx THEN 0 + count ELSE l.nextIdx
      /\ new.cur = l.cur
  <2>1. 0 \in Nat
    OBVIOUS
  <2> QED BY <2>1, AddSegmentWellFormed
<1>4. new.nextIdx = count
  <2> HIDE DEF new, count
  <2> QED BY <1>1, <1>3
<1>5. added \in Segment /\ added.base = 0
  BY <1>1 DEF Segment
<1> HIDE DEF added, new
<1>6. Len(new.segments) = 1 /\ new.segments[1] = added
  <2>1. Len(l.segments) = 0
    OBVIOUS
  <2> QED BY <1>1, <1>3, <1>5, <2>1, AppendProperties
<1>7. Len(new.index) = count /\ \A o \in 1..count : new.index[o].rec = o - 1
  <2> HIDE DEF count
  <2>1. /\ more \in Seq(IndexEntry) /\ Len(more) = count
        /\ \A i \in 1..count : more[i] = [seg |-> 1, rec |-> 0 + i - 1]
    BY <1>1, EntriesType
  <2>2. \A i \in 1..count : more[i].rec = i - 1
    <3> HIDE DEF more
    <3> SUFFICES ASSUME NEW i \in 1..count PROVE more[i].rec = i - 1
      OBVIOUS
    <3>1. more[i] = [seg |-> 1, rec |-> 0 + i - 1]
      BY <2>1
    <3>2. more[i].rec = 0 + i - 1
      BY <3>1
    <3> QED BY <3>2
  <2>3. Len(l.segments) + 1 = 1
    OBVIOUS
  <2>4. new.index = <<>> \o more
    BY <1>2, <1>3, <2>3
  <2> HIDE DEF more
  <2>5. new.index = more
    BY <2>1, <2>4, ConcatEmptySeq
  <2> QED BY <2>1, <2>2, <2>5
<1>8. DOMAIN new.segments = {1} /\ new.segments[1].base = 0
  BY <1>3, <1>5, <1>6, LogFields
<1>9. OneSegment(new)
  BY <1>4, <1>6, <1>7, <1>8 DEF OneSegment
<1>10. Behind(new)
  BY <1>1, <1>4, <1>8 DEF Behind
<1> QED BY <1>3, <1>4, <1>6, <1>9, <1>10 DEF new

\* Reading the first segment again.
LEMMA RereadFirstSegment ==
    ASSUME NEW l, WellFormed(l), OneSegment(l), Behind(l), Len(l.segments) = 1,
           NEW file \in Seq(Record), ReadAll(file) = file
    PROVE  LET new == Reread(l, file)
           IN  /\ OneSegment(new)
               /\ new.nextIdx = l.nextIdx \/ new.nextIdx = Len(file)
<1> DEFINE new == Reread(l, file)
           base == Last(l.segments).base
           known == l.nextIdx - base
           count == Len(file)
<1>1. /\ DOMAIN l.segments = {1} /\ l.segments[1].base = 0 /\ l.segments # <<>>
      /\ l.nextIdx \in Nat /\ Len(l.index) = l.nextIdx /\ count \in Nat
      /\ \A o \in 1..Len(l.index) : l.index[o].rec = o - 1
  BY LogFields, LenProperties, EmptySeq DEF OneSegment
<1>2. base = 0 /\ known = l.nextIdx
  BY <1>1 DEF Last
<1>3. /\ WellFormed(new)
      /\ Len(new.segments) = Len(l.segments)
      /\ \A s \in DOMAIN l.segments : new.segments[s].base = l.segments[s].base
      /\ count <= known => new = l
      /\ count > known =>
           /\ new.nextIdx = base + count
           /\ Len(new.index) = Len(l.index) + (count - known)
           /\ \A o \in 1..Len(new.index) :
                new.index[o] =
                   IF o <= Len(l.index) THEN l.index[o]
                   ELSE [seg |-> Len(l.segments),
                         rec |-> known + (o - Len(l.index)) - 1]
  BY <1>1, RereadWellFormed
<1> HIDE DEF new, base, known, count
<1>4. CASE count <= known
  BY <1>3, <1>4 DEF new
<1>5. CASE count > known
  <2>1. new.nextIdx = count /\ Len(new.index) = count
    BY <1>1, <1>2, <1>3, <1>5
  <2>2. ASSUME NEW o \in 1..Len(new.index)
        PROVE  new.index[o].rec = o - 1
    <3>1. CASE o <= Len(l.index)
      <4>1. o \in 1..Len(l.index)
        BY <1>1, <2>1, <3>1
      <4> QED BY <1>1, <1>3, <1>5, <3>1, <4>1
    <3>2. CASE ~(o <= Len(l.index))
      <4> DEFINE r == known + (o - Len(l.index)) - 1
      <4>1. r = o - 1
        BY <1>1, <1>2, <2>1
      <4>2. new.index[o] = [seg |-> Len(l.segments), rec |-> r]
        BY <1>3, <1>5, <3>2
      <4> HIDE DEF r
      <4> QED BY <4>1, <4>2
    <3> QED BY <3>1, <3>2
  <2>3. DOMAIN new.segments = {1} /\ new.segments[1].base = 0 /\ Len(new.segments) = 1
    BY <1>1, <1>3, LogFields
  <2>4. OneSegment(new)
    BY <2>1, <2>2, <2>3 DEF OneSegment
  <2> QED BY <2>1, <2>4 DEF new, count
<1>6. known \in Int /\ count \in Int
  BY <1>1, <1>2
<1> QED BY <1>4, <1>5, <1>6

\* refresh, when there is one file.
LEMMA RefreshOneFile ==
    ASSUME NEW l, WellFormed(l), OneSegment(l), Behind(l), NEW files,
           DOMAIN files \subseteq {0},
           \A b \in DOMAIN files : files[b] \in Seq(Record) /\ ReadAll(files[b]) = files[b],
           \A i \in DOMAIN l.segments : l.segments[i].base \in DOMAIN files
    PROVE  LET new == Refresh(l, files)
           IN  /\ OneSegment(new)
               /\ \/ new.nextIdx = l.nextIdx
                  \/ 0 \in DOMAIN files /\ new.nextIdx = Len(files[0])
<1> DEFINE new == Refresh(l, files)
           unknown == UnknownSegments(l, files)
           grown == IF unknown = {} THEN l ELSE AddSegments(l, files, unknown)
           file == files[0]
<1>1. /\ Len(l.segments) \in {0, 1} /\ DOMAIN l.segments = 1..Len(l.segments)
      /\ l.segments \in Seq(Segment)
      /\ \A i \in DOMAIN l.segments : l.segments[i].base = 0
  <2>1. Len(l.segments) \in Nat /\ Len(l.segments) <= 1
    BY LogFields DEF OneSegment
  <2>2. \A n \in Nat : n <= 1 => n \in {0, 1}
    OBVIOUS
  <2>3. Len(l.segments) \in {0, 1}
    BY <2>1, <2>2
  <2> QED BY <2>3, LogFields DEF OneSegment
<1>2. new = IF grown.segments = <<>> THEN grown
            ELSE Reread(grown, files[Last(grown.segments).base])
  BY DEF Refresh
<1>3. CASE Len(l.segments) = 0 /\ DOMAIN files = {}
  <2>1. unknown = {} /\ l.segments = <<>>
    BY <1>1, <1>3, EmptySeq DEF UnknownSegments
  <2>2. new = l
    BY <1>2, <2>1
  <2> HIDE DEF new
  <2> QED BY <2>2 DEF new
<1>4. ASSUME 0 \in DOMAIN files, WellFormed(grown), OneSegment(grown), Behind(grown),
             Len(grown.segments) = 1,
             grown.nextIdx = l.nextIdx \/ grown.nextIdx = Len(file)
      PROVE  /\ OneSegment(new)
             /\ new.nextIdx = l.nextIdx \/ new.nextIdx = Len(file)
  <2>1. file \in Seq(Record) /\ ReadAll(file) = file
    BY <1>4
  <2> HIDE DEF grown, new, file
  <2>2. grown.segments # <<>> /\ Last(grown.segments).base = 0
    BY <1>4, EmptySeq, LogFields DEF OneSegment, Last
  <2>3. new = Reread(grown, file)
    BY <1>2, <2>2 DEF file
  <2>4. OneSegment(new) /\ (new.nextIdx = grown.nextIdx \/ new.nextIdx = Len(file))
    BY <1>4, <2>1, <2>3, RereadFirstSegment
  <2> QED BY <1>4, <2>4
<1>5. CASE Len(l.segments) = 0 /\ DOMAIN files # {}
  <2>1. DOMAIN files = {0} /\ unknown = {0}
    BY <1>1, <1>5 DEF UnknownSegments
  <2>2. AddSegments(l, files, {0}) = AddSegment(l, 0, file)
    BY AddOneSegment
  <2>3. grown = AddSegment(l, 0, file)
    BY <2>1, <2>2
  <2>4. file \in Seq(Record) /\ ReadAll(file) = file
    BY <2>1
  <2> HIDE DEF grown, file, new
  <2>5. /\ WellFormed(grown) /\ OneSegment(grown) /\ Behind(grown)
        /\ grown.nextIdx = Len(file) /\ Len(grown.segments) = 1
    BY <1>5, <2>3, <2>4, AddFirstSegment
  <2> QED BY <1>4, <2>1, <2>5 DEF new, file
<1>6. CASE Len(l.segments) = 1
  <2>1. 0 \in DOMAIN files /\ DOMAIN files = {0}
    <3>1. 1 \in DOMAIN l.segments
      BY <1>1, <1>6
    <3>2. l.segments[1].base = 0 /\ l.segments[1].base \in DOMAIN files
      BY <1>1, <3>1
    <3> QED BY <3>2
  <2>2. unknown = {}
    BY <1>1, <1>6, <2>1 DEF UnknownSegments
  <2>3. grown = l
    BY <2>2
  <2> HIDE DEF grown, file, new
  <2> QED BY <1>4, <1>6, <2>1, <2>3 DEF new, file
<1> QED BY <1>1, <1>3, <1>5, <1>6
-----------------------------------------------------------------------------
(* The steps, as long as no full segment is rolled *)

LEMMA InitFile == Init => SegmentInv
<1> SUFFICES ASSUME Init PROVE SegmentInv
  OBVIOUS
<1>1. DOMAIN stream = {} /\ appended = <<>> /\ Len(appended) = 0
  BY EmptySeq DEF Init
<1>2. OneFile
  BY <1>1 DEF OneFile
<1>3. OneFileSenders
  BY DEF Init, OneFileSenders
<1>4. OneFileRuntime
  BY <1>1, EmptySeq DEF Init, OneFileRuntime, OneSegment, EmptyLog, ZeroCursor
<1>5. StrictAppendOrder /\ NothingSkipped
  BY DEF Init, StrictAppendOrder, NothingSkipped, ZeroCursor
<1> QED BY <1>2, <1>3, <1>4, <1>5 DEF FileInv, SegmentInv

\* What a step of a sender keeps of the other senders.
LEMMA OneFileOthers ==
    ASSUME IInv, OneFileSenders, NEW s \in Senders, OnlySender(s),
           phase'[s] = "ready" /\ logs'[s].active = 0 => logs'[s].nextIdx = 0
    PROVE  OneFileSenders'
<1> SUFFICES ASSUME NEW t \in Senders, t # s
             PROVE  phase'[t] = "ready" /\ logs'[t].active = 0 => logs'[t].nextIdx = 0
  BY DEF OneFileSenders
<1>1. phase'[t] = phase[t] /\ logs'[t] = logs[t]
  BY DEF OnlySender, IInv, SendersOK
<1> QED BY <1>1 DEF OneFileSenders

\* A step of a sender that does not touch the files.
LEMMA FileUnchanged ==
    ASSUME FileInv,
           UNCHANGED <<stream, cursorFile, log, current, appended, delivered, dead>>
    PROVE  FileInv'
BY DEF FileInv, OneFile, OneFileRuntime, StrictAppendOrder, NothingSkipped

\* A sender without a segment counts from 0.
LEMMA SenderFirst ==
    ASSUME IInv, OneFileSenders, NEW s \in Senders, SenderStep(s)
    PROVE  OneFileSenders'
<1>1. SenderOK(s) /\ OnlySender(s)
  BY SenderInv DEF IInv, SendersOK
<1>2. phase'[s] = "ready" /\ logs'[s].active = 0 => logs'[s].nextIdx = 0
  <2>1. CASE SenderList(s)
    <3>1. logs'[s] = EmptyLog(ZeroCursor)
      BY <1>1, <2>1 DEF SenderList, SenderOK
    <3> QED BY <3>1 DEF EmptyLog
  <2>2. CASE SenderRecover(s)
    BY <2>2 DEF SenderRecover, Goto, IInv, SendersOK
  <2>3. CASE SenderOpen(s)
    <3>1. /\ logs'[s] = [logs[s] EXCEPT !.active = Len(logs[s].segments)]
          /\ logs[s].segments # <<>> /\ WellFormed(logs[s])
      BY <1>1, <2>3 DEF SenderOpen, SenderOK, IInv, SendersOK
    <3>2. logs'[s].active = Len(logs[s].segments)
      BY <3>1, SetActiveWellFormed
    <3>3. Len(logs[s].segments) # 0
      BY <3>1, EmptySeq, LogFields
    <3> QED BY <3>2, <3>3
  <2>4. CASE SenderFails(s) \/ SenderEnds(s)
    BY <2>4 DEF SenderFails, SenderEnds, Leave, Goto, IInv, SendersOK
  <2>5. CASE SenderAppend(s)
    BY <2>5 DEF SenderAppend, Goto, IInv, SendersOK
  <2>6. CASE SenderWrite(s)
    BY <2>6 DEF SenderWrite, Goto, IInv, SendersOK
  <2>7. CASE SenderReturn(s)
    <3> DEFINE l == logs[s]
               new == logs'[s]
    <3>1. /\ WellFormed(l) /\ Behind(l) /\ l.active # 0
          /\ new = IndexAppended(l)
      BY <1>1, <2>7 DEF SenderReturn, Returns, SenderOK, IInv, SendersOK
    <3> HIDE DEF l, new
    <3>2. l.active \in DOMAIN l.segments
      BY <3>1, LogFields
    <3>3. new.active = l.active
      BY <3>1, <3>2, IndexAppendedWellFormed DEF Behind
    <3> QED BY <3>1, <3>3 DEF new
  <2> QED BY <2>1, <2>2, <2>3, <2>4, <2>5, <2>6, <2>7 DEF SenderStep
<1> QED BY <1>1, <1>2, OneFileOthers

\* Opening the log, returning from Append and leaving do not touch the files.
LEMMA SenderReadsFile ==
    ASSUME FileInv, NEW s \in Senders,
           \/ SenderList(s) \/ SenderRecover(s) \/ SenderOpen(s)
           \/ SenderFails(s) \/ SenderEnds(s) \/ SenderReturn(s)
    PROVE  FileInv' /\ rolled' = rolled
<1>1. UNCHANGED <<stream, cursorFile, log, current, appended, delivered, dead, rolled>>
  BY DEF SenderList, SenderRecover, SenderOpen, SenderFails, SenderEnds,
         SenderReturn, Returns, disk, runtime, history
<1> QED BY <1>1, FileUnchanged

\* The only segment a sender creates is the first.
LEMMA SenderAppendFile ==
    ASSUME IInv, OneFileSenders, FileInv, NEW s \in Senders, SenderAppend(s), ~rolled'
    PROVE  FileInv'
<1>1. /\ phase[s] = "ready"
      /\ UNCHANGED <<cursorFile, log, current, appended, delivered, dead>>
  BY DEF SenderAppend, runtime
<1>2. CASE NeedsRoll(logs[s])
  <2>1. logs[s].active = 0
    BY <1>2 DEF SenderAppend
  <2>2. logs[s].nextIdx = 0
    BY <1>1, <2>1 DEF OneFileSenders
  <2>3. stream' = CreateFile(stream, 0)
    BY <1>2, <2>2 DEF SenderAppend
  <2>4. /\ DOMAIN stream' = DOMAIN stream \cup {0}
        /\ stream'[0] = IF 0 \in DOMAIN stream THEN stream[0] ELSE <<>>
    BY <2>3 DEF CreateFile
  <2>5. OneFile'
    <3>1. CASE 0 \in DOMAIN stream
      BY <1>1, <2>4, <3>1 DEF FileInv, OneFile
    <3>2. CASE 0 \notin DOMAIN stream
      <4>1. Len(appended) = 0 /\ stream'[0] = <<>> /\ Len(<<>>) = 0
        BY <2>4, <3>2, EmptySeq DEF FileInv, OneFile
      <4> QED BY <1>1, <2>4, <4>1 DEF FileInv, OneFile
    <3> QED BY <3>1, <3>2
  <2> QED BY <1>1, <2>5 DEF FileInv, OneFileRuntime, StrictAppendOrder, NothingSkipped
<1>3. CASE ~NeedsRoll(logs[s])
  <2>1. UNCHANGED stream
    BY <1>3 DEF SenderAppend
  <2> QED BY <1>1, <2>1, FileUnchanged
<1> QED BY <1>2, <1>3

\* The record that is written is the next of the stream.
LEMMA SenderWriteFile ==
    ASSUME IInv, FileInv, NEW s \in Senders, SenderWrite(s)
    PROVE  FileInv'
<1>1. /\ phase[s] = "writing"
      /\ UNCHANGED <<cursorFile, log, current, delivered, dead>>
  BY DEF SenderWrite, runtime
<1>2. CASE fd[s] = None
  <2>1. UNCHANGED <<stream, appended>>
    BY <1>2 DEF SenderWrite
  <2> QED BY <1>1, <2>1, FileUnchanged
<1>3. CASE fd[s] # None
  <2>1. fd[s] = 0 /\ 0 \in DOMAIN stream /\ payload[s] \in Msgs
    BY <1>1, <1>3 DEF IInv, SendersOK, SenderOK, FileInv, OneFile
  <2>2. /\ stream' = [stream EXCEPT ![0] = Append(@, Whole(payload[s]))]
        /\ appended' = Append(appended, payload[s])
    BY <1>3, <2>1 DEF SenderWrite
  <2>3. /\ DOMAIN stream' = DOMAIN stream
        /\ Len(stream'[0]) = Len(stream[0]) + 1
        /\ \A i \in 1..Len(stream[0]) : stream'[0][i] = stream[0][i]
        /\ stream'[0][Len(stream[0]) + 1] = Whole(payload[s])
    BY <2>1, <2>2, WriteFileOK DEF IInv
  <2>4. /\ appended \in Seq(Msgs) /\ Len(appended) \in Nat
        /\ Len(appended') = Len(appended) + 1
        /\ \A o \in 1..Len(appended) : appended'[o] = appended[o]
        /\ appended'[Len(appended) + 1] = payload[s]
    <3>1. appended \in Seq(Msgs)
      BY DEF IInv, HistoryOK
    <3> QED BY <2>1, <2>2, <3>1, AppendProperties, LenProperties
  <2>5. /\ Len(stream[0]) = Len(appended)
        /\ \A i \in 1..Len(appended) : stream[0][i].msg = appended[i]
    BY <2>1 DEF FileInv, OneFile
  <2>6. OneFile'
    <3>1. ASSUME NEW i \in 1..Len(appended')
          PROVE  stream'[0][i].msg = appended'[i]
      <4>1. CASE i \in 1..Len(appended)
        BY <2>3, <2>4, <2>5, <4>1
      <4>2. CASE i = Len(appended) + 1
        <5>1. Whole(payload[s]).msg = payload[s]
          BY DEF Whole
        <5> QED BY <2>3, <2>4, <2>5, <4>2, <5>1
      <4> QED BY <2>4, <4>1, <4>2
    <3> QED BY <2>1, <2>3, <2>4, <2>5, <3>1 DEF FileInv, OneFile
  <2>7. log.nextIdx \in Nat /\ cursorFile.consumed \in Nat
    <3>1. WellFormed(log) /\ log.cur = cursorFile
      BY DEF IInv, RuntimeOK
    <3> QED BY <3>1, LogFields
  <2>8. OneFileRuntime'
    <3>1. log.nextIdx <= Len(appended) /\ cursorFile.consumed <= Len(appended)
          /\ OneSegment(log)
      BY DEF FileInv, OneFileRuntime
    <3>2. log.nextIdx <= Len(appended') /\ cursorFile.consumed <= Len(appended')
      BY <2>4, <2>7, <3>1
    <3> QED BY <1>1, <3>1, <3>2 DEF OneFileRuntime
  <2>9. StrictAppendOrder'
    <3> SUFFICES ASSUME current # None
                 PROVE  /\ current.offset < Len(appended')
                        /\ current.msg = appended'[current.offset + 1]
      BY <1>1 DEF StrictAppendOrder
    <3>1. /\ current.offset \in Nat /\ current.offset < Len(appended)
          /\ current.msg = appended[current.offset + 1]
      BY DEF IInv, RuntimeOK, FileInv, StrictAppendOrder
    <3>2. current.offset + 1 \in 1..Len(appended)
      BY <2>4, <3>1
    <3> QED BY <2>4, <3>1, <3>2
  <2>10. NothingSkipped'
    <3> SUFFICES ASSUME NEW o \in 1..cursorFile.consumed
                 PROVE  appended'[o] \in delivered \cup dead
      BY <1>1 DEF NothingSkipped
    <3>1. o \in 1..Len(appended)
      BY <2>4, <2>7 DEF FileInv, OneFileRuntime
    <3>2. o <= Len(appended)
      BY <3>1
    <3>3. appended[o] \in delivered \cup dead
      BY <3>2 DEF FileInv, NothingSkipped
    <3> QED BY <2>4, <3>1, <3>3
  <2> QED BY <2>6, <2>8, <2>9, <2>10 DEF FileInv
<1> QED BY <1>2, <1>3

LEMMA SenderFile ==
    ASSUME IInv, SegmentInv, NEW s \in Senders, SenderStep(s)
    PROVE  SegmentInv'
<1>1. OneFileSenders'
  BY SenderFirst DEF SegmentInv
<1>2. ASSUME ~rolled' PROVE FileInv'
  <2>1. ~rolled /\ FileInv
    <3>1. CASE SenderAppend(s)
      <4>1. rolled' = rolled \/ (rolled' = (rolled \/ logs[s].active # 0))
        BY <3>1 DEF SenderAppend
      <4>2. ~rolled
        BY <1>2, <4>1
      <4> QED BY <4>2 DEF SegmentInv
    <3>2. CASE ~SenderAppend(s)
      <4>1. rolled' = rolled
        BY <3>2 DEF SenderStep, SenderList, SenderRecover, SenderOpen, SenderFails,
             SenderEnds, SenderWrite, SenderReturn, Returns, history
      <4> QED BY <1>2, <4>1 DEF SegmentInv
    <3> QED BY <3>1, <3>2
  <2> QED BY <1>2, <2>1, SenderReadsFile, SenderAppendFile, SenderWriteFile
             DEF SenderStep, SegmentInv
<1> QED BY <1>1, <1>2 DEF SegmentInv

\* The message in hand is the stream's at the cursor.
LEMMA PollFile ==
    ASSUME IInv, FileInv, Poll
    PROVE  FileInv'
<1>1. /\ log' = IF CaughtUp THEN Refresh(log, stream) ELSE log
      /\ current = None
      /\ UNCHANGED <<stream, cursorFile, appended, delivered, dead>>
  BY DEF Poll, disk, history
<1>2. /\ WellFormed(log') /\ log'.cur = log.cur
      /\ \A i \in DOMAIN log'.segments : log'.segments[i].base \in DOMAIN stream
  BY <1>1, PolledLog
<1>3. /\ WellFormed(log) /\ OneSegment(log) /\ Behind(log) /\ log.nextIdx <= Len(appended)
      /\ \A i \in DOMAIN log.segments : log.segments[i].base \in DOMAIN stream
      /\ DOMAIN stream \subseteq {0} /\ StreamOK
      /\ log.cur = cursorFile
  BY DEF IInv, RuntimeOK, FileInv, OneFileRuntime, OneFile
<1>4. /\ 0 \in DOMAIN stream => Len(stream[0]) = Len(appended)
      /\ \A b \in DOMAIN stream : stream[b] \in Seq(Record) /\ ReadAll(stream[b]) = stream[b]
      /\ Len(appended) \in Nat
  BY <1>3, StreamFiles, LenProperties DEF IInv, HistoryOK, FileInv, OneFile
<1>5. OneSegment(log') /\ log'.nextIdx <= Len(appended)
  <2>1. CASE CaughtUp
    <3> DEFINE new == Refresh(log, stream)
    <3>1. /\ OneSegment(new)
          /\ \/ new.nextIdx = log.nextIdx
             \/ 0 \in DOMAIN stream /\ new.nextIdx = Len(stream[0])
      BY <1>3, <1>4, RefreshOneFile
    <3>2. log' = new
      BY <1>1, <2>1
    <3> HIDE DEF new
    <3> QED BY <1>3, <1>4, <3>1, <3>2
  <2>2. CASE ~CaughtUp
    BY <1>1, <1>3, <2>2
  <2> QED BY <2>1, <2>2
<1>6. OneFileRuntime'
  BY <1>1, <1>5 DEF FileInv, OneFileRuntime
<1> DEFINE offset == log.cur.consumed
<1>7. StrictAppendOrder'
  <2>1. CASE UNCHANGED current
    BY <1>1, <2>1 DEF StrictAppendOrder
  <2>2. CASE /\ offset < log'.nextIdx
             /\ Readable(log', stream, offset)
             /\ current' = [offset |-> offset, msg |-> MessageAt(log', stream, offset)]
    <3> DEFINE entry == log'.index[offset + 1]
               base == log'.segments[entry.seg].base
    <3>1. offset \in Nat /\ log'.nextIdx \in Nat
      BY <1>2, <1>3, LogFields
    <3>2. /\ base \in DOMAIN stream /\ offset < Len(log'.index)
          /\ MessageAt(log', stream, offset) = stream[base][entry.rec + 1].msg
      BY <1>2, <1>3, <2>2, <3>1, MessageAtFile
    <3>3. base = 0
      BY <1>3, <3>2
    <3>4. Len(log'.index) \in Nat
      BY <1>2, LogFields
    <3>5. offset + 1 \in 1..Len(log'.index)
      <4> HIDE DEF offset
      <4> QED BY <3>1, <3>2, <3>4
    <3>6. entry.rec = (offset + 1) - 1
      BY <1>5, <3>5 DEF OneSegment
    <3>7. entry.rec + 1 = offset + 1
      <4> HIDE DEF entry
      <4> QED BY <3>1, <3>6
    <3>8. offset < Len(appended) /\ offset + 1 \in 1..Len(appended)
      BY <1>4, <1>5, <2>2, <3>1
    <3>9. stream[0][offset + 1].msg = appended[offset + 1]
      BY <3>2, <3>3, <3>8 DEF FileInv, OneFile
    <3> HIDE DEF entry, base
    <3>10. current'.msg = appended[offset + 1] /\ current'.offset = offset
      BY <2>2, <3>2, <3>3, <3>7, <3>9
    <3> HIDE DEF offset
    <3> QED BY <1>1, <3>8, <3>10 DEF StrictAppendOrder
  <2> QED BY <2>1, <2>2 DEF Poll
<1> QED BY <1>1, <1>6, <1>7 DEF FileInv, OneFile, NothingSkipped

\* The cursor passes the message that has been handled and no other.
LEMMA ProcessFile ==
    ASSUME IInv, FileInv, Process \/ DeadLetter
    PROVE  FileInv'
<1>1. /\ log' = [log EXCEPT !.cur = AdvanceConsumed(@, current.offset)]
      /\ cursorFile' = log'.cur /\ current # None /\ current' = None
      /\ delivered' \cup dead' = delivered \cup dead \cup {current.msg}
      /\ UNCHANGED <<stream, appended>>
  BY DEF Process, DeadLetter, Finish
<1>2. /\ WellFormed(log) /\ log.cur = cursorFile /\ cursorFile.consumed \in Nat
      /\ current.offset = cursorFile.consumed
      /\ cursorFile \in CursorState
  BY <1>1, LogFields DEF IInv, RuntimeOK
<1> DEFINE cur == AdvanceConsumed(log.cur, current.offset)
<1>3. /\ cur \in CursorState /\ cur.consumed = cursorFile.consumed + 1
  <2>1. /\ cur \in CursorState
        /\ cur.consumed = IF cursorFile.consumed + 1 > cursorFile.consumed
                          THEN cursorFile.consumed + 1 ELSE cursorFile.consumed
    BY <1>2, AdvanceConsumedType
  <2> HIDE DEF cur
  <2> QED BY <1>2, <2>1
<1>4. log' = [log EXCEPT !.cur = cur]
  BY <1>1
<1> HIDE DEF cur
<1>5. /\ log'.segments = log.segments /\ log'.nextIdx = log.nextIdx
      /\ log'.index = log.index /\ log'.cur = cur
  BY <1>2, <1>3, <1>4, SetCursorWellFormed
<1>6. /\ current.offset < Len(appended) /\ current.msg = appended[current.offset + 1]
      /\ Len(appended) \in Nat
  BY <1>1, LenProperties DEF FileInv, StrictAppendOrder, IInv, HistoryOK
<1>7. cursorFile'.consumed = cursorFile.consumed + 1
  BY <1>1, <1>3, <1>5
<1>8. OneFileRuntime'
  <2>1. cursorFile'.consumed <= Len(appended)
    BY <1>2, <1>6, <1>7
  <2> QED BY <1>1, <1>5, <2>1 DEF FileInv, OneFileRuntime, OneSegment
<1>9. NothingSkipped'
  <2> SUFFICES ASSUME NEW o \in 1..cursorFile.consumed + 1, o <= Len(appended)
               PROVE  appended[o] \in delivered' \cup dead'
    BY <1>1, <1>7 DEF NothingSkipped
  <2>1. CASE o \in 1..cursorFile.consumed
    BY <1>1, <2>1 DEF FileInv, NothingSkipped
  <2>2. CASE o = cursorFile.consumed + 1
    BY <1>1, <1>2, <1>6, <2>2
  <2> QED BY <1>2, <2>1, <2>2
<1>10. StrictAppendOrder'
  BY <1>1 DEF StrictAppendOrder
<1> QED BY <1>1, <1>8, <1>9, <1>10 DEF FileInv, OneFile

\* The truncation leaves nothing that a roll could have disturbed.
LEMMA TruncateFile ==
    ASSUME IInv, Truncate
    PROVE  FileInv'
<1>1. /\ stream' = <<>> /\ log' = EmptyLog(ZeroCursor) /\ cursorFile' = ZeroCursor
      /\ appended' = <<>> /\ current' = None
  BY DEF Truncate, IInv, RuntimeOK
<1>2. DOMAIN stream' = {} /\ Len(appended') = 0
  BY <1>1, EmptySeq
<1>3. OneFileRuntime'
  BY <1>1, <1>2, EmptySeq DEF OneFileRuntime, OneSegment, EmptyLog, ZeroCursor
<1>4. OneFile'
  BY <1>1, <1>2 DEF OneFile
<1>5. StrictAppendOrder' /\ NothingSkipped'
  BY <1>1 DEF StrictAppendOrder, NothingSkipped, ZeroCursor
<1> QED BY <1>3, <1>4, <1>5 DEF FileInv

LEMMA RuntimeOpensFile ==
    ASSUME IInv, FileInv, RuntimeOpens
    PROVE  FileInv'
<1> DEFINE empty == EmptyLog(cursorFile)
<1>1. /\ log' = AddSegments(empty, stream, DOMAIN stream)
      /\ UNCHANGED <<stream, cursorFile, current, appended, delivered, dead>>
  BY DEF RuntimeOpens, disk, history
<1>2. /\ WellFormed(empty) /\ OneSegment(empty) /\ Len(empty.segments) = 0
      /\ empty.nextIdx = 0
  <2>1. cursorFile \in CursorState
    BY LogFields DEF IInv, RuntimeOK
  <2> QED BY <2>1, EmptyLogOK, EmptySeq DEF EmptyLog, OneSegment
<1>3. DOMAIN stream \subseteq {0} /\ StreamOK /\ Len(appended) \in Nat
  BY LenProperties DEF FileInv, OneFile, IInv, HistoryOK
<1> HIDE DEF empty
<1>4. OneSegment(log') /\ log'.nextIdx <= Len(appended)
  <2>1. CASE DOMAIN stream = {}
    BY <1>1, <1>2, <1>3, <2>1, AddNoSegment
  <2>2. CASE DOMAIN stream = {0}
    <3> DEFINE file == stream[0]
    <3>1. log' = AddSegment(empty, 0, file)
      BY <1>1, <2>2, AddOneSegment
    <3>2. /\ file \in Seq(Record) /\ ReadAll(file) = file
          /\ Len(file) = Len(appended)
      BY <1>3, <2>2, StreamFiles DEF FileInv, OneFile
    <3> HIDE DEF file
    <3>3. OneSegment(log') /\ log'.nextIdx = Len(file)
      BY <1>2, <3>1, <3>2, AddFirstSegment
    <3> QED BY <1>3, <3>2, <3>3
  <2> QED BY <1>3, <2>1, <2>2
<1>5. OneFileRuntime'
  BY <1>1, <1>4 DEF FileInv, OneFileRuntime
<1> QED BY <1>1, <1>5 DEF FileInv, OneFile, StrictAppendOrder, NothingSkipped

LEMMA RuntimeEndsFile ==
    ASSUME FileInv, RuntimeEnds
    PROVE  FileInv'
<1>1. /\ current' = None
      /\ UNCHANGED <<stream, cursorFile, log, appended, delivered, dead>>
  BY DEF RuntimeEnds, disk
<1> QED BY <1>1 DEF FileInv, OneFile, OneFileRuntime, StrictAppendOrder, NothingSkipped

LEMMA RuntimeFile ==
    ASSUME IInv, SegmentInv, RuntimeStep \/ RuntimeOpens \/ RuntimeEnds
    PROVE  SegmentInv'
<1>1. UNCHANGED <<phase, logs>>
  BY DEF RuntimeStep, Poll, Process, DeadLetter, Finish, Truncate, RuntimeOpens,
         RuntimeEnds, senders
<1>2. OneFileSenders'
  BY <1>1 DEF SegmentInv, OneFileSenders
<1>3. CASE Truncate
  BY <1>2, <1>3, TruncateFile DEF SegmentInv
<1>4. CASE ~Truncate
  <2>1. rolled' = rolled
    BY <1>4 DEF RuntimeStep, Poll, Process, DeadLetter, Finish, RuntimeOpens,
         RuntimeEnds, history
  <2> QED BY <1>2, <1>4, <2>1, PollFile, ProcessFile, RuntimeOpensFile, RuntimeEndsFile
             DEF SegmentInv, RuntimeStep
<1> QED BY <1>3, <1>4

LEMMA NextFile ==
    ASSUME IInv, SegmentInv, [Next]_vars
    PROVE  SegmentInv'
<1>1. CASE Next
  BY <1>1, SenderFile, RuntimeFile DEF Next
<1>2. CASE UNCHANGED vars
  BY <1>2 DEF vars, disk, runtime, senders, history, SegmentInv, FileInv, OneFile,
     OneFileSenders, OneFileRuntime, StrictAppendOrder, NothingSkipped
<1> QED BY <1>1, <1>2

\* As long as senders only append to the first segment, however many of them and
\* of the messages there are, one file holds the stream in append order and the
\* runtime's Log is a prefix of it (wal.go Append, refresh); a truncation takes
\* the directory back to that state, whatever was rolled before (wal.go Truncate).
THEOREM OneSegmentCorrect == Spec => []SegmentInv
<1>1. Init => IInv /\ SegmentInv
  BY InitInv, InitFile
<1>2. IInv /\ SegmentInv /\ [Next]_vars => (IInv /\ SegmentInv)'
  BY NextInv, NextFile
<1> QED BY <1>1, <1>2, PTL DEF Spec

\* From the start, and from each truncation, until a sender rolls a full segment,
\* the message the runtime takes for an offset is the one that reached the stream
\* in that place, however the senders interleave (store.go: the store "never ...
\* reorders messages").
THEOREM OrderCorrect == Spec => [](~rolled => StrictAppendOrder)
<1>1. SegmentInv => (~rolled => StrictAppendOrder)
  BY DEF SegmentInv, FileInv
<1> QED BY <1>1, OneSegmentCorrect, PTL

\* Over the same stretches everything before the durable cursor was answered by
\* the neb or dead-lettered, although the runtime may be killed at any point
\* (store.go: the store "never skips" messages).
THEOREM SkippedCorrect == Spec => [](~rolled => NothingSkipped)
<1>1. SegmentInv => (~rolled => NothingSkipped)
  BY DEF SegmentInv, FileInv
<1> QED BY <1>1, OneSegmentCorrect, PTL
=============================================================================
