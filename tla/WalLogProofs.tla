---------------------------- MODULE WalLogProofs ----------------------------
(***************************************************************************)
(* Lemmas about the operators of WalLog, for every set of messages and     *)
(* every segment size.  WalProofs and SharedWalProofs rest on them.        *)
(***************************************************************************)
EXTENDS WalLog, SequenceTheorems, FiniteSetTheorems, TLAPS

\* A file of whole records is read whole: no record of it is discarded, and
\* no checksum is wrong (readAll, segment.go).
LEMMA ReadWholeFile ==
    ASSUME NEW file, \A r \in DOMAIN file : file[r].missing = 0
    PROVE  Torn(file) = {} /\ ReadAll(file) = file /\ ~Corrupt(file)
<1>1. Torn(file) = {}
  BY DEF Torn
<1> QED
  BY <1>1 DEF ReadAll, Corrupt

\* The types of the fields of a well-formed Log (wal.go Log).
LEMMA LogFields ==
    ASSUME NEW l, WellFormed(l)
    PROVE  /\ l.segments \in Seq(Segment)
           /\ l.active \in Nat /\ l.nextIdx \in Nat
           /\ l.active <= Len(l.segments)
           /\ l.index \in Seq(IndexEntry)
           /\ l.cur \in CursorState
           /\ l.cur.consumed \in Nat /\ l.cur.postProcessed \in Nat
           /\ Len(l.segments) \in Nat /\ DOMAIN l.segments = 1..Len(l.segments)
           /\ Len(l.index) \in Nat /\ DOMAIN l.index = 1..Len(l.index)
           /\ \A s \in DOMAIN l.segments :
                l.segments[s].base \in Nat /\ l.segments[s].size \in Nat
           /\ \A o \in DOMAIN l.index :
                /\ l.index[o].seg \in DOMAIN l.segments
                /\ l.index[o].seg \in Nat /\ l.index[o].rec \in Nat
<1>1. /\ l.segments \in Seq(Segment)
      /\ l.active \in Nat /\ l.nextIdx \in Nat
      /\ l.index \in Seq(IndexEntry)
      /\ l.cur \in CursorState
  BY DEF WellFormed, Log
<1>2. l.cur.consumed \in Nat /\ l.cur.postProcessed \in Nat
  BY <1>1 DEF CursorState
<1>3. \A s \in DOMAIN l.segments :
        l.segments[s].base \in Nat /\ l.segments[s].size \in Nat
  <2>1. \A s \in DOMAIN l.segments : l.segments[s] \in Segment
    BY <1>1, ElementOfSeq, LenProperties
  <2> QED BY <2>1 DEF Segment
<1>4. \A o \in DOMAIN l.index : l.index[o].seg \in Nat /\ l.index[o].rec \in Nat
  <2>1. \A o \in DOMAIN l.index : l.index[o] \in IndexEntry
    BY <1>1, ElementOfSeq, LenProperties
  <2> QED BY <2>1 DEF IndexEntry
<1> QED BY <1>1, <1>2, <1>3, <1>4, LenProperties DEF WellFormed

\* The cursor never moves back and stays a cursor (wal.go MarkProcessed,
\* retention.go DeadLetter).
LEMMA AdvanceConsumedType ==
    ASSUME NEW c \in CursorState, NEW offset \in Nat
    PROVE  /\ AdvanceConsumed(c, offset) \in CursorState
           /\ AdvanceConsumed(c, offset).postProcessed = c.postProcessed
           /\ AdvanceConsumed(c, offset).consumed =
                IF offset + 1 > c.consumed THEN offset + 1 ELSE c.consumed
BY DEF AdvanceConsumed, CursorState

\* Marking a message post-processed leaves the consumed count alone and
\* moves the other one to a type-correct value (wal.go MarkPostProcessed).
LEMMA AdvancePostProcessedType ==
    ASSUME NEW c \in CursorState, NEW offset \in Nat
    PROVE  /\ AdvancePostProcessed(c, offset) \in CursorState
           /\ AdvancePostProcessed(c, offset).consumed = c.consumed
           /\ AdvancePostProcessed(c, offset).postProcessed =
                IF offset > c.postProcessed THEN offset ELSE c.postProcessed
BY DEF AdvancePostProcessed, CursorState

\* The steps on a Log keep it well formed and change the fields they are
\* about (wal.go Open, rollSegment, Append, recover).
LEMMA EmptyLogWellFormed ==
    ASSUME NEW c \in CursorState
    PROVE  WellFormed(EmptyLog(c))
BY EmptySeq DEF WellFormed, EmptyLog, Log

\* Moving the cursor in memory leaves the rest of the Log as it is.
LEMMA SetCursorWellFormed ==
    ASSUME NEW l, WellFormed(l), NEW c \in CursorState
    PROVE  /\ WellFormed([l EXCEPT !.cur = c])
           /\ [l EXCEPT !.cur = c].segments = l.segments
           /\ [l EXCEPT !.cur = c].active = l.active
           /\ [l EXCEPT !.cur = c].nextIdx = l.nextIdx
           /\ [l EXCEPT !.cur = c].index = l.index
           /\ [l EXCEPT !.cur = c].cur = c
BY DEF WellFormed, Log

\* Rolling adds one empty segment and activates it (wal.go rollSegment).
LEMMA RollSegmentWellFormed ==
    ASSUME NEW l, WellFormed(l)
    PROVE  /\ WellFormed(RollSegment(l))
           /\ RollSegment(l).segments = Append(l.segments, [base |-> l.nextIdx, size |-> 0])
           /\ RollSegment(l).active = Len(l.segments) + 1
           /\ RollSegment(l).nextIdx = l.nextIdx
           /\ RollSegment(l).index = l.index
           /\ RollSegment(l).cur = l.cur
<1> DEFINE segs == Append(l.segments, [base |-> l.nextIdx, size |-> 0])
<1>1. /\ RollSegment(l).segments = segs
      /\ RollSegment(l).active = Len(l.segments) + 1
      /\ RollSegment(l).nextIdx = l.nextIdx
      /\ RollSegment(l).index = l.index
      /\ RollSegment(l).cur = l.cur
  BY DEF RollSegment, WellFormed, Log
<1>2. segs \in Seq(Segment) /\ Len(segs) = Len(l.segments) + 1
  <2>1. [base |-> l.nextIdx, size |-> 0] \in Segment
    BY LogFields DEF Segment
  <2> QED BY <2>1, LogFields, AppendProperties
<1>3. DOMAIN segs = 1..Len(l.segments) + 1
  BY <1>2, LogFields
<1>4. RollSegment(l) \in Log
  <2>1. RollSegment(l) = [l EXCEPT !.segments = segs, !.active = Len(l.segments) + 1]
    BY DEF RollSegment
  <2>2. l \in Log /\ Len(l.segments) + 1 \in Nat
    BY LogFields DEF WellFormed
  <2> HIDE DEF segs
  <2> QED BY <1>2, <2>1, <2>2 DEF Log
<1> QED BY <1>1, <1>2, <1>3, <1>4, LogFields DEF WellFormed

\* An indexed record: its entry comes last and its segment has grown by one.
LEMMA IndexAppendedWellFormed ==
    ASSUME NEW l, WellFormed(l), l.active # 0,
           l.segments[l.active].base <= l.nextIdx
    PROVE  LET new == IndexAppended(l)
               entry == [seg |-> Len(l.segments),
                         rec |-> l.nextIdx - l.segments[l.active].base]
           IN  /\ WellFormed(new)
               /\ Len(new.segments) = Len(l.segments)
               /\ \A s \in DOMAIN l.segments :
                    /\ new.segments[s].base = l.segments[s].base
                    /\ new.segments[s].size =
                         l.segments[s].size + (IF s = l.active THEN 1 ELSE 0)
               /\ new.active = l.active
               /\ new.nextIdx = l.nextIdx + 1
               /\ new.index = Append(l.index, entry)
               /\ new.cur = l.cur
<1> DEFINE new == IndexAppended(l)
           entry == [seg |-> Len(l.segments),
                     rec |-> l.nextIdx - l.segments[l.active].base]
           segs == [l.segments EXCEPT ![l.active].size = @ + 1]
           idx == Append(l.index, entry)
<1>1. l \in Log /\ l.active \in DOMAIN l.segments /\ Len(l.segments) \in DOMAIN l.segments
  BY LogFields DEF WellFormed
<1>2. entry \in IndexEntry
  BY <1>1, LogFields DEF IndexEntry
<1>3. /\ idx \in Seq(IndexEntry)
      /\ Len(idx) = Len(l.index) + 1
      /\ \A o \in 1..Len(l.index) : idx[o] = l.index[o]
      /\ idx[Len(l.index) + 1] = entry
  BY <1>2, LogFields, AppendProperties
<1>4. /\ segs \in Seq(Segment)
      /\ Len(segs) = Len(l.segments)
      /\ \A s \in DOMAIN l.segments :
           /\ segs[s].base = l.segments[s].base
           /\ segs[s].size = l.segments[s].size + (IF s = l.active THEN 1 ELSE 0)
  <2>1. l.segments \in Seq(Segment)
    BY LogFields
  <2>2. l.segments[l.active] \in Segment
    BY <1>1, <2>1, LogFields, ElementOfSeq
  <2> DEFINE grown == [l.segments[l.active] EXCEPT !.size = @ + 1]
  <2>3. /\ grown \in Segment
        /\ grown.base = l.segments[l.active].base
        /\ grown.size = l.segments[l.active].size + 1
    BY <2>2 DEF Segment
  <2>4. segs = [l.segments EXCEPT ![l.active] = grown]
    OBVIOUS
  <2> HIDE DEF grown
  <2>5. segs \in Seq(Segment) /\ Len(segs) = Len(l.segments)
    BY <1>1, <2>1, <2>3, <2>4, ExceptSeq
  <2>6. \A s \in DOMAIN l.segments :
          segs[s] = IF s = l.active THEN grown ELSE l.segments[s]
    BY <2>1, <2>4
  <2> QED BY <1>1, <2>3, <2>5, <2>6, LogFields
<1>5. new = [l EXCEPT !.segments = segs, !.index = idx, !.nextIdx = l.nextIdx + 1]
  BY DEF IndexAppended
<1> HIDE DEF segs, idx, new, entry
<1>6. /\ new \in Log
      /\ new.segments = segs /\ new.index = idx
      /\ new.nextIdx = l.nextIdx + 1 /\ new.active = l.active /\ new.cur = l.cur
  <2>1. l.nextIdx + 1 \in Nat
    BY <1>1 DEF Log
  <2>2. new \in Log
    BY <1>1, <1>3, <1>4, <1>5, <2>1 DEF Log
  <2> QED BY <1>1, <1>5, <2>2 DEF Log
<1>7. \A o \in DOMAIN idx : idx[o].seg \in DOMAIN segs
  <2>1. DOMAIN segs = DOMAIN l.segments /\ DOMAIN idx = 1..Len(l.index) + 1
    BY <1>3, <1>4, LogFields, LenProperties
  <2>2. entry.seg \in DOMAIN l.segments
    BY <1>1 DEF entry
  <2>3. \A o \in 1..Len(l.index) : l.index[o].seg \in DOMAIN l.segments
    BY LogFields
  <2>4. Len(l.index) \in Nat
    BY LogFields
  <2> QED BY <1>3, <2>1, <2>2, <2>3, <2>4
<1>8. WellFormed(new)
  BY <1>4, <1>6, <1>7, LogFields DEF WellFormed
<1> QED BY <1>4, <1>6, <1>8 DEF new, idx, entry

\* The index entries of a run of records: their number and their type.
LEMMA EntriesType ==
    ASSUME NEW seg \in Nat, NEW first \in Nat, NEW count \in Nat
    PROVE  /\ Entries(seg, first, count) \in Seq(IndexEntry)
           /\ Len(Entries(seg, first, count)) = count
           /\ \A i \in 1..count :
                Entries(seg, first, count)[i] = [seg |-> seg, rec |-> first + i - 1]
<1>1. \A i \in 1..count : [seg |-> seg, rec |-> first + i - 1] \in IndexEntry
  BY DEF IndexEntry
<1> QED BY <1>1, IsASeq DEF Entries

\* An added segment file: it comes last, its records are indexed behind the
\* others, and nextIdx reaches its end (wal.go recover, refresh).
LEMMA AddSegmentWellFormed ==
    ASSUME NEW l, WellFormed(l), NEW base \in Nat, NEW file \in Seq(Record),
           ReadAll(file) = file
    PROVE  LET new == AddSegment(l, base, file)
           IN  /\ WellFormed(new)
               /\ new.segments = Append(l.segments, [base |-> base, size |-> Len(file)])
               /\ new.index = l.index \o Entries(Len(l.segments) + 1, 0, Len(file))
               /\ new.nextIdx = IF base + Len(file) > l.nextIdx
                                THEN base + Len(file) ELSE l.nextIdx
               /\ new.active = l.active
               /\ new.cur = l.cur
<1> DEFINE new == AddSegment(l, base, file)
           count == Len(file)
           segs == Append(l.segments, [base |-> base, size |-> count])
           more == Entries(Len(l.segments) + 1, 0, count)
           idx == l.index \o more
           next == IF base + count > l.nextIdx THEN base + count ELSE l.nextIdx
<1>1. /\ l \in Log /\ count \in Nat /\ next \in Nat
      /\ Len(l.segments) \in Nat /\ Len(l.index) \in Nat
      /\ DOMAIN l.segments = 1..Len(l.segments)
  BY LogFields, LenProperties DEF WellFormed
<1>2. segs \in Seq(Segment) /\ Len(segs) = Len(l.segments) + 1
  <2>1. [base |-> base, size |-> count] \in Segment
    BY <1>1 DEF Segment
  <2> QED BY <2>1, LogFields, AppendProperties
<1>3. /\ more \in Seq(IndexEntry) /\ Len(more) = count
      /\ \A i \in 1..count : more[i].seg = Len(l.segments) + 1
  <2>1. Len(l.segments) + 1 \in Nat
    BY <1>1
  <2>2. 0 \in Nat
    OBVIOUS
  <2> HIDE DEF count
  <2>3. \A i \in 1..count : more[i] = [seg |-> Len(l.segments) + 1, rec |-> 0 + i - 1]
    BY <1>1, <2>1, <2>2, EntriesType
  <2>4. more \in Seq(IndexEntry) /\ Len(more) = count
    BY <1>1, <2>1, <2>2, EntriesType
  <2>5. \A i \in 1..count : more[i].seg = Len(l.segments) + 1
    <3> HIDE DEF more
    <3> SUFFICES ASSUME NEW i \in 1..count PROVE more[i].seg = Len(l.segments) + 1
      OBVIOUS
    <3>1. more[i] = [seg |-> Len(l.segments) + 1, rec |-> 0 + i - 1]
      BY <2>3
    <3> QED BY <3>1
  <2> QED BY <2>4, <2>5
<1>4. l.index \in Seq(IndexEntry) /\ \A o \in 1..Len(l.index) : l.index[o].seg \in DOMAIN l.segments
  BY LogFields
<1>5. new = [l EXCEPT !.segments = segs, !.index = idx, !.nextIdx = next]
  BY DEF AddSegment
<1> HIDE DEF segs, more, new, next, count
<1>6. /\ idx \in Seq(IndexEntry) /\ Len(idx) = Len(l.index) + count
      /\ \A i \in 1..Len(l.index) + count :
           idx[i] = IF i <= Len(l.index) THEN l.index[i] ELSE more[i - Len(l.index)]
  BY <1>3, <1>4, ConcatProperties
<1>7. \A o \in 1..Len(idx) : idx[o].seg \in 1..Len(segs)
  <2> SUFFICES ASSUME NEW o \in 1..Len(idx) PROVE idx[o].seg \in 1..Len(segs)
    OBVIOUS
  <2>1. CASE o <= Len(l.index)
    BY <1>1, <1>2, <1>4, <1>6, <2>1
  <2>2. CASE ~(o <= Len(l.index))
    <3>1. o - Len(l.index) \in 1..count
      BY <1>1, <1>6, <2>2
    <3> QED BY <1>1, <1>2, <1>3, <1>6, <2>2, <3>1
  <2> QED BY <2>1, <2>2
<1> HIDE DEF idx
<1>8. /\ new \in Log
      /\ new.segments = segs /\ new.index = idx /\ new.nextIdx = next
      /\ new.active = l.active /\ new.cur = l.cur
  <2>1. new \in Log
    BY <1>1, <1>2, <1>5, <1>6 DEF Log
  <2> QED BY <1>1, <1>5, <2>1 DEF Log
<1>9. WellFormed(new)
  <2>1. DOMAIN segs = 1..Len(segs) /\ DOMAIN idx = 1..Len(idx)
    BY <1>2, <1>6, LenProperties
  <2>2. l.active \in Nat /\ l.active <= Len(l.segments)
    BY LogFields
  <2> QED BY <1>1, <1>2, <1>7, <1>8, <2>1, <2>2 DEF WellFormed
<1> QED BY <1>8, <1>9 DEF new, segs, idx, more, next, count

\* Activating the last segment leaves the Log well-formed (wal.go recover).
LEMMA SetActiveWellFormed ==
    ASSUME NEW l, WellFormed(l)
    PROVE  LET new == [l EXCEPT !.active = Len(l.segments)]
           IN  /\ WellFormed(new)
               /\ new.segments = l.segments /\ new.index = l.index
               /\ new.nextIdx = l.nextIdx /\ new.cur = l.cur
               /\ new.active = Len(l.segments)
<1>1. l \in Log /\ Len(l.segments) \in Nat
  BY LogFields DEF WellFormed
<1> QED BY <1>1 DEF WellFormed, Log

-----------------------------------------------------------------------------
(* The loop over several segment files.  AddSegments is a recursion over   *)
(* the subsets of the bases; what holds of it is proved by considering a   *)
(* smallest subset for which it would not hold.                            *)

\* No other element of T is a subset of s.
Minimal(s, T) == s \in T /\ \A t \in T : t \subseteq s => t = s

\* Among some subsets of a finite set there is one without a smaller one.
LEMMA MinimalSubset ==
    ASSUME NEW S, IsFiniteSet(S), NEW T \in SUBSET (SUBSET S), NEW u \in T
    PROVE  \E s : Minimal(s, T)
<1>1. T \subseteq FiniteSubsetsOf(S) /\ T # {}
  BY FS_FiniteSubsetsOfFinite
<1>2. PICK s \in T : \A t \in T : <<t, s>> \notin StrictSubsetOrdering(S)
  BY <1>1, FS_StrictSubsetOrderingWellFounded, WFMin
<1>3. ASSUME NEW t \in T, t \subseteq s, t # s
      PROVE  FALSE
  <2>1. <<t, s>> \in (SUBSET S) \X (SUBSET S)
    OBVIOUS
  <2>2. <<t, s>>[1] = t /\ <<t, s>>[2] = s
    OBVIOUS
  <2>3. <<t, s>> \in StrictSubsetOrdering(S)
    BY <1>3, <2>1, <2>2 DEF StrictSubsetOrdering
  <2> QED BY <1>2, <2>3
<1>4. Minimal(s, T)
  BY <1>3 DEF Minimal
<1> QED BY <1>4

\* A finite, non-empty set of natural numbers has a greatest element.
LEMMA MaxOfNaturals ==
    ASSUME NEW S \in SUBSET Nat, IsFiniteSet(S), S # {}
    PROVE  Max(S) \in S /\ \A y \in S : y <= Max(S)
<1> DEFINE HasMax(s) == \E x \in s : \A y \in s : x >= y
           T == {s \in SUBSET S : s # {} /\ ~HasMax(s)}
<1>1. ASSUME T # {}
      PROVE  FALSE
  <2>1. PICK s : Minimal(s, T)
    <3>1. T \in SUBSET (SUBSET S)
      OBVIOUS
    <3>2. PICK u \in T : TRUE
      BY <1>1
    <3> HIDE DEF T
    <3> QED BY <3>1, <3>2, MinimalSubset
  <2>2. s \in T /\ \E x \in s : TRUE
    BY <2>1 DEF Minimal
  <2> PICK x \in s : TRUE
    BY <2>2
  <2>3. s \ {x} \notin T /\ s \ {x} \in SUBSET S
    BY <2>1 DEF Minimal
  <2>4. CASE s \ {x} = {}
    BY <2>1, <2>2, <2>4
  <2>5. CASE s \ {x} # {}
    <3>1. PICK y \in s \ {x} : \A z \in s \ {x} : y >= z
      BY <2>3, <2>5
    <3>2. (\A z \in s : x >= z) \/ (\A z \in s : y >= z)
      BY <2>1, <2>2, <3>1
    <3> QED BY <2>1, <2>2, <3>1, <3>2
  <2> QED BY <2>4, <2>5
<1>2. HasMax(S)
  BY <1>1
<1>3. Max(S) \in S /\ \A y \in S : Max(S) >= y
  BY <1>2 DEF Max
<1> QED BY <1>3

\* add[s] is the Log l with the segments of s added, the highest base last.
Adding(add, l, files, bases) ==
    /\ AddSegments(l, files, bases) = add[bases]
    /\ add[{}] = l
    /\ \A s \in SUBSET bases :
        s # {} => add[s] = AddSegment(add[s \ {Max(s)}], Max(s), files[Max(s)])

\* AddSegments adds the highest base after all others.
LEMMA AddSegmentsRecursion ==
    ASSUME NEW l, NEW files, NEW bases \in SUBSET Nat, IsFiniteSet(bases)
    PROVE  \E add : Adding(add, l, files, bases)
<1> DEFINE Step(f, s) == IF s = {} THEN l
                         ELSE AddSegment(f[s \ {Max(s)}], Max(s), files[Max(s)])
           Adds(f, S) == f = [s \in SUBSET S |-> Step(f, s)]
           T == {S \in SUBSET bases : ~ \E f : Adds(f, S)}
<1>1. ASSUME T # {}
      PROVE  FALSE
  <2>1. PICK S : Minimal(S, T)
    <3>1. T \in SUBSET (SUBSET bases)
      OBVIOUS
    <3>2. PICK u \in T : TRUE
      BY <1>1
    <3> HIDE DEF T
    <3> QED BY <3>1, <3>2, MinimalSubset
  <2>2. S \subseteq bases /\ ~ \E f : Adds(f, S)
    BY <2>1 DEF Minimal
  <2>3. S # {}
    <3> SUFFICES ASSUME S = {} PROVE FALSE
      OBVIOUS
    <3> DEFINE f == [s \in {{}} |-> l]
    <3>1. SUBSET S = {{}}
      OBVIOUS
    <3>2. f = [s \in SUBSET S |-> Step(f, s)]
      BY <3>1
    <3> QED BY <2>2, <3>2
  <2>4. /\ S \in SUBSET Nat /\ IsFiniteSet(S)
        /\ Max(S) \in S /\ \A y \in S : y <= Max(S)
    BY <2>2, <2>3, MaxOfNaturals, FS_Subset
  <2> DEFINE x == Max(S)
             R == S \ {x}
  <2>5. PICK f : Adds(f, R)
    <3>1. R \subseteq S /\ R # S
      BY <2>4
    <3>2. R \notin T /\ R \in SUBSET bases
      BY <2>1, <2>2, <3>1 DEF Minimal
    <3> HIDE DEF Adds, R
    <3> QED BY <3>2
  <2> DEFINE g == [s \in SUBSET S |->
                    IF x \in s THEN AddSegment(f[s \ {x}], x, files[x]) ELSE f[s]]
  <2>6. ASSUME NEW s \in SUBSET S
        PROVE  g[s] = Step(g, s)
    <3>1. CASE x \in s
      <4>1. s \in SUBSET Nat /\ IsFiniteSet(s) /\ s # {}
        BY <2>4, <3>1, FS_Subset
      <4>2. Max(s) \in s /\ \A y \in s : y <= Max(s)
        BY <4>1, MaxOfNaturals
      <4>3. Max(s) = x
        <5>1. x \in Nat /\ Max(s) \in Nat /\ Max(s) <= x /\ x <= Max(s)
          BY <2>4, <3>1, <4>1, <4>2
        <5> HIDE DEF x
        <5> QED BY <5>1
      <4>4. s \ {x} \in SUBSET S /\ x \notin s \ {x}
        OBVIOUS
      <4>5. g[s \ {x}] = f[s \ {x}]
        BY <4>4
      <4>6. g[s] = AddSegment(f[s \ {x}], x, files[x])
        BY <3>1
      <4> HIDE DEF g, x
      <4> QED BY <4>1, <4>3, <4>5, <4>6
    <3>2. CASE x \notin s
      <4>1. s \in SUBSET R
        BY <3>2
      <4>2. g[s] = f[s]
        BY <3>2
      <4>3. f[s] = Step(f, s)
        BY <2>5, <4>1
      <4>4. s \ {Max(s)} \in SUBSET S /\ x \notin s \ {Max(s)}
        BY <3>2
      <4>5. g[s \ {Max(s)}] = f[s \ {Max(s)}]
        BY <4>4
      <4> HIDE DEF g, x, R
      <4> QED BY <4>2, <4>3, <4>5
    <3> QED BY <3>1, <3>2
  <2>7. Adds(g, S)
    <3>1. g = [s \in SUBSET S |-> g[s]]
      OBVIOUS
    <3> HIDE DEF g, Step
    <3> QED BY <2>6, <3>1
  <2> QED BY <2>2, <2>7
<1>2. \E f : Adds(f, bases)
  BY <1>1
<1> DEFINE add == CHOOSE f : Adds(f, bases)
<1>3. add = [s \in SUBSET bases |-> Step(add, s)]
  BY <1>2
<1>4. AddSegments(l, files, bases) = add[bases]
  BY DEF AddSegments, MapThenFoldSet
<1> HIDE DEF add
<1>5. \A s \in SUBSET bases : add[s] = Step(add, s)
  BY <1>3
<1>6. add[{}] = l
  BY <1>5
<1>7. ASSUME NEW s \in SUBSET bases, s # {}
      PROVE  add[s] = AddSegment(add[s \ {Max(s)}], Max(s), files[Max(s)])
  BY <1>5, <1>7
<1>8. Adding(add, l, files, bases)
  BY <1>4, <1>6, <1>7 DEF Adding
<1> QED BY <1>8

\* One file is added as AddSegment adds it.
LEMMA AddOneSegment ==
    ASSUME NEW l, NEW files, NEW base \in Nat
    PROVE  AddSegments(l, files, {base}) = AddSegment(l, base, files[base])
<1>1. IsFiniteSet({base}) /\ {base} \in SUBSET Nat
  BY FS_Singleton
<1>2. Max({base}) = base
  BY <1>1, MaxOfNaturals
<1>3. PICK add : Adding(add, l, files, {base})
  BY <1>1, AddSegmentsRecursion
<1>4. add[{base}] = AddSegment(add[{base} \ {base}], base, files[base])
  BY <1>2, <1>3 DEF Adding
<1>5. {base} \ {base} = {}
  OBVIOUS
<1> QED BY <1>3, <1>4, <1>5 DEF Adding

\* Files of whole records are added: the Log stays well formed, knows no other
\* files than before and these, and ends where the last of them ends.
LEMMA AddSegmentsWellFormed ==
    ASSUME NEW l, WellFormed(l), NEW files, NEW bases \in SUBSET Nat,
           IsFiniteSet(bases),
           \A b \in bases : files[b] \in Seq(Record) /\ ReadAll(files[b]) = files[b]
    PROVE  LET new == AddSegments(l, files, bases)
           IN  /\ WellFormed(new)
               /\ new.cur = l.cur /\ new.active = l.active
               /\ \A s \in DOMAIN new.segments :
                    \/ new.segments[s].base \in bases
                    \/ \E t \in DOMAIN l.segments :
                         l.segments[t].base = new.segments[s].base
               /\ l.nextIdx <= new.nextIdx
               /\ \A b \in bases : b <= new.nextIdx
               /\ \A bound \in Nat :
                    /\ l.nextIdx <= bound
                    /\ \A b \in bases : b + Len(files[b]) <= bound
                    => new.nextIdx <= bound
<1> DEFINE Good(new, added) ==
        /\ WellFormed(new)
        /\ new.cur = l.cur /\ new.active = l.active
        /\ \A s \in DOMAIN new.segments :
             \/ new.segments[s].base \in added
             \/ \E t \in DOMAIN l.segments : l.segments[t].base = new.segments[s].base
        /\ l.nextIdx <= new.nextIdx
        /\ \A b \in added : b <= new.nextIdx
        /\ \A bound \in Nat :
             /\ l.nextIdx <= bound
             /\ \A b \in added : b + Len(files[b]) <= bound
             => new.nextIdx <= bound
<1>1. PICK add : Adding(add, l, files, bases)
  BY AddSegmentsRecursion
<1> DEFINE T == {s \in SUBSET bases : ~Good(add[s], s)}
<1>2. Good(l, {})
  BY LogFields
<1>3. ASSUME NEW s \in SUBSET bases, s # {}, Good(add[s \ {Max(s)}], s \ {Max(s)})
      PROVE  Good(add[s], s)
  <2> DEFINE x == Max(s)
             old == add[s \ {x}]
             new == add[s]
  <2>1. /\ x \in s /\ x \in Nat
        /\ files[x] \in Seq(Record) /\ ReadAll(files[x]) = files[x]
    <3>1. x \in s
      BY <1>3, MaxOfNaturals, FS_Subset
    <3> QED BY <3>1
  <2>2. new = AddSegment(old, x, files[x])
    BY <1>1, <1>3 DEF Adding
  <2>3. WellFormed(old)
    BY <1>3
  <2> HIDE DEF x
  <2>4. /\ WellFormed(new)
        /\ new.segments = Append(old.segments, [base |-> x, size |-> Len(files[x])])
        /\ new.nextIdx = IF x + Len(files[x]) > old.nextIdx
                         THEN x + Len(files[x]) ELSE old.nextIdx
        /\ new.active = old.active /\ new.cur = old.cur
    <3> HIDE DEF old, new
    <3> QED BY <2>1, <2>2, <2>3, AddSegmentWellFormed
  <2>5. old.nextIdx \in Nat /\ Len(files[x]) \in Nat /\ l.nextIdx \in Nat
    <3>1. WellFormed(old)
      BY <2>3
    <3> HIDE DEF old
    <3> QED BY <2>1, <3>1, LogFields, LenProperties
  <2>6. \A i \in DOMAIN new.segments :
          \/ i \in DOMAIN old.segments /\ new.segments[i] = old.segments[i]
          \/ new.segments[i].base = x
    <3> HIDE DEF old, new
    <3>1. old.segments \in Seq(Segment) /\ DOMAIN old.segments = 1..Len(old.segments)
          /\ Len(old.segments) \in Nat
      BY <2>3, LogFields
    <3>2. DOMAIN new.segments = 1..Len(old.segments) + 1
      BY <2>4, <3>1
    <3> SUFFICES ASSUME NEW i \in 1..Len(old.segments) + 1
                 PROVE  \/ i \in DOMAIN old.segments /\ new.segments[i] = old.segments[i]
                        \/ new.segments[i].base = x
      BY <3>2
    <3>3. CASE i \in 1..Len(old.segments)
      BY <2>4, <3>1, <3>3
    <3>4. CASE i = Len(old.segments) + 1
      <4>1. new.segments[i] = [base |-> x, size |-> Len(files[x])]
        BY <2>4, <3>1, <3>4
      <4> QED BY <4>1
    <3> QED BY <3>1, <3>3, <3>4
  <2>7. \A i \in DOMAIN new.segments :
          \/ new.segments[i].base \in s
          \/ \E t \in DOMAIN l.segments : l.segments[t].base = new.segments[i].base
    BY <1>3, <2>1, <2>6 DEF x
  <2>8. l.nextIdx <= new.nextIdx /\ \A b \in s : b <= new.nextIdx
    <3>1. l.nextIdx <= old.nextIdx /\ \A b \in s \ {x} : b <= old.nextIdx
      BY <1>3 DEF x
    <3> HIDE DEF old, new
    <3> QED BY <2>1, <2>4, <2>5, <3>1
  <2>9. ASSUME NEW bound \in Nat, l.nextIdx <= bound,
               \A b \in s : b + Len(files[b]) <= bound
        PROVE  new.nextIdx <= bound
    <3>1. old.nextIdx <= bound
      BY <1>3, <2>9 DEF x
    <3>2. x + Len(files[x]) <= bound
      BY <2>1, <2>9
    <3> HIDE DEF old, new
    <3> QED BY <2>4, <3>1, <3>2
  <2>10. new.cur = l.cur /\ new.active = l.active
    BY <1>3, <2>4 DEF x
  <2> QED BY <2>4, <2>7, <2>8, <2>9, <2>10
<1>4. ASSUME T # {}
      PROVE  FALSE
  <2> HIDE DEF Good
  <2>1. PICK s : Minimal(s, T)
    <3>1. T \in SUBSET (SUBSET bases)
      OBVIOUS
    <3>2. PICK u \in T : TRUE
      BY <1>4
    <3> HIDE DEF T
    <3> QED BY <3>1, <3>2, MinimalSubset
  <2>2. s \in SUBSET bases /\ ~Good(add[s], s)
    BY <2>1 DEF Minimal
  <2>3. s # {}
    <3>1. add[{}] = l
      BY <1>1 DEF Adding
    <3> QED BY <1>2, <2>2, <3>1
  <2>4. Max(s) \in s
    BY <2>2, <2>3, MaxOfNaturals, FS_Subset
  <2>5. s \ {Max(s)} \notin T /\ s \ {Max(s)} \in SUBSET bases
    BY <2>1, <2>2, <2>4 DEF Minimal
  <2>6. Good(add[s \ {Max(s)}], s \ {Max(s)})
    BY <2>5
  <2> QED BY <1>3, <2>2, <2>3, <2>6
<1>5. Good(add[bases], bases)
  <2> HIDE DEF Good
  <2> QED BY <1>4
<1> QED BY <1>1, <1>5 DEF Adding

-----------------------------------------------------------------------------
(* Reading the last segment again, and refresh as a whole *)

\* The segments of a Log begin at offsets it has passed.
Behind(l) == \A s \in DOMAIN l.segments : l.segments[s].base <= l.nextIdx

\* The last segment, read again: the records behind those the Log knows are
\* indexed, and nothing else changes (wal.go refresh).
LEMMA RereadWellFormed ==
    ASSUME NEW l, WellFormed(l), Behind(l), l.segments # <<>>,
           NEW file \in Seq(Record), ReadAll(file) = file
    PROVE  LET new == Reread(l, file)
               base == Last(l.segments).base
               known == l.nextIdx - base
           IN  /\ WellFormed(new)
               /\ Len(new.segments) = Len(l.segments)
               /\ \A s \in DOMAIN l.segments :
                    new.segments[s].base = l.segments[s].base
               /\ new.active = l.active /\ new.cur = l.cur
               /\ known \in Nat
               /\ Len(file) <= known => new = l
               /\ Len(file) > known =>
                    /\ new.nextIdx = base + Len(file)
                    /\ Len(new.index) = Len(l.index) + (Len(file) - known)
                    /\ \A o \in 1..Len(new.index) :
                         new.index[o] =
                            IF o <= Len(l.index) THEN l.index[o]
                            ELSE [seg |-> Len(l.segments),
                                  rec |-> known + (o - Len(l.index)) - 1]
<1> DEFINE seg == Len(l.segments)
           base == l.segments[seg].base
           known == l.nextIdx - base
           count == Len(file)
           segs == [l.segments EXCEPT ![seg].size = count]
           more == Entries(seg, known, count - known)
           idx == l.index \o more
           new == Reread(l, file)
<1>1. /\ l \in Log /\ seg \in DOMAIN l.segments /\ seg \in Nat
      /\ base \in Nat /\ known \in Nat /\ count \in Nat
      /\ Last(l.segments).base = base
      /\ l.segments \in Seq(Segment)
  <2>1. l \in Log /\ l.segments \in Seq(Segment) /\ seg \in Nat
    BY LogFields DEF WellFormed
  <2>2. seg \in DOMAIN l.segments
    BY <2>1, EmptySeq, LogFields
  <2>3. base \in Nat /\ l.nextIdx \in Nat
    BY <2>2, LogFields
  <2>4. base <= l.nextIdx
    BY <2>2 DEF Behind
  <2>5. count \in Nat
    BY LenProperties
  <2> QED BY <2>1, <2>2, <2>3, <2>4, <2>5 DEF Last
<1>2. CASE count <= known
  <2>1. new = l
    BY <1>2 DEF Reread
  <2> QED BY <1>1, <1>2, <2>1
<1>3. CASE count > known
  <2>1. count - known \in Nat /\ base + count \in Nat
    <3> HIDE DEF known, base, count
    <3> QED BY <1>1, <1>3
  <2>2. /\ more \in Seq(IndexEntry) /\ Len(more) = count - known
        /\ \A i \in 1..(count - known) : more[i] = [seg |-> seg, rec |-> known + i - 1]
    <3> HIDE DEF known, seg, count
    <3> QED BY <1>1, <2>1, EntriesType
  <2>3. /\ segs \in Seq(Segment) /\ Len(segs) = seg
        /\ \A s \in DOMAIN l.segments : segs[s].base = l.segments[s].base
    <3> DEFINE grown == [l.segments[seg] EXCEPT !.size = count]
    <3>1. l.segments[seg] \in Segment
      BY <1>1, LogFields, ElementOfSeq
    <3>2. grown \in Segment /\ grown.base = base
      BY <1>1, <3>1 DEF Segment
    <3>3. segs = [l.segments EXCEPT ![seg] = grown]
      OBVIOUS
    <3> HIDE DEF grown, count
    <3>4. segs \in Seq(Segment) /\ Len(segs) = Len(l.segments)
      BY <1>1, <3>2, <3>3, ExceptSeq
    <3>5. \A s \in DOMAIN l.segments :
            segs[s] = IF s = seg THEN grown ELSE l.segments[s]
      BY <1>1, <3>3
    <3> QED BY <3>2, <3>4, <3>5
  <2>4. /\ l.index \in Seq(IndexEntry) /\ Len(l.index) \in Nat
        /\ \A o \in 1..Len(l.index) : l.index[o].seg \in DOMAIN l.segments
    BY LogFields
  <2>5. new = [l EXCEPT !.segments = segs, !.index = idx, !.nextIdx = base + count]
    <3>1. ~(count <= known)
      <4> HIDE DEF count, known
      <4> QED BY <1>1, <1>3
    <3>2. new = IF count <= known THEN l
                ELSE [l EXCEPT !.segments[seg].size = Len(file), !.index = idx,
                               !.nextIdx = base + count]
      BY DEF Reread
    <3> HIDE DEF known, base, idx
    <3> QED BY <3>1, <3>2
  <2> HIDE DEF segs, more, new
  <2>6. /\ idx \in Seq(IndexEntry) /\ Len(idx) = Len(l.index) + (count - known)
        /\ \A i \in 1..Len(l.index) + (count - known) :
             idx[i] = IF i <= Len(l.index) THEN l.index[i] ELSE more[i - Len(l.index)]
    <3> DEFINE n == count - known
    <3>1. more \in Seq(IndexEntry) /\ Len(more) = n
      BY <2>2
    <3> HIDE DEF n, count, known
    <3>2. /\ idx \in Seq(IndexEntry) /\ Len(idx) = Len(l.index) + n
          /\ \A i \in 1..Len(l.index) + n :
               idx[i] = IF i <= Len(l.index) THEN l.index[i] ELSE more[i - Len(l.index)]
      BY <2>4, <3>1, ConcatProperties
    <3> QED BY <3>2 DEF n
  <2>7. \A o \in 1..Len(idx) :
          idx[o] = IF o <= Len(l.index) THEN l.index[o]
                   ELSE [seg |-> seg, rec |-> known + (o - Len(l.index)) - 1]
    <3> SUFFICES ASSUME NEW o \in 1..Len(idx), ~(o <= Len(l.index))
                 PROVE  idx[o] = [seg |-> seg, rec |-> known + (o - Len(l.index)) - 1]
      BY <2>6
    <3> HIDE DEF count, known, idx, seg
    <3>1. o - Len(l.index) \in 1..(count - known)
      BY <2>1, <2>4, <2>6
    <3> QED BY <2>2, <2>6, <3>1
  <2> HIDE DEF idx
  <2>8. /\ new \in Log
        /\ new.segments = segs /\ new.index = idx /\ new.nextIdx = base + count
        /\ new.active = l.active /\ new.cur = l.cur
    <3> HIDE DEF base, count
    <3>1. new \in Log
      BY <1>1, <2>1, <2>3, <2>5, <2>6 DEF Log
    <3> QED BY <1>1, <2>5, <3>1 DEF Log
  <2>9. WellFormed(new)
    <3>1. DOMAIN segs = DOMAIN l.segments /\ DOMAIN idx = 1..Len(idx)
      BY <2>3, <2>6, LogFields, LenProperties
    <3>2. \A o \in 1..Len(idx) : idx[o].seg \in DOMAIN l.segments
      <4> SUFFICES ASSUME NEW o \in 1..Len(idx) PROVE idx[o].seg \in DOMAIN l.segments
        OBVIOUS
      <4> HIDE DEF known, seg
      <4>1. CASE o <= Len(l.index)
        <5>1. o \in 1..Len(l.index)
          BY <2>4, <2>6, <4>1
        <5>2. idx[o] = l.index[o]
          BY <2>7, <4>1
        <5> QED BY <2>4, <5>1, <5>2
      <4>2. CASE ~(o <= Len(l.index))
        <5>1. idx[o] = [seg |-> seg, rec |-> known + (o - Len(l.index)) - 1]
          BY <2>7, <4>2
        <5>2. idx[o].seg = seg
          BY <5>1
        <5> QED BY <1>1, <5>2
      <4> QED BY <4>1, <4>2
    <3>3. l.active \in Nat /\ l.active <= Len(l.segments)
      BY LogFields
    <3> QED BY <2>3, <2>8, <3>1, <3>2, <3>3 DEF WellFormed
  <2>10. Len(new.segments) = Len(l.segments)
    BY <2>3, <2>8
  <2>11. \A s \in DOMAIN l.segments : new.segments[s].base = l.segments[s].base
    BY <2>3, <2>8
  <2>12. Len(new.index) = Len(l.index) + (count - known)
    BY <2>6, <2>8
  <2>13. \A o \in 1..Len(new.index) :
          new.index[o] = IF o <= Len(l.index) THEN l.index[o]
                         ELSE [seg |-> seg, rec |-> known + (o - Len(l.index)) - 1]
    BY <2>7, <2>8
  <2> HIDE DEF new
  <2>14. ~(count <= known)
    <3> HIDE DEF count, known
    <3> QED BY <1>1, <1>3
  <2> QED BY <1>1, <1>3, <2>8, <2>9, <2>10, <2>11, <2>12, <2>13, <2>14 DEF new
<1> QED
  <2>1. count <= known \/ count > known
    <3> HIDE DEF count, known
    <3> QED BY <1>1
  <2> QED BY <1>2, <1>3, <2>1

\* No file, no change.
LEMMA AddNoSegment ==
    ASSUME NEW l, NEW files
    PROVE  AddSegments(l, files, {}) = l
<1>1. IsFiniteSet({}) /\ {} \in SUBSET Nat
  BY FS_EmptySet
<1>2. PICK add : Adding(add, l, files, {})
  BY <1>1, AddSegmentsRecursion
<1> QED BY <1>2 DEF Adding

\* Files of whole records are added: the segments are still behind nextIdx.
LEMMA AddSegmentsBehind ==
    ASSUME NEW l, WellFormed(l), Behind(l), NEW files, NEW bases \in SUBSET Nat,
           IsFiniteSet(bases),
           \A b \in bases : files[b] \in Seq(Record) /\ ReadAll(files[b]) = files[b]
    PROVE  Behind(AddSegments(l, files, bases))
<1> DEFINE new == AddSegments(l, files, bases)
<1>1. /\ WellFormed(new)
      /\ \A s \in DOMAIN new.segments :
           \/ new.segments[s].base \in bases
           \/ \E t \in DOMAIN l.segments : l.segments[t].base = new.segments[s].base
      /\ l.nextIdx <= new.nextIdx
      /\ \A b \in bases : b <= new.nextIdx
  BY AddSegmentsWellFormed
<1> HIDE DEF new
<1> SUFFICES ASSUME NEW s \in DOMAIN new.segments
             PROVE  new.segments[s].base <= new.nextIdx
  BY DEF Behind, new
<1>2. CASE new.segments[s].base \in bases
  BY <1>1, <1>2
<1>3. ASSUME NEW t \in DOMAIN l.segments, l.segments[t].base = new.segments[s].base
      PROVE  new.segments[s].base <= new.nextIdx
  <2>1. l.segments[t].base \in Nat /\ l.nextIdx \in Nat /\ new.nextIdx \in Nat
    BY <1>1, LogFields
  <2>2. l.segments[t].base <= l.nextIdx
    BY DEF Behind
  <2> QED BY <1>1, <1>3, <2>1, <2>2
<1> QED BY <1>1, <1>2, <1>3

\* refresh on a directory of whole files, of which the Log's are some: the Log
\* stays well-formed, and its segments are files of the directory.
LEMMA RefreshWellFormed ==
    ASSUME NEW l, WellFormed(l), Behind(l), NEW files,
           DOMAIN files \in SUBSET Nat, IsFiniteSet(DOMAIN files),
           \A b \in DOMAIN files : files[b] \in Seq(Record) /\ ReadAll(files[b]) = files[b],
           \A s \in DOMAIN l.segments : l.segments[s].base \in DOMAIN files
    PROVE  LET new == Refresh(l, files)
           IN  /\ WellFormed(new)
               /\ Behind(new)
               /\ \A s \in DOMAIN new.segments : new.segments[s].base \in DOMAIN files
               /\ new.cur = l.cur
<1> DEFINE new == Refresh(l, files)
           unknown == UnknownSegments(l, files)
           grown == IF unknown = {} THEN l ELSE AddSegments(l, files, unknown)
           Good(log) == /\ WellFormed(log) /\ Behind(log)
                        /\ \A s \in DOMAIN log.segments : log.segments[s].base \in DOMAIN files
                        /\ log.cur = l.cur
<1>1. Good(grown)
  <2>1. CASE unknown = {}
    BY <2>1
  <2>2. CASE unknown # {}
    <3>1. unknown \in SUBSET Nat /\ unknown \subseteq DOMAIN files /\ IsFiniteSet(unknown)
      BY FS_Subset DEF UnknownSegments
    <3>2. grown = AddSegments(l, files, unknown)
      BY <2>2
    <3>3. \A b \in unknown : files[b] \in Seq(Record) /\ ReadAll(files[b]) = files[b]
      BY <3>1
    <3> HIDE DEF unknown, grown
    <3>4. /\ WellFormed(grown) /\ grown.cur = l.cur
          /\ \A s \in DOMAIN grown.segments :
               \/ grown.segments[s].base \in unknown
               \/ \E t \in DOMAIN l.segments :
                    l.segments[t].base = grown.segments[s].base
      BY <3>1, <3>2, <3>3, AddSegmentsWellFormed
    <3>5. Behind(grown)
      BY <3>1, <3>2, <3>3, AddSegmentsBehind
    <3>6. \A s \in DOMAIN grown.segments : grown.segments[s].base \in DOMAIN files
      BY <3>1, <3>4
    <3> QED BY <3>4, <3>5, <3>6
  <2> QED BY <2>1, <2>2
<1>2. new = IF grown.segments = <<>> THEN grown
            ELSE Reread(grown, files[Last(grown.segments).base])
  BY DEF Refresh
<1> HIDE DEF unknown, grown, new
<1>3. CASE grown.segments = <<>>
  BY <1>1, <1>2, <1>3 DEF new
<1>4. CASE grown.segments # <<>>
  <2> DEFINE base == Last(grown.segments).base
             file == files[base]
             known == grown.nextIdx - base
  <2>1. base \in DOMAIN files
    <3>1. Len(grown.segments) \in DOMAIN grown.segments
      <4>1. Len(grown.segments) # 0
        BY <1>1, <1>4, EmptySeq, LogFields
      <4> QED BY <1>1, <4>1, LogFields
    <3> QED BY <1>1, <3>1 DEF Last
  <2>2. file \in Seq(Record) /\ ReadAll(file) = file /\ Len(file) \in Nat
    BY <2>1, LenProperties
  <2>3. new = Reread(grown, file)
    BY <1>2, <1>4
  <2> HIDE DEF file
  <2>4. /\ WellFormed(new)
        /\ Len(new.segments) = Len(grown.segments)
        /\ \A s \in DOMAIN grown.segments : new.segments[s].base = grown.segments[s].base
        /\ new.cur = grown.cur
        /\ known \in Nat
        /\ Len(file) <= known => new = grown
        /\ Len(file) > known => new.nextIdx = base + Len(file)
    BY <1>1, <1>4, <2>2, <2>3, RereadWellFormed
  <2>5. DOMAIN new.segments = DOMAIN grown.segments
    BY <1>1, <2>4, LogFields
  <2>6. grown.nextIdx <= new.nextIdx
    <3>1. base \in Nat /\ grown.nextIdx \in Nat
      BY <1>1, <2>1, LogFields
    <3>2. grown.nextIdx = base + known
      BY <3>1
    <3> HIDE DEF base, known
    <3> QED BY <2>2, <2>4, <3>1, <3>2
  <2>7. Behind(new)
    <3> SUFFICES ASSUME NEW s \in DOMAIN new.segments
                 PROVE  new.segments[s].base <= new.nextIdx
      BY DEF Behind
    <3>1. grown.segments[s].base <= grown.nextIdx
      BY <1>1, <2>5 DEF Behind
    <3>2. /\ grown.segments[s].base \in Nat /\ grown.nextIdx \in Nat
          /\ new.nextIdx \in Nat
      BY <1>1, <2>4, <2>5, LogFields
    <3> QED BY <2>4, <2>5, <2>6, <3>1, <3>2
  <2> QED BY <1>1, <2>4, <2>5, <2>7 DEF new
<1> QED BY <1>3, <1>4
=============================================================================
