--------------------------- MODULE TransportProofs ---------------------------
(***************************************************************************)
(* Proofs about Transport, for every set of calls and every size of a line *)
(* and of the pipe.                                                        *)
(*                                                                         *)
(* The inductive invariant IInv has three parts.  ControlOK: the mutex     *)
(* says which call is inside Send, and whoever writes or reads finds a     *)
(* transport that is not broken, so that no scan goroutine of an earlier   *)
(* call is left.  LinesOK: a line that is not complete is the last one and *)
(* its call is writing it.  PipesOK: until the scanner fails, the pipes    *)
(* hold nothing but the one request under way or its response.             *)
(***************************************************************************)
EXTENDS Transport, SequenceTheorems, FiniteSetTheorems, TLAPS

\* The call holds the mutex.
Inside(c) == phase[c] \in {"locked", "writing", "reading"}

MutexOK == \A c \in Calls : Inside(c) <=> mu = c

\* A transport that is broken is not used again.
BrokenOK == \A c \in Calls : phase[c] \in {"writing", "reading"} => ~broken

\* A scan goroutine belongs to the call that reads, or to one that timed out.
ScansOK ==
    /\ \A c \in scans : /\ ch[c] = <<>>
                        /\ \/ phase[c] = "reading"
                           \/ phase[c] = "done" /\ broken
    /\ \A c \in Calls : ch[c] # <<>> => phase[c] \in {"reading", "done"}
    /\ \A c \in Calls : ch[c] = <<"end">> => scanFailed

\* A call has written nothing before it writes, and not all while it does.
WrittenOK ==
    \A c \in Calls :
        /\ phase[c] \in {"idle", "locking", "locked"} => written[c] = 0
        /\ phase[c] = "writing" => written[c] < LineSize

ControlOK == MutexOK /\ BrokenOK /\ ScansOK /\ OneReader /\ WrittenOK

\* What the neb has still to answer, in the order in which it was written.
Units == line \o stdin

\* A sequence of units is one of lines, the last of which may be cut short.
WholeIn(u) ==
    \A i \in 1..Len(u) :
        IF u[i].part = 1 THEN i = 1 \/ u[i - 1].part = LineSize
        ELSE /\ i > 1
             /\ u[i].of = u[i - 1].of
             /\ u[i].part = u[i - 1].part + 1

\* The neb reads line by line.
ReadOK == \A i \in 1..Len(line) : line[i].of = line[1].of /\ line[i].part = i

\* A line that is cut short is being written, and a call that writes finds
\* what it has written at the end.
LastOK ==
    /\ Len(Units) > 0 =>
        \/ Units[Len(Units)].part = LineSize
        \/ /\ phase[Units[Len(Units)].of] = "writing"
           /\ written[Units[Len(Units)].of] = Units[Len(Units)].part
    /\ \A c \in Calls :
        nebUp /\ phase[c] = "writing" /\ written[c] # 0 =>
            /\ Len(Units) > 0
            /\ Units[Len(Units)].of = c
            /\ Units[Len(Units)].part = written[c]
    /\ ~nebUp => Len(line) = 0 /\ Len(stdin) = 0

LinesOK == WholeIn(Units) /\ ReadOK /\ LastOK

\* The pipes hold nothing, or nothing that is not of the call's request.
Nothing == Len(line) = 0 /\ Len(stdin) = 0 /\ Len(stdout) = 0
OnlyOf(c) ==
    /\ \A i \in 1..Len(line) : line[i].of = c
    /\ \A i \in 1..Len(stdin) : stdin[i].of = c
    /\ \A i \in 1..Len(stdout) : stdout[i].to = c

\* At most one line is in the pipes, and its response is behind no other.
OneLine ==
    /\ Len(line) + Len(stdin) <= LineSize
    /\ Len(stdout) > 0 => Len(stdout) = 1 /\ Len(line) = 0 /\ Len(stdin) = 0
    /\ Nothing \/ \E c \in Calls : OnlyOf(c)

\* What they hold is of the call that writes or reads ...
OfCaller ==
    \A c \in Calls :
        /\ phase[c] = "writing" =>
            /\ OnlyOf(c)
            /\ Len(stdout) = 0
            /\ nebUp => Len(line) + Len(stdin) = written[c]
        /\ phase[c] = "reading" => OnlyOf(c) /\ (ch[c] # <<>> => Nothing)

\* ... and nothing is left for the next one.
NothingLeft ==
    \/ broken
    \/ \E c \in Calls : phase[c] \in {"writing", "reading"}
    \/ Nothing

\* A line that a call receives answers it.
ReceivedOK ==
    \A c \in Calls :
        phase[c] = "reading" /\ ch[c] # <<>> /\ ch[c] # <<"end">> => ch[c][2].to = c

PipesOK == (scanFailed \/ (OneLine /\ OfCaller /\ NothingLeft)) /\ ReceivedOK

IInv == TypeOK /\ ControlOK /\ LinesOK /\ PipesOK

-----------------------------------------------------------------------------
(* Types and control *)

LEMMA InitControl == Init => TypeOK /\ ControlOK
<1>1. SUFFICES ASSUME Init PROVE TypeOK /\ ControlOK
    OBVIOUS
<1>2. <<>> \in Seq(Unit) /\ Len(<<>>) = 0 /\ <<>> \in Seq(Response)
    BY EmptySeq
<1>3. TypeOK
  <2>1. /\ phase \in [Calls -> Phases]
        /\ ch \in [Calls -> Scanned]
        /\ written \in [Calls -> 0..LineSize]
    BY <1>1, TransportAssumption DEF Init, Phases, Scanned
  <2>2. /\ mu \in Calls \cup {Idle}
        /\ closed \in BOOLEAN /\ broken \in BOOLEAN
        /\ scanFailed \in BOOLEAN /\ nebUp \in BOOLEAN
        /\ scans \subseteq Calls
        /\ outcome \in Outcome
    BY <1>1 DEF Init
  <2>3. /\ stdin \in Seq(Unit) /\ Len(stdin) <= PipeSize
        /\ line \in Seq(Unit) /\ Len(line) <= LineSize
        /\ stdout \in Seq(Response)
    BY <1>1, <1>2, TransportAssumption DEF Init
  <2>4. QED
    BY <2>1, <2>2, <2>3 DEF TypeOK
<1>4. ControlOK
    BY <1>1, TransportAssumption DEF Init, ControlOK, MutexOK, Inside,
        BrokenOK, ScansOK, OneReader, WrittenOK
<1>5. QED
    BY <1>3, <1>4

\* What a call puts into the pipe is a unit of a line.
LEMMA WriteType ==
    ASSUME TypeOK, ControlOK, NEW c \in Calls, WriteUnit(c)
    PROVE  /\ [of |-> c, part |-> written[c] + 1] \in Unit
           /\ written'[c] = written[c] + 1
           /\ stdin' = Append(stdin, [of |-> c, part |-> written[c] + 1])
           /\ stdin' \in Seq(Unit)
           /\ Len(stdin') = Len(stdin) + 1
           /\ written' \in [Calls -> 0..LineSize]
<1>1. written[c] \in 0..LineSize /\ written[c] < LineSize
    BY DEF TypeOK, ControlOK, WrittenOK, WriteUnit
<1>2. written'[c] = written[c] + 1
    BY DEF TypeOK, WriteUnit
<1>3. [of |-> c, part |-> written[c] + 1] \in Unit
    BY <1>1, TransportAssumption DEF Unit
<1>4. stdin' = Append(stdin, [of |-> c, part |-> written[c] + 1])
    BY <1>2 DEF WriteUnit
<1>5. stdin \in Seq(Unit)
    BY DEF TypeOK
<1>6. stdin' \in Seq(Unit) /\ Len(stdin') = Len(stdin) + 1
    BY <1>3, <1>4, <1>5, AppendProperties
<1>7. written' \in [Calls -> 0..LineSize]
    BY <1>1, TransportAssumption DEF TypeOK, WriteUnit
<1>8. QED
    BY <1>2, <1>3, <1>4, <1>6, <1>7

\* What the neb reads is a unit of the pipe.
LEMMA ReadType ==
    ASSUME TypeOK, NebRead
    PROVE  /\ Head(stdin) \in Unit
           /\ line' \in Seq(Unit) /\ Len(line') = Len(line) + 1
           /\ stdin' \in Seq(Unit) /\ Len(stdin') = Len(stdin) - 1
<1>1. stdin \in Seq(Unit) /\ line \in Seq(Unit) /\ stdin # <<>>
    BY DEF TypeOK, NebRead
<1>2. Head(stdin) \in Unit /\ Tail(stdin) \in Seq(Unit) /\ Len(Tail(stdin)) = Len(stdin) - 1
    BY <1>1, HeadTailProperties
<1>3. line' = Append(line, Head(stdin)) /\ stdin' = Tail(stdin)
    BY DEF NebRead
<1>4. line' \in Seq(Unit) /\ Len(line') = Len(line) + 1
    BY <1>1, <1>2, <1>3, AppendProperties
<1>5. QED
    BY <1>2, <1>3, <1>4

\* The neb answers the request it has read.
LEMMA RespondType ==
    ASSUME TypeOK, NebRespond
    PROVE  \E r \in Response :
               /\ r.to = line[1].of
               /\ stdout' = Append(stdout, r)
               /\ stdout' \in Seq(Response)
               /\ Len(stdout') = Len(stdout) + 1
<1>1. line \in Seq(Unit) /\ Len(line) = LineSize /\ stdout \in Seq(Response)
    BY DEF TypeOK, NebRespond
<1>2. 1 \in 1..Len(line)
    BY <1>1, TransportAssumption
<1>3. line[1] \in Unit
    BY <1>1, <1>2, ElementOfSeq
<1>4. line[1].of \in Calls
    BY <1>3 DEF Unit
<1>5. PICK status \in Statuses \cup {"too long"} :
        stdout' = Append(stdout, [to |-> line[1].of, status |-> status])
    BY DEF NebRespond
<1>6. [to |-> line[1].of, status |-> status] \in Response
    BY <1>4 DEF Response, Statuses
<1>7. /\ stdout' \in Seq(Response)
      /\ Len(stdout') = Len(stdout) + 1
    BY <1>1, <1>5, <1>6, AppendProperties
<1>8. QED
    BY <1>5, <1>6, <1>7

\* The scan goroutine takes a response that can be a result.
LEMMA ScanType ==
    ASSUME TypeOK, NEW c \in Calls, Scan(c)
    PROVE  /\ Head(stdout) \in Outcome
           /\ stdout' \in Seq(Response)
           /\ ch'[c] = <<"line", Head(stdout)>>
           /\ ch' \in [Calls -> Scanned]
<1>1. stdout \in Seq(Response) /\ stdout # <<>>
    BY DEF TypeOK, Scan
<1>2. Head(stdout) \in Response /\ Tail(stdout) \in Seq(Response)
    BY <1>1, HeadTailProperties
<1>3. Head(stdout) \in Outcome
    BY <1>2 DEF Response, Outcome, Scan
<1>4. <<"line", Head(stdout)>> \in Scanned
    BY <1>3 DEF Scanned
<1>5. ch' \in [Calls -> Scanned] /\ ch'[c] = <<"line", Head(stdout)>>
    BY <1>4 DEF TypeOK, Scan
<1>6. QED
    BY <1>2, <1>3, <1>5 DEF Scan

\* No action leaves the types or disturbs who may do what.
LEMMA ControlStep == TypeOK /\ ControlOK /\ [Next]_vars => TypeOK' /\ ControlOK'
<1>1. SUFFICES ASSUME TypeOK, ControlOK, [Next]_vars
               PROVE  TypeOK' /\ ControlOK'
    OBVIOUS
<1> USE TransportAssumption
<1>2. ASSUME NEW c \in Calls, Begin(c) PROVE TypeOK' /\ ControlOK'
  <2>1. TypeOK'
    BY <1>1, <1>2 DEF TypeOK, Phases, Begin, Goto, pipes
  <2>2. ControlOK'
    BY <1>1, <1>2 DEF TypeOK, Phases, ControlOK,
        MutexOK, Inside, BrokenOK, ScansOK, OneReader, WrittenOK, Begin, Goto, pipes
  <2>3. QED
    BY <2>1, <2>2
<1>3. ASSUME NEW c \in Calls, Lock(c) PROVE TypeOK' /\ ControlOK'
  <2>1. TypeOK'
    BY <1>1, <1>3 DEF TypeOK, Phases, Lock, Goto, pipes
  <2>2. ControlOK'
    BY <1>1, <1>3 DEF TypeOK, Phases, ControlOK,
        MutexOK, Inside, BrokenOK, ScansOK, OneReader, WrittenOK, Lock, Goto, pipes
  <2>3. QED
    BY <2>1, <2>2
<1>4. ASSUME NEW c \in Calls, Refuse(c) PROVE TypeOK' /\ ControlOK'
  <2>1. TypeOK'
    BY <1>1, <1>4 DEF TypeOK, Phases, Refuse, ReturnError, Return, Goto, Outcome,
        Statuses, pipes
  <2>2. ControlOK'
    BY <1>1, <1>4 DEF TypeOK, Phases, ControlOK,
        MutexOK, Inside, BrokenOK, ScansOK, OneReader, WrittenOK, Refuse,
        ReturnError, Return, Goto, Outcome, Statuses, pipes
  <2>3. QED
    BY <2>1, <2>2
<1>5. ASSUME NEW c \in Calls, StartWrite(c) PROVE TypeOK' /\ ControlOK'
  <2>1. TypeOK'
    BY <1>1, <1>5 DEF TypeOK, Phases, StartWrite, Goto, pipes
  <2>2. ControlOK'
    BY <1>1, <1>5 DEF TypeOK, Phases, ControlOK,
        MutexOK, Inside, BrokenOK, ScansOK, OneReader, WrittenOK, StartWrite, Goto,
        pipes
  <2>3. QED
    BY <2>1, <2>2
<1>6. ASSUME NEW c \in Calls, WriteFails(c) PROVE TypeOK' /\ ControlOK'
  <2>1. TypeOK'
    BY <1>1, <1>6 DEF TypeOK, Phases, WriteFails, ReturnError, Return, Goto,
        Outcome, Statuses, pipes
  <2>2. ControlOK'
    BY <1>1, <1>6 DEF TypeOK, Phases, ControlOK,
        MutexOK, Inside, BrokenOK, ScansOK, OneReader, WrittenOK, WriteFails,
        ReturnError, Return, Goto, Outcome, Statuses, pipes
  <2>3. QED
    BY <2>1, <2>2
<1>7. ASSUME NEW c \in Calls, Timeout(c) PROVE TypeOK' /\ ControlOK'
  <2>1. TypeOK'
    BY <1>1, <1>7 DEF TypeOK, Phases, Timeout, ReturnError, Return, Goto, Outcome,
        Statuses, pipes
  <2>2. ControlOK'
    BY <1>1, <1>7 DEF TypeOK, Phases, ControlOK,
        MutexOK, Inside, BrokenOK, ScansOK, OneReader, WrittenOK, Timeout,
        ReturnError, Return, Goto, Outcome, Statuses, pipes
  <2>3. QED
    BY <2>1, <2>2
<1>8. CASE Close
  <2>1. TypeOK'
    BY <1>1, <1>8 DEF TypeOK, Phases, Close, pipes
  <2>2. ControlOK'
    BY <1>1, <1>8 DEF TypeOK, Phases, ControlOK,
        MutexOK, Inside, BrokenOK, ScansOK, OneReader, WrittenOK, Close, pipes
  <2>3. QED
    BY <2>1, <2>2
<1>9. ASSUME NEW c \in Calls, WriteUnit(c) PROVE TypeOK' /\ ControlOK'
  <2>1. /\ stdin' \in Seq(Unit) /\ Len(stdin') <= PipeSize
        /\ written' \in [Calls -> 0..LineSize]
        /\ written'[c] = written[c] + 1
    <3>1. Len(stdin) \in Nat /\ Len(stdin) < PipeSize
      BY <1>1, <1>9, LenProperties DEF TypeOK, WriteUnit
    <3>2. /\ stdin' \in Seq(Unit) /\ Len(stdin') = Len(stdin) + 1
          /\ written' \in [Calls -> 0..LineSize]
          /\ written'[c] = written[c] + 1
      BY <1>1, <1>9, WriteType
    <3>3. QED
      BY <3>1, <3>2
  <2>2. phase' \in [Calls -> Phases] /\ scans' \subseteq Calls
    BY <1>1, <1>9 DEF TypeOK, Phases, WriteUnit, Goto
  <2>3. TypeOK'
    BY <1>1, <1>9, <2>1, <2>2 DEF TypeOK, WriteUnit
  <2>4. /\ mu' = mu /\ broken' = broken /\ ch' = ch /\ scanFailed' = scanFailed
        /\ \A d \in Calls : d # c => written'[d] = written[d]
    BY <1>1, <1>9 DEF TypeOK, WriteUnit
  <2>5. /\ mu = c /\ ~broken /\ ch[c] = <<>> /\ scans = {} /\ phase[c] = "writing"
    BY <1>1, <1>9 DEF TypeOK, ControlOK,
        MutexOK, Inside, BrokenOK, ScansOK, OneReader, WrittenOK, WriteUnit
  <2>6. ControlOK'
    <3>1. CASE written'[c] < LineSize
      <4>1. phase' = phase /\ scans' = scans
        BY <1>9, <3>1 DEF WriteUnit
      <4>2. WrittenOK'
        BY <1>1, <2>4, <2>5, <3>1, <4>1 DEF ControlOK, WrittenOK
      <4>3. QED
        BY <1>1, <2>4, <4>1, <4>2 DEF ControlOK, MutexOK, Inside, BrokenOK, ScansOK,
            OneReader
    <3>2. CASE ~(written'[c] < LineSize)
      <4>1. phase' = [phase EXCEPT ![c] = "reading"] /\ scans' = {c}
        BY <1>9, <2>5, <3>2 DEF WriteUnit, Goto
      <4>2. /\ phase'[c] = "reading"
            /\ \A d \in Calls : d # c => phase'[d] = phase[d]
        BY <1>1, <4>1 DEF TypeOK
      <4>3. WrittenOK'
        BY <1>1, <2>4, <4>2 DEF ControlOK, WrittenOK
      <4>4. MutexOK' /\ BrokenOK'
        BY <1>1, <2>4, <2>5, <4>2 DEF ControlOK, MutexOK, Inside, BrokenOK
      <4>5. ScansOK' /\ OneReader'
        BY <1>1, <2>4, <2>5, <4>1, <4>2 DEF ControlOK, ScansOK, OneReader
      <4>6. QED
        BY <4>3, <4>4, <4>5 DEF ControlOK
    <3>3. QED
      BY <3>1, <3>2
  <2>7. QED
    BY <2>3, <2>6
<1>10. ASSUME NEW c \in Calls, Scan(c) PROVE TypeOK' /\ ControlOK'
  <2>1. TypeOK'
    BY <1>1, <1>10, ScanType DEF TypeOK, Scan
  <2>2. ch'[c] # <<"end">>
    BY <1>1, <1>10, ScanType
  <2>3. ControlOK'
    BY <1>1, <1>10, <2>2 DEF TypeOK, ControlOK,
        MutexOK, Inside, BrokenOK, ScansOK, OneReader, WrittenOK, Scan
  <2>4. QED
    BY <2>1, <2>3
<1>11. ASSUME NEW c \in Calls, ScanFails(c) PROVE TypeOK' /\ ControlOK'
  <2>1. TypeOK'
    BY <1>1, <1>11 DEF TypeOK, Scanned, ScanFails, pipes
  <2>2. ControlOK'
    BY <1>1, <1>11 DEF TypeOK, ControlOK,
        MutexOK, Inside, BrokenOK, ScansOK, OneReader, WrittenOK, ScanFails, pipes
  <2>3. QED
    BY <2>1, <2>2
<1>12. ASSUME NEW c \in Calls, Receive(c) PROVE TypeOK' /\ ControlOK'
  <2>1. ch[c] # <<"end">> => ch[c][2] \in Outcome
    BY <1>1, <1>12 DEF TypeOK, Scanned, Receive
  <2>2. outcome' \in Outcome
    BY <1>12, <2>1 DEF Receive, ReturnError, Return, Outcome, Statuses
  <2>3. TypeOK'
    BY <1>1, <1>12, <2>2 DEF TypeOK, Phases, Receive, ReturnError, Return, Goto,
        pipes
  <2>4. /\ Goto(c, "done") /\ mu' = Idle
        /\ UNCHANGED <<closed, broken, scans, scanFailed, ch, written, pipes>>
    BY <1>12 DEF Receive, ReturnError, Return
  <2>5. phase[c] = "reading" /\ ch[c] # <<>>
    BY <1>12 DEF Receive
  <2>6. ControlOK'
    BY <1>1, <2>4, <2>5 DEF TypeOK, Phases, ControlOK,
        MutexOK, Inside, BrokenOK, ScansOK, OneReader, WrittenOK, Goto
  <2>7. QED
    BY <2>3, <2>6
<1>13. CASE NebRead
  <2>1. TypeOK'
    <3>1. Len(stdin) \in Nat /\ Len(line) \in Nat
      BY <1>1, LenProperties DEF TypeOK
    <3>2. /\ line' \in Seq(Unit) /\ Len(line') = Len(line) + 1
          /\ stdin' \in Seq(Unit) /\ Len(stdin') = Len(stdin) - 1
      BY <1>1, <1>13, ReadType
    <3>3. Len(line') <= LineSize /\ Len(stdin') <= PipeSize
      BY <1>1, <1>13, <3>1, <3>2 DEF TypeOK, NebRead
    <3>4. QED
      BY <1>1, <1>13, <3>2, <3>3 DEF TypeOK, NebRead, stdio
  <2>2. ControlOK'
    BY <1>1, <1>13 DEF ControlOK, MutexOK, Inside,
        BrokenOK, ScansOK, OneReader, WrittenOK, NebRead, stdio
  <2>3. QED
    BY <2>1, <2>2
<1>14. CASE NebRespond
  <2>1. TypeOK'
    <3>1. stdout' \in Seq(Response)
      BY <1>1, <1>14, RespondType
    <3>2. line' \in Seq(Unit) /\ Len(line') <= LineSize
      <4>1. line' = <<>>
        BY <1>14 DEF NebRespond
      <4>2. QED
        BY <4>1, EmptySeq
    <3>3. QED
      BY <1>1, <1>14, <3>1, <3>2 DEF TypeOK, NebRespond, stdio
  <2>2. ControlOK'
    BY <1>1, <1>14 DEF ControlOK, MutexOK, Inside,
        BrokenOK, ScansOK, OneReader, WrittenOK, NebRespond, stdio
  <2>3. QED
    BY <2>1, <2>2
<1>15. CASE NebSkip
  <2>1. TypeOK'
    <3>1. /\ <<>> \in Seq(Unit)
          /\ Len(<<>>) <= LineSize /\ Len(<<>>) <= PipeSize
      BY EmptySeq
    <3>2. QED
      BY <1>1, <1>15, <3>1 DEF TypeOK, NebSkip, stdio
  <2>2. ControlOK'
    BY <1>1, <1>15 DEF ControlOK, MutexOK, Inside,
        BrokenOK, ScansOK, OneReader, WrittenOK, NebSkip, stdio
  <2>3. QED
    BY <2>1, <2>2
<1>16. CASE NebExit
  <2>1. TypeOK'
    <3>1. /\ <<>> \in Seq(Unit)
          /\ Len(<<>>) <= LineSize /\ Len(<<>>) <= PipeSize
      BY EmptySeq
    <3>2. QED
      BY <1>1, <1>16, <3>1 DEF TypeOK, NebExit, stdio
  <2>2. ControlOK'
    BY <1>1, <1>16 DEF ControlOK, MutexOK, Inside,
        BrokenOK, ScansOK, OneReader, WrittenOK, NebExit, stdio
  <2>3. QED
    BY <2>1, <2>2
<1>17. CASE UNCHANGED vars
    BY <1>1, <1>17 DEF TypeOK, ControlOK,
        MutexOK, Inside, BrokenOK, ScansOK, OneReader, WrittenOK, vars, stdio, pipes
<1>18. QED
    BY <1>1, <1>2, <1>3, <1>4, <1>5, <1>6, <1>7, <1>8, <1>9, <1>10, <1>11, <1>12,
        <1>13, <1>14, <1>15, <1>16, <1>17 DEF Next, SendStep, ScanStep, Neb

-----------------------------------------------------------------------------
(* Lines *)

\* The units are those of the line and then those of the pipe.
LEMMA UnitsElements ==
    ASSUME TypeOK
    PROVE  /\ Units \in Seq(Unit)
           /\ Len(line) \in Nat /\ Len(stdin) \in Nat
           /\ Len(Units) = Len(line) + Len(stdin)
           /\ \A i \in 1..Len(line) : Units[i] = line[i]
           /\ \A i \in 1..Len(stdin) : Units[Len(line) + i] = stdin[i]
           /\ \A i \in 1..Len(Units) : /\ Units[i] \in Unit
                                       /\ Units[i].part \in 1..LineSize
                                       /\ Units[i].of \in Calls
<1>1. line \in Seq(Unit) /\ stdin \in Seq(Unit)
    BY DEF TypeOK
<1>2. /\ Units \in Seq(Unit)
      /\ Len(Units) = Len(line) + Len(stdin)
      /\ \A i \in 1..Len(line) + Len(stdin) :
            Units[i] = IF i <= Len(line) THEN line[i] ELSE stdin[i - Len(line)]
    BY <1>1, ConcatProperties DEF Units
<1>3. Len(line) \in Nat /\ Len(stdin) \in Nat
    BY <1>1, LenProperties
<1>4. \A i \in 1..Len(line) : Units[i] = line[i]
    BY <1>2, <1>3
<1>5. \A i \in 1..Len(stdin) : Units[Len(line) + i] = stdin[i]
    BY <1>2, <1>3
<1>6. \A i \in 1..Len(Units) : Units[i] \in Unit
    BY <1>2, ElementOfSeq
<1>7. QED
    BY <1>2, <1>3, <1>4, <1>5, <1>6 DEF Unit

\* WholeIn says of the units what LinesWhole does.
LEMMA WholeEquiv == ASSUME TypeOK PROVE WholeIn(Units) <=> LinesWhole
<1>1. DOMAIN Units = 1..Len(Units) /\ Len(Units) \in Nat
    BY UnitsElements, LenProperties
<1>2. \A i \in 1..Len(Units) : /\ Units[i] = [of |-> Units[i].of, part |-> Units[i].part]
                               /\ Units[i].part \in 1..LineSize
    BY UnitsElements DEF Unit
<1>3. ASSUME NEW i \in 1..Len(Units)
      PROVE  (IF Units[i].part = 1 THEN i = 1 \/ Units[i - 1].part = LineSize
              ELSE /\ i > 1
                   /\ Units[i].of = Units[i - 1].of
                   /\ Units[i].part = Units[i - 1].part + 1)
             <=> (IF i = 1 THEN Units[i].part = 1
                  ELSE IF Units[i].part = 1 THEN Units[i - 1].part = LineSize
                  ELSE Units[i] = [Units[i - 1] EXCEPT !.part = @ + 1])
  <2>1. CASE i = 1
    BY <2>1
  <2>2. CASE i # 1
    <3>1. i - 1 \in 1..Len(Units) /\ i > 1
      BY <1>1, <2>2
    <3>2. /\ Units[i] = [of |-> Units[i].of, part |-> Units[i].part]
          /\ Units[i - 1] = [of |-> Units[i - 1].of, part |-> Units[i - 1].part]
      BY <1>2, <3>1
    <3>3. [Units[i - 1] EXCEPT !.part = @ + 1]
            = [of |-> Units[i - 1].of, part |-> Units[i - 1].part + 1]
      BY <3>2
    <3>4. Units[i] = [Units[i - 1] EXCEPT !.part = @ + 1]
            <=> Units[i].of = Units[i - 1].of /\ Units[i].part = Units[i - 1].part + 1
      BY <3>2, <3>3
    <3>5. QED
      BY <2>2, <3>1, <3>4
  <2>3. QED
    BY <2>1, <2>2
<1>4. QED
    BY <1>1, <1>3 DEF WholeIn, LinesWhole, Units

\* A unit that goes on with the last line, or starts one, may be appended.
LEMMA WholeAppend ==
    ASSUME NEW u \in Seq(Unit), NEW x \in Unit, WholeIn(u),
           IF x.part = 1 THEN Len(u) = 0 \/ u[Len(u)].part = LineSize
           ELSE /\ Len(u) > 0
                /\ x.of = u[Len(u)].of
                /\ x.part = u[Len(u)].part + 1
    PROVE  WholeIn(Append(u, x))
<1>1. /\ Len(u) \in Nat
      /\ Len(Append(u, x)) = Len(u) + 1
      /\ \A i \in 1..Len(u) : Append(u, x)[i] = u[i]
      /\ Append(u, x)[Len(u) + 1] = x
    BY LenProperties, AppendProperties
<1> DEFINE w == Append(u, x)
<1>2. ASSUME NEW i \in 1..Len(w)
      PROVE  IF w[i].part = 1 THEN i = 1 \/ w[i - 1].part = LineSize
             ELSE i > 1 /\ w[i].of = w[i - 1].of /\ w[i].part = w[i - 1].part + 1
  <2>1. CASE i = Len(u) + 1
    <3>1. w[i] = x /\ i - 1 = Len(u)
      BY <1>1, <2>1
    <3>2. Len(u) > 0 => w[i - 1] = u[Len(u)]
      BY <1>1, <3>1
    <3>3. Len(u) = 0 => i = 1
      BY <2>1
    <3>4. Len(u) > 0 => i > 1
      BY <1>1, <2>1
    <3> HIDE DEF w
    <3>5. QED
      BY <1>1, <3>1, <3>2, <3>3, <3>4
  <2>2. CASE i <= Len(u)
    <3>1. i \in 1..Len(u) /\ w[i] = u[i]
      BY <1>1, <2>2
    <3>2. i > 1 => w[i - 1] = u[i - 1]
      BY <1>1, <2>2
    <3>3. QED
      BY <3>1, <3>2 DEF WholeIn
  <2>3. QED
    BY <1>1, <2>1, <2>2
<1>3. QED
    BY <1>2 DEF WholeIn

LEMMA InitLines == Init => LinesOK
<1>1. SUFFICES ASSUME Init PROVE LinesOK
    OBVIOUS
<1>2. TypeOK
    BY <1>1, InitControl
<1>3. Len(line) = 0 /\ Len(stdin) = 0
    BY <1>1, EmptySeq DEF Init
<1>4. Len(Units) = 0
    BY <1>2, <1>3, UnitsElements
<1>5. QED
    BY <1>1, <1>3, <1>4 DEF Init, LinesOK, WholeIn, ReadOK, LastOK

\* Steps that leave the units alone.
LEMMA QuietLines ==
    ASSUME TypeOK, LinesOK, UNCHANGED <<written, line, stdin, nebUp>>,
           \A c \in Calls : phase'[c] = "writing" => phase[c] = "writing" \/ written[c] = 0,
           \A c \in Calls : phase[c] = "writing" => phase'[c] = "writing" \/ ~nebUp
    PROVE  LinesOK'
<1>1. Units' = Units
    BY DEF Units
<1>2. WholeIn(Units)' /\ ReadOK'
    BY <1>1 DEF LinesOK, WholeIn, ReadOK
<1>3. Len(Units) > 0 => Len(Units) \in 1..Len(Units) /\ Units[Len(Units)].of \in Calls
    BY UnitsElements
<1>4. ~nebUp => ~(Len(Units) > 0)
    BY UnitsElements DEF LinesOK, LastOK
<1>5. LastOK'
    BY <1>1, <1>3, <1>4 DEF LinesOK, LastOK
<1>6. QED
    BY <1>2, <1>5 DEF LinesOK

\* WriteUnit goes on with the call's line, or starts it behind a whole one.
LEMMA WriteLines ==
    ASSUME TypeOK, ControlOK, LinesOK, NEW c \in Calls, WriteUnit(c)
    PROVE  LinesOK'
<1> DEFINE x == [of |-> c, part |-> written[c] + 1]
           n == Len(Units)
<1>1. /\ x \in Unit /\ stdin' = Append(stdin, x) /\ written'[c] = written[c] + 1
      /\ stdin' \in Seq(Unit) /\ Len(stdin') = Len(stdin) + 1
    BY WriteType
<1>2. /\ phase[c] = "writing" /\ nebUp
      /\ line' = line /\ nebUp' = nebUp
      /\ \A d \in Calls : d # c => written'[d] = written[d]
    BY DEF WriteUnit, TypeOK
<1>3. /\ written[c] \in Nat
      /\ x.of = c /\ x.part = written[c] + 1
    BY DEF TypeOK
<1>4. /\ n \in Nat /\ Units \in Seq(Unit)
      /\ n > 0 => n \in 1..n /\ Units[n].of \in Calls /\ Units[n].part \in 1..LineSize
    BY UnitsElements, LenProperties
<1>5. \A d \in Calls : phase[d] = "writing" => d = c
    BY <1>2 DEF ControlOK, MutexOK, Inside
<1>6. Units' = Append(Units, x)
  <2>1. line \in Seq(Unit) /\ stdin \in Seq(Unit)
    BY DEF TypeOK
  <2>2. Append(stdin, x) = stdin \o <<x>> /\ Append(Units, x) = Units \o <<x>>
    BY <1>1, <1>4, <2>1, AppendIsConcat
  <2>3. <<x>> \in Seq(Unit)
    BY <1>1
  <2>4. (line \o stdin) \o <<x>> = line \o (stdin \o <<x>>)
    BY <2>1, <2>3, ConcatAssociative
  <2>5. QED
    BY <1>1, <1>2, <2>2, <2>4 DEF Units
<1> HIDE DEF x, n
<1>7. WholeIn(Units)'
  <2>1. IF x.part = 1 THEN n = 0 \/ Units[n].part = LineSize
        ELSE n > 0 /\ x.of = Units[n].of /\ x.part = Units[n].part + 1
    <3>1. CASE written[c] = 0
      BY <1>3, <1>4, <1>5, <3>1 DEF LinesOK, LastOK, n
    <3>2. CASE written[c] # 0
      BY <1>2, <1>3, <3>2 DEF LinesOK, LastOK, n
    <3>3. QED
      BY <3>1, <3>2
  <2>2. WholeIn(Append(Units, x))
    BY <1>1, <1>4, <2>1, WholeAppend DEF LinesOK, n
  <2>3. QED
    BY <1>6, <2>2 DEF WholeIn
<1>8. Len(Units') = n + 1 /\ Units'[n + 1] = x
    BY <1>1, <1>4, <1>6, AppendProperties DEF n
<1>9. /\ \A d \in Calls : phase'[d] = "writing" => d = c
      /\ written'[c] < LineSize => phase'[c] = "writing"
      /\ written'[c] <= LineSize /\ LineSize \in Nat
  <2>1. written'[c] < LineSize => phase' = phase
    BY DEF WriteUnit
  <2>2. ~(written'[c] < LineSize) => phase' = [phase EXCEPT ![c] = "reading"]
    BY DEF WriteUnit, Goto
  <2>3. written[c] < LineSize
    BY <1>2 DEF ControlOK, WrittenOK
  <2>4. QED
    BY <1>1, <1>2, <1>3, <1>5, <2>1, <2>2, <2>3, TransportAssumption DEF TypeOK
<1>10. LastOK'
  <2>1. Units'[n + 1].of = c /\ Units'[n + 1].part = written'[c]
    BY <1>1, <1>3, <1>8
  <2>2. \/ Units'[n + 1].part = LineSize
        \/ phase'[c] = "writing" /\ written'[c] = Units'[n + 1].part
    BY <1>1, <1>3, <1>9, <2>1
  <2>3. n + 1 > 0
    BY <1>4
  <2>4. QED
    BY <1>2, <1>8, <1>9, <2>1, <2>2, <2>3 DEF LastOK
<1>11. ReadOK'
    BY <1>2 DEF LinesOK, ReadOK
<1>12. QED
    BY <1>7, <1>10, <1>11 DEF LinesOK

\* The neb takes a unit over from the pipe: the units are the same.
LEMMA ReadLines == ASSUME TypeOK, LinesOK, NebRead PROVE LinesOK'
<1> DEFINE n == Len(line)
<1>1. /\ line \in Seq(Unit) /\ stdin \in Seq(Unit) /\ stdin # <<>>
      /\ line' = Append(line, Head(stdin)) /\ stdin' = Tail(stdin)
      /\ n < LineSize
    BY DEF TypeOK, NebRead
<1>2. Head(stdin) \in Unit /\ stdin = <<Head(stdin)>> \o Tail(stdin)
    BY <1>1, HeadTailProperties
<1>3. Units' = Units
  <2>1. line' = line \o <<Head(stdin)>>
    BY <1>1, <1>2, AppendIsConcat
  <2>2. <<Head(stdin)>> \in Seq(Unit) /\ Tail(stdin) \in Seq(Unit)
    BY <1>1, <1>2, HeadTailProperties
  <2>3. (line \o <<Head(stdin)>>) \o Tail(stdin) = line \o (<<Head(stdin)>> \o Tail(stdin))
    BY <1>1, <2>2, ConcatAssociative
  <2>4. QED
    BY <1>1, <1>2, <2>1, <2>3 DEF Units
<1>4. WholeIn(Units)' /\ LastOK'
  <2>1. ~(~nebUp)
    BY DEF NebRead
  <2>2. UNCHANGED <<phase, written, nebUp>>
    BY DEF NebRead, stdio
  <2>3. QED
    BY <1>3, <2>1, <2>2 DEF LinesOK, WholeIn, LastOK
<1>5. /\ Len(line') = n + 1 /\ n \in Nat
      /\ \A k \in 1..n : line'[k] = line[k]
      /\ line'[n + 1] = Head(stdin)
    BY <1>1, <1>2, AppendProperties, LenProperties
<1>6. line'[n + 1] = Units[n + 1] /\ n + 1 \in 1..Len(Units)
  <2>1. Len(stdin) \in Nat \ {0} /\ Head(stdin) = stdin[1]
    BY <1>1, EmptySeq
  <2>2. Units[n + 1] = stdin[1] /\ Len(Units) = n + Len(stdin)
    BY <2>1, UnitsElements
  <2>3. QED
    BY <1>5, <2>1, <2>2
<1>7. line'[n + 1].of = line'[1].of /\ line'[n + 1].part = n + 1
  <2>1. CASE n = 0
    <3>1. Units[1].part = 1
      BY <1>6, <2>1 DEF LinesOK, WholeIn
    <3>2. QED
      BY <1>6, <2>1, <3>1
  <2>2. CASE n > 0
    <3>1. n \in 1..n /\ 1 \in 1..n
      BY <1>5, <2>2
    <3>2. Units[n] = line[n]
      BY <3>1, UnitsElements
    <3>3. line[n].of = line[1].of /\ line[n].part = n
      BY <3>1 DEF LinesOK, ReadOK
    <3>4. line'[1] = line[1]
      BY <1>5, <3>1
    <3>5. Units[n + 1].of = Units[n].of /\ Units[n + 1].part = Units[n].part + 1
      <4>1. (n + 1) - 1 = n /\ n + 1 # 1 /\ Units[n].part # LineSize
        BY <1>1, <1>5, <2>2, <3>2, <3>3
      <4>2. QED
        BY <1>6, <4>1 DEF LinesOK, WholeIn
    <3>6. QED
      BY <1>6, <3>2, <3>3, <3>4, <3>5
  <2>3. QED
    BY <1>5, <2>1, <2>2
<1>8. ReadOK'
  <2>1. ASSUME NEW k \in 1..n PROVE line'[k].of = line'[1].of /\ line'[k].part = k
    <3>1. 1 \in 1..n /\ line'[1] = line[1] /\ line'[k] = line[k]
      BY <1>5, <2>1
    <3>2. QED
      BY <3>1 DEF LinesOK, ReadOK
  <2>2. \A k \in 1..n + 1 : k \in 1..n \/ k = n + 1
    BY <1>5
  <2>3. QED
    BY <1>5, <1>7, <2>1, <2>2 DEF ReadOK
<1>9. QED
    BY <1>4, <1>8 DEF LinesOK

\* A whole line taken from the front leaves whole lines.
LEMMA TakeLines ==
    ASSUME TypeOK, ControlOK, LinesOK, Len(line) = LineSize, line' = <<>>,
           UNCHANGED <<phase, written, stdin, nebUp>>
    PROVE  LinesOK'
<1> DEFINE m == Len(stdin)
<1>1. /\ line \in Seq(Unit) /\ stdin \in Seq(Unit)
      /\ m \in Nat /\ LineSize \in Nat /\ LineSize >= 1
      /\ Len(line') = 0
    BY EmptySeq, LenProperties, TransportAssumption DEF TypeOK
<1>2. Units' = stdin
    BY <1>1, ConcatEmptySeq DEF Units
<1>3. /\ Len(Units) = LineSize + m
      /\ \A i \in 1..m : Units[LineSize + i] = stdin[i]
      /\ Units[LineSize] = line[LineSize]
      /\ \A i \in 1..m : stdin[i].part \in 1..LineSize
  <2>1. LineSize \in 1..Len(line)
    BY <1>1
  <2>2. \A i \in 1..m : LineSize + i \in 1..LineSize + m
    BY <1>1
  <2>3. QED
    BY <2>1, <2>2, UnitsElements
<1>4. line[LineSize].part = LineSize
    BY <1>1 DEF LinesOK, ReadOK
<1>5. WholeIn(stdin)
  <2>1. ASSUME NEW i \in 1..m
        PROVE  IF stdin[i].part = 1 THEN i = 1 \/ stdin[i - 1].part = LineSize
               ELSE /\ i > 1
                    /\ stdin[i].of = stdin[i - 1].of
                    /\ stdin[i].part = stdin[i - 1].part + 1
    <3> DEFINE j == LineSize + i
    <3>1. j \in 1..Len(Units) /\ j # 1 /\ j > 1
      BY <1>1, <1>3
    <3>2. IF Units[j].part = 1 THEN Units[j - 1].part = LineSize
          ELSE Units[j].of = Units[j - 1].of /\ Units[j].part = Units[j - 1].part + 1
      BY <3>1 DEF LinesOK, WholeIn
    <3>3. Units[j] = stdin[i] /\ stdin[i].part \in 1..LineSize
      BY <1>3
    <3>4. CASE i = 1
      <4>1. Units[j - 1].part = LineSize
        BY <1>1, <1>3, <1>4, <3>4
      <4>2. stdin[i].part # LineSize + 1
        BY <1>1, <3>3
      <4>3. QED
        BY <3>2, <3>3, <3>4, <4>1, <4>2
    <3>5. CASE i > 1
      <4>1. i - 1 \in 1..m /\ j - 1 = LineSize + (i - 1)
        BY <1>1, <3>5
      <4>2. Units[j - 1] = stdin[i - 1]
        BY <1>3, <4>1
      <4>3. QED
        BY <3>2, <3>3, <3>5, <4>2
    <3>6. QED
      BY <3>4, <3>5
  <2>2. QED
    BY <2>1 DEF WholeIn
<1>6. WholeIn(Units)' /\ ReadOK'
    BY <1>1, <1>2, <1>5 DEF WholeIn, ReadOK
<1>7. m > 0 => stdin[m] = Units[Len(Units)]
    BY <1>1, <1>3
<1>8. m = 0 => Units[Len(Units)].part = LineSize
    BY <1>1, <1>3, <1>4
<1>9. LastOK'
  <2>1. m > 0 => \/ stdin[m].part = LineSize
                 \/ /\ phase[stdin[m].of] = "writing"
                    /\ written[stdin[m].of] = stdin[m].part
    BY <1>1, <1>3, <1>7 DEF LinesOK, LastOK
  <2>2. ASSUME NEW c \in Calls, nebUp, phase[c] = "writing", written[c] # 0
        PROVE  m > 0 /\ stdin[m].of = c /\ stdin[m].part = written[c]
    <3>1. Units[Len(Units)].of = c /\ Units[Len(Units)].part = written[c]
      BY <2>2 DEF LinesOK, LastOK
    <3>2. written[c] # LineSize
      BY <1>1, <2>2 DEF ControlOK, WrittenOK
    <3>3. m > 0
      BY <1>1, <1>8, <3>1, <3>2
    <3>4. QED
      BY <1>7, <3>1, <3>3
  <2>3. ~nebUp => Len(line') = 0 /\ m = 0
    BY <1>1 DEF LinesOK, LastOK
  <2>4. QED
    BY <1>1, <1>2, <2>1, <2>2, <2>3 DEF LastOK
<1>10. QED
    BY <1>6, <1>9 DEF LinesOK

\* With the neb its pipe is gone.
LEMMA ExitLines == ASSUME TypeOK, NebExit PROVE LinesOK'
<1>1. line' = <<>> /\ stdin' = <<>> /\ nebUp' = FALSE
    BY DEF NebExit
<1>2. Len(<<>>) = 0 /\ <<>> \o <<>> = <<>>
    BY EmptySeq, ConcatEmptySeq
<1>3. Len(line') = 0 /\ Len(stdin') = 0 /\ Len(Units') = 0
    BY <1>1, <1>2 DEF Units
<1>4. WholeIn(Units)' /\ ReadOK'
    BY <1>3 DEF WholeIn, ReadOK
<1>5. LastOK'
    BY <1>1, <1>3 DEF LastOK
<1>6. QED
    BY <1>4, <1>5 DEF LinesOK

\* Every action keeps the lines whole.
LEMMA LinesStep == TypeOK /\ ControlOK /\ LinesOK /\ [Next]_vars => LinesOK'
<1>1. SUFFICES ASSUME TypeOK, ControlOK, LinesOK, [Next]_vars PROVE LinesOK'
    OBVIOUS
<1>2. ASSUME NEW c \in Calls,
             \/ Begin(c) \/ Lock(c) \/ Refuse(c) \/ StartWrite(c)
             \/ WriteFails(c) \/ Receive(c) \/ Timeout(c) \/ ScanStep(c)
      PROVE  LinesOK'
  <2>1. UNCHANGED <<written, line, stdin, nebUp>>
    BY <1>2 DEF Begin, Lock, Refuse, StartWrite, WriteFails, Receive, Timeout,
        ScanStep, Scan, ScanFails, pipes
  <2>2. \A d \in Calls : phase'[d] = "writing" => phase[d] = "writing" \/ written[d] = 0
    BY <1>1, <1>2 DEF TypeOK, ControlOK, WrittenOK, Begin, Lock, Refuse, StartWrite,
        WriteFails, Receive, Timeout, ScanStep, Scan, ScanFails, ReturnError, Return, Goto
  <2>3. \A d \in Calls : phase[d] = "writing" => phase'[d] = "writing" \/ ~nebUp
    BY <1>1, <1>2 DEF TypeOK, Begin, Lock, Refuse, StartWrite,
        WriteFails, Receive, Timeout, ScanStep, Scan, ScanFails, ReturnError, Return, Goto
  <2>4. QED
    BY <1>1, <2>1, <2>2, <2>3, QuietLines
<1>3. ASSUME NEW c \in Calls, WriteUnit(c) PROVE LinesOK'
    BY <1>1, <1>3, WriteLines
<1>4. CASE Close \/ UNCHANGED vars
  <2>1. UNCHANGED <<phase, written, line, stdin, nebUp>>
    BY <1>4 DEF Close, vars, stdio, pipes
  <2>2. QED
    BY <1>1, <2>1, QuietLines
<1>5. CASE NebRead
    BY <1>1, <1>5, ReadLines
<1>6. CASE NebRespond \/ NebSkip
  <2>1. /\ Len(line) = LineSize /\ line' = <<>>
        /\ UNCHANGED <<phase, written, stdin, nebUp>>
    BY <1>6 DEF NebRespond, NebSkip, stdio
  <2>2. QED
    BY <1>1, <2>1, TakeLines
<1>7. CASE NebExit
    BY <1>1, <1>7, ExitLines
<1>8. QED
    BY <1>1, <1>2, <1>3, <1>4, <1>5, <1>6, <1>7 DEF Next, SendStep, Neb

-----------------------------------------------------------------------------
(* Pipes *)

LEMMA InitPipes == Init => PipesOK
<1>1. SUFFICES ASSUME Init PROVE PipesOK
    OBVIOUS
<1>2. Nothing
    BY <1>1, EmptySeq DEF Init, Nothing
<1>3. OneLine
    BY <1>2, TransportAssumption DEF OneLine, Nothing
<1>4. OfCaller /\ ReceivedOK
    BY <1>1 DEF Init, OfCaller, ReceivedOK
<1>5. QED
    BY <1>2, <1>3, <1>4 DEF PipesOK, NothingLeft

\* Lengths are numbers, and each element of a pipe is of some call.
LEMMA PipeLengths ==
    ASSUME TypeOK
    PROVE  /\ Len(line) \in Nat /\ Len(stdin) \in Nat /\ Len(stdout) \in Nat
           /\ LineSize \in Nat /\ LineSize >= 1
           /\ \A c \in Calls : written[c] \in Nat
           /\ stdout # <<>> => Len(stdout) > 0
<1>1. line \in Seq(Unit) /\ stdin \in Seq(Unit) /\ stdout \in Seq(Response)
    BY DEF TypeOK
<1>2. /\ Len(line) \in Nat /\ Len(stdin) \in Nat /\ Len(stdout) \in Nat
      /\ stdout # <<>> => Len(stdout) > 0
    BY <1>1, LenProperties, EmptySeq
<1>3. \A c \in Calls : written[c] \in Nat
    BY TransportAssumption DEF TypeOK
<1>4. QED
    BY <1>2, <1>3, TransportAssumption

\* The calls' own steps, which leave the pipes alone.
LEMMA CallPipes ==
    ASSUME IInv, NEW c \in Calls,
           \/ Begin(c) \/ Lock(c) \/ Refuse(c) \/ StartWrite(c)
           \/ WriteFails(c) \/ Receive(c) \/ Timeout(c)
    PROVE  PipesOK'
<1>1. /\ UNCHANGED <<scans, scanFailed, ch, written, line, stdin, stdout, nebUp>>
      /\ \A d \in Calls : d # c => phase'[d] = phase[d]
      /\ broken => broken'
    BY DEF IInv, TypeOK, Begin, Lock, Refuse, StartWrite, WriteFails, Receive,
        Timeout,
        ReturnError, Return, Goto, pipes
<1>2. Nothing' = Nothing /\ \A d \in Calls : OnlyOf(d)' = OnlyOf(d)
    BY <1>1 DEF Nothing, OnlyOf
<1>3. OneLine => OneLine'
    BY <1>1, <1>2 DEF OneLine
<1>4. phase'[c] # "reading"
    BY DEF IInv, TypeOK, Begin, Lock, Refuse, StartWrite, WriteFails, Receive,
        Timeout,
        ReturnError, Return, Goto
<1>5. ReceivedOK'
    BY <1>1, <1>4 DEF IInv, PipesOK, ReceivedOK
<1>6. ASSUME ~scanFailed PROVE OfCaller' /\ NothingLeft'
  <2>1. OneLine /\ OfCaller /\ NothingLeft
    BY <1>6 DEF IInv, PipesOK
  <2>2. CASE StartWrite(c)
    <3>1. /\ phase[c] = "locked" /\ ~broken
          /\ phase'[c] = "writing"
      BY <2>2 DEF StartWrite, Goto, IInv, TypeOK
    <3>2. \A d \in Calls : phase[d] \notin {"writing", "reading"}
      BY <3>1 DEF IInv, ControlOK, MutexOK, Inside
    <3>3. Nothing
      BY <2>1, <3>1, <3>2 DEF NothingLeft
    <3>4. OnlyOf(c) /\ written[c] = 0
      BY <3>1, <3>3 DEF Nothing, OnlyOf, IInv, ControlOK, WrittenOK
    <3>5. OfCaller'
      BY <1>1, <1>2, <3>1, <3>2, <3>3, <3>4 DEF OfCaller, Nothing
    <3>6. NothingLeft'
      BY <3>1 DEF NothingLeft
    <3>7. QED
      BY <3>5, <3>6
  <2>3. CASE ~StartWrite(c)
    <3>1. phase'[c] \notin {"writing", "reading"}
      BY <2>3 DEF IInv, TypeOK, Begin, Lock, Refuse, WriteFails, Receive, Timeout,
          ReturnError, Return, Goto
    <3>2. OfCaller'
      BY <1>1, <1>2, <2>1, <3>1 DEF OfCaller
    <3>3. CASE Begin(c) \/ Lock(c) \/ Refuse(c)
      <4>1. phase[c] \notin {"writing", "reading"}
        BY <3>3 DEF Begin, Lock, Refuse
      <4>2. QED
        BY <1>1, <1>2, <2>1, <3>2, <4>1 DEF NothingLeft
    <3>4. CASE Timeout(c)
      BY <3>2, <3>4 DEF NothingLeft, Timeout
    <3>5. CASE WriteFails(c)
      <4>1. Len(stdout) = 0
        BY <2>1, <3>5 DEF OfCaller, WriteFails
      <4>2. Len(line) = 0 /\ Len(stdin) = 0
        BY <3>5 DEF WriteFails, IInv, LinesOK, LastOK
      <4>3. QED
        BY <1>2, <3>2, <4>1, <4>2 DEF NothingLeft, Nothing
    <3>6. CASE Receive(c)
      BY <1>2, <2>1, <3>2, <3>6 DEF NothingLeft, OfCaller, Receive
    <3>7. QED
      BY <2>3, <3>3, <3>4, <3>5, <3>6
  <2>4. QED
    BY <2>2, <2>3
<1>7. QED
    BY <1>1, <1>3, <1>5, <1>6 DEF IInv, PipesOK

\* The call that writes goes on with its own line.
LEMMA WritePipes == ASSUME IInv, NEW c \in Calls, WriteUnit(c) PROVE PipesOK'
<1> DEFINE x == [of |-> c, part |-> written[c] + 1]
           n == Len(stdin)
<1>1. /\ x \in Unit /\ stdin' = Append(stdin, x) /\ written'[c] = written[c] + 1
      /\ Len(stdin') = n + 1
    BY WriteType DEF IInv
<1>2. /\ phase[c] = "writing" /\ nebUp
      /\ UNCHANGED <<broken, scanFailed, ch, line, stdout, nebUp>>
      /\ \A d \in Calls : d # c => phase'[d] = phase[d]
      /\ phase'[c] \in {"writing", "reading"}
      /\ phase'[c] = "reading" => ~(written'[c] < LineSize)
    BY DEF WriteUnit, Goto, IInv, TypeOK
<1>3. /\ stdin \in Seq(Unit)
      /\ n \in Nat /\ Len(line) \in Nat /\ LineSize \in Nat
      /\ written[c] \in Nat /\ written[c] < LineSize
    BY <1>2, PipeLengths DEF IInv, TypeOK, ControlOK, WrittenOK
<1>4. /\ \A i \in 1..n : stdin'[i] = stdin[i]
      /\ stdin'[n + 1] = x
    BY <1>1, <1>3, AppendProperties
<1>5. /\ ch[c] = <<>>
      /\ \A d \in Calls : phase[d] \in {"writing", "reading"} => d = c
  <2>1. c \notin scans
    BY <1>2 DEF IInv, ControlOK, ScansOK
  <2>2. QED
    BY <1>2 DEF IInv, ControlOK, MutexOK, Inside, ScansOK
<1>6. ReceivedOK'
    BY <1>2, <1>5 DEF IInv, PipesOK, ReceivedOK
<1>7. ASSUME ~scanFailed PROVE OneLine' /\ OfCaller' /\ NothingLeft'
  <2>1. /\ OnlyOf(c) /\ Len(stdout) = 0
        /\ Len(line) + n = written[c]
    BY <1>2, <1>7 DEF IInv, PipesOK, OfCaller
  <2>2. x.of = c
    OBVIOUS
  <2> HIDE DEF x, n
  <2>3. ASSUME NEW i \in 1..n + 1 PROVE stdin'[i].of = c
    <3>1. CASE i = n + 1
      BY <1>4, <2>2, <3>1
    <3>2. CASE i # n + 1
      <4>1. i \in 1..n
        BY <1>3, <3>2
      <4>2. QED
        BY <1>4, <2>1, <4>1 DEF OnlyOf, n
    <3>3. QED
      BY <3>1, <3>2
  <2>4. OnlyOf(c)'
    BY <1>1, <1>2, <2>1, <2>3 DEF OnlyOf
  <2>5. Len(line') + Len(stdin') = written'[c] /\ written'[c] <= LineSize
    BY <1>1, <1>2, <1>3, <2>1
  <2>6. OneLine'
    BY <1>2, <2>1, <2>4, <2>5 DEF OneLine
  <2>7. OfCaller'
    BY <1>2, <1>5, <2>1, <2>4, <2>5 DEF OfCaller
  <2>8. NothingLeft'
    BY <1>2 DEF NothingLeft
  <2>9. QED
    BY <2>6, <2>7, <2>8
<1>8. QED
    BY <1>2, <1>6, <1>7 DEF IInv, PipesOK

\* The scan goroutine takes the only response there is.
LEMMA ScanPipes == ASSUME IInv, NEW c \in Calls, Scan(c) PROVE PipesOK'
<1>1. /\ stdout \in Seq(Response) /\ stdout # <<>> /\ stdout' = Tail(stdout)
      /\ ~scanFailed
      /\ UNCHANGED <<phase, broken, line, stdin, written, nebUp>>
      /\ \A d \in Calls : d # c => ch'[d] = ch[d]
    BY DEF Scan, IInv, TypeOK
<1>2. /\ OneLine /\ OfCaller /\ NothingLeft /\ ReceivedOK
    BY <1>1 DEF IInv, PipesOK
<1>3. Len(stdout) = 1 /\ Len(line) = 0 /\ Len(stdin) = 0
    BY <1>1, <1>2, PipeLengths DEF IInv, OneLine
<1>4. Len(stdout') = 0
    BY <1>1, <1>3, HeadTailProperties
<1>5. Nothing' /\ \A d \in Calls : OnlyOf(d)'
    BY <1>1, <1>3, <1>4 DEF Nothing, OnlyOf
<1>6. OneLine' /\ NothingLeft'
    BY <1>5, TransportAssumption DEF OneLine, NothingLeft, Nothing
<1>7. \A d \in Calls : phase[d] # "writing"
    BY <1>2, <1>3 DEF OfCaller
<1>8. OfCaller'
    BY <1>1, <1>5, <1>7 DEF OfCaller
<1>9. ReceivedOK'
  <2>1. Head(stdout) = stdout[1] /\ 1 \in 1..Len(stdout)
    BY <1>1, <1>3
  <2>2. phase[c] = "reading" => Head(stdout).to = c
    BY <1>2, <2>1 DEF OfCaller, OnlyOf
  <2>3. ch'[c][2] = Head(stdout)
    BY ScanType DEF IInv
  <2>4. QED
    BY <1>1, <1>2, <2>2, <2>3 DEF ReceivedOK
<1>10. QED
    BY <1>6, <1>8, <1>9 DEF PipesOK

\* The neb's steps: they take from what is of the one request and add its
\* response.
LEMMA NebPipes ==
    ASSUME IInv, TypeOK', UNCHANGED stdio, nebUp' => nebUp,
           OneLine => Len(line') + Len(stdin') <= Len(line) + Len(stdin),
           Len(stdout') > 0 /\ OneLine =>
                Len(stdout') = 1 /\ Len(line') = 0 /\ Len(stdin') = 0,
           \A c \in Calls : OneLine /\ OnlyOf(c) => OnlyOf(c)',
           Nothing => Nothing',
           \A c \in Calls :
                ~scanFailed /\ phase[c] = "writing" /\ OneLine /\ OfCaller =>
                    /\ Len(stdout') = 0
                    /\ nebUp' => Len(line') + Len(stdin') = Len(line) + Len(stdin)
    PROVE  PipesOK'
<1>1. /\ UNCHANGED <<phase, broken, scanFailed, ch, written>>
      /\ ReceivedOK'
    BY DEF stdio, IInv, PipesOK, ReceivedOK
<1>2. ASSUME ~scanFailed PROVE OneLine' /\ OfCaller' /\ NothingLeft'
  <2>1. OneLine /\ OfCaller /\ NothingLeft
    BY <1>2 DEF IInv, PipesOK
  <2>2. OneLine'
    <3>1. Len(line') + Len(stdin') <= Len(line) + Len(stdin)
      BY <2>1
    <3>2. Len(line) + Len(stdin) <= LineSize
      BY <2>1 DEF OneLine
    <3>3. Len(line') + Len(stdin') <= LineSize
      <4>1. /\ Len(line) \in Nat /\ Len(stdin) \in Nat /\ LineSize \in Nat
        BY PipeLengths DEF IInv
      <4>2. stdin' \in Seq(Unit) /\ line' \in Seq(Unit)
        BY DEF TypeOK
      <4>3. Len(line') \in Nat /\ Len(stdin') \in Nat
        BY <4>2, LenProperties
      <4>4. QED
        BY <3>1, <3>2, <4>1, <4>3
    <3>4. Nothing' \/ \E c \in Calls : OnlyOf(c)'
      BY <2>1 DEF OneLine
    <3>5. QED
      BY <2>1, <3>3, <3>4 DEF OneLine
  <2>3. OfCaller'
    BY <1>1, <1>2, <2>1 DEF OfCaller
  <2>4. NothingLeft'
    BY <1>1, <2>1 DEF NothingLeft
  <2>5. QED
    BY <2>2, <2>3, <2>4
<1>3. QED
    BY <1>1, <1>2 DEF PipesOK

LEMMA ReadPipes == ASSUME IInv, TypeOK', NebRead PROVE PipesOK'
<1>1. /\ line \in Seq(Unit) /\ stdin \in Seq(Unit) /\ stdin # <<>>
      /\ line' = Append(line, Head(stdin)) /\ stdin' = Tail(stdin)
      /\ UNCHANGED stdio /\ UNCHANGED <<stdout, nebUp>>
    BY DEF NebRead, IInv, TypeOK
<1>2. /\ Len(line) \in Nat /\ Len(stdin) \in Nat /\ Len(stdin) > 0
      /\ Head(stdin) = stdin[1] /\ Head(stdin) \in Unit
      /\ Len(line') = Len(line) + 1 /\ Len(stdin') = Len(stdin) - 1
      /\ \A i \in 1..Len(stdin') : stdin'[i] = stdin[i + 1]
    BY <1>1, LenProperties, EmptySeq, HeadTailProperties, ReadType DEF IInv
<1>3. /\ \A i \in 1..Len(line) : line'[i] = line[i]
      /\ line'[Len(line) + 1] = stdin[1]
    BY <1>1, <1>2, AppendProperties
<1>4. ASSUME NEW c \in Calls, OnlyOf(c) PROVE OnlyOf(c)'
  <2>1. \A i \in 1..Len(line') : i \in 1..Len(line) \/ i = Len(line) + 1
    BY <1>2
  <2>2. 1 \in 1..Len(stdin) /\ \A i \in 1..Len(stdin') : i + 1 \in 1..Len(stdin)
    BY <1>2
  <2>3. \A i \in 1..Len(line') : line'[i].of = c
    BY <1>3, <1>4, <2>1, <2>2 DEF OnlyOf
  <2>4. \A i \in 1..Len(stdin') : stdin'[i].of = c
    BY <1>2, <1>4, <2>2 DEF OnlyOf
  <2>5. QED
    BY <1>1, <1>4, <2>3, <2>4 DEF OnlyOf
<1>5. ~Nothing /\ (OneLine => ~(Len(stdout') > 0))
    BY <1>1, <1>2 DEF Nothing, OneLine
<1>6. Len(line') + Len(stdin') = Len(line) + Len(stdin)
    BY <1>2
<1>7. Len(line') + Len(stdin') <= Len(line) + Len(stdin)
    BY <1>2
<1>8. \A c \in Calls : phase[c] = "writing" /\ OfCaller => Len(stdout') = 0
    BY <1>1 DEF OfCaller
<1>9. QED
    BY <1>1, <1>4, <1>5, <1>6, <1>7, <1>8, NebPipes

\* The neb takes its line away, whatever it does with it.
LEMMA LineTaken ==
    ASSUME IInv, nebUp, Len(line) = LineSize, OneLine
    PROVE  /\ Len(stdin) = 0 /\ Len(stdout) = 0 /\ ~Nothing
           /\ \A c \in Calls : ~(phase[c] = "writing" /\ OfCaller)
<1>1. /\ Len(stdin) \in Nat /\ Len(stdout) \in Nat
      /\ LineSize \in Nat /\ LineSize >= 1
    BY PipeLengths DEF IInv
<1>2. Len(stdin) = 0 /\ Len(stdout) = 0 /\ ~Nothing
    BY <1>1 DEF OneLine, Nothing
<1>3. ASSUME NEW c \in Calls, phase[c] = "writing", OfCaller PROVE FALSE
  <2>1. written[c] = LineSize
    BY <1>1, <1>2, <1>3 DEF OfCaller
  <2>2. written[c] < LineSize
    BY <1>3 DEF IInv, ControlOK, WrittenOK
  <2>3. QED
    BY <1>1, <2>1, <2>2
<1>4. QED
    BY <1>2, <1>3

LEMMA RespondPipes == ASSUME IInv, TypeOK', NebRespond PROVE PipesOK'
<1>1. /\ nebUp /\ Len(line) = LineSize /\ line' = <<>>
      /\ UNCHANGED stdio /\ UNCHANGED <<stdin, nebUp>>
    BY DEF NebRespond
<1>2. PICK r \in Response : /\ r.to = line[1].of
                            /\ stdout' = Append(stdout, r)
                            /\ Len(stdout') = Len(stdout) + 1
    BY RespondType DEF IInv
<1>3. Len(line') = 0 /\ Len(stdin) \in Nat /\ LineSize \in Nat /\ LineSize >= 1
    BY <1>1, EmptySeq, PipeLengths DEF IInv
<1>4. OneLine => Len(stdin) = 0 /\ Len(stdout) = 0
    BY <1>1, LineTaken
<1>5. ASSUME NEW c \in Calls, OneLine, OnlyOf(c) PROVE OnlyOf(c)'
  <2>1. 1 \in 1..Len(line)
    BY <1>1, <1>3
  <2>2. line[1].of = c
    BY <1>5, <2>1 DEF OnlyOf
  <2>3. stdout \in Seq(Response)
    BY DEF IInv, TypeOK
  <2>4. Len(stdout') = 1 /\ stdout'[1] = r
    BY <1>2, <1>4, <1>5, <2>3, AppendProperties
  <2>5. \A i \in 1..Len(stdout') : stdout'[i].to = c
    BY <1>2, <2>2, <2>4
  <2>6. QED
    BY <1>1, <1>3, <1>4, <1>5, <2>5 DEF OnlyOf
<1>6. Len(line') + Len(stdin') <= Len(line) + Len(stdin)
    BY <1>1, <1>3
<1>7. OneLine => Len(stdout') = 1 /\ Len(line') = 0 /\ Len(stdin') = 0
    BY <1>1, <1>2, <1>3, <1>4
<1>8. ~Nothing
    BY <1>1, <1>3 DEF Nothing
<1>9. \A c \in Calls : ~(phase[c] = "writing" /\ OneLine /\ OfCaller)
    BY <1>1, LineTaken
<1>10. QED
    BY <1>1, <1>5, <1>6, <1>7, <1>8, <1>9, NebPipes

LEMMA SkipPipes == ASSUME IInv, TypeOK', NebSkip PROVE PipesOK'
<1>1. /\ nebUp /\ Len(line) = LineSize /\ line' = <<>>
      /\ UNCHANGED stdio /\ UNCHANGED <<stdin, stdout, nebUp>>
    BY DEF NebSkip
<1>2. Len(line') = 0 /\ Len(stdin) \in Nat /\ LineSize \in Nat /\ LineSize >= 1
    BY <1>1, EmptySeq, PipeLengths DEF IInv
<1>3. OneLine => Len(stdout') = 0
    BY <1>1, LineTaken
<1>4. \A c \in Calls : OnlyOf(c) => OnlyOf(c)'
    BY <1>1, <1>2 DEF OnlyOf
<1>5. Len(line') + Len(stdin') <= Len(line) + Len(stdin)
    BY <1>1, <1>2
<1>6. ~Nothing
    BY <1>1, <1>2 DEF Nothing
<1>7. \A c \in Calls : ~(phase[c] = "writing" /\ OneLine /\ OfCaller)
    BY <1>1, LineTaken
<1>8. QED
    BY <1>1, <1>3, <1>4, <1>5, <1>6, <1>7, NebPipes

LEMMA ExitPipes == ASSUME IInv, TypeOK', NebExit PROVE PipesOK'
<1>1. /\ nebUp' = FALSE /\ stdin' = <<>> /\ line' = <<>>
      /\ UNCHANGED stdio /\ UNCHANGED stdout
    BY DEF NebExit
<1>2. /\ Len(line') = 0 /\ Len(stdin') = 0
      /\ Len(line) \in Nat /\ Len(stdin) \in Nat
    BY <1>1, EmptySeq, PipeLengths DEF IInv
<1>3. \A c \in Calls : OnlyOf(c) => OnlyOf(c)'
    BY <1>1, <1>2 DEF OnlyOf
<1>4. Nothing => Nothing'
    BY <1>1, <1>2 DEF Nothing
<1>5. OneLine /\ Len(stdout') > 0 => Len(stdout') = 1
    BY <1>1 DEF OneLine
<1>6. \A c \in Calls : phase[c] = "writing" /\ OfCaller => Len(stdout') = 0
    BY <1>1 DEF OfCaller
<1>7. Len(line') + Len(stdin') <= Len(line) + Len(stdin)
    BY <1>2
<1>8. ~nebUp'
    BY <1>1
<1>9. QED
    BY <1>1, <1>2, <1>3, <1>4, <1>5, <1>6, <1>7, <1>8, NebPipes

LEMMA PipesStep == IInv /\ TypeOK' /\ [Next]_vars => PipesOK'
<1>1. SUFFICES ASSUME IInv, TypeOK', [Next]_vars PROVE PipesOK'
    OBVIOUS
<1>2. ASSUME NEW c \in Calls, Begin(c) \/ SendStep(c) PROVE PipesOK'
    BY <1>1, <1>2, CallPipes, WritePipes DEF SendStep
<1>3. ASSUME NEW c \in Calls, ScanStep(c) PROVE PipesOK'
  <2>1. CASE Scan(c)
    BY <1>1, <2>1, ScanPipes
  <2>2. CASE ScanFails(c)
    <3>1. /\ scanFailed' /\ phase' = phase
          /\ ch'[c] = <<"end">>
          /\ \A d \in Calls : d # c => ch'[d] = ch[d]
      BY <1>1, <2>2 DEF ScanFails, IInv, TypeOK
    <3>2. QED
      BY <1>1, <3>1 DEF IInv, PipesOK, ReceivedOK
  <2>3. QED
    BY <1>3, <2>1, <2>2 DEF ScanStep
<1>4. CASE Close \/ UNCHANGED vars
  <2>1. UNCHANGED <<phase, broken, scanFailed, ch, written, line, stdin, stdout, nebUp>>
    BY <1>4 DEF Close, vars, stdio, pipes
  <2>2. QED
    BY <1>1, <2>1 DEF IInv, PipesOK, OneLine, OfCaller, NothingLeft, ReceivedOK,
        Nothing, OnlyOf
<1>5. CASE Neb
    BY <1>1, <1>5, ReadPipes, RespondPipes, SkipPipes, ExitPipes DEF Neb
<1>6. QED
    BY <1>1, <1>2, <1>3, <1>4, <1>5 DEF Next

-----------------------------------------------------------------------------
(* What holds in every behaviour *)

\* IInv is an inductive invariant, whatever the neb does.
THEOREM Invariance == Spec => []IInv
<1>1. Init => IInv
    BY InitControl, InitLines, InitPipes DEF IInv
<1>2. IInv /\ [Next]_vars => IInv'
    BY ControlStep, LinesStep, PipesStep DEF IInv
<1>3. QED
    BY <1>1, <1>2, PTL DEF Spec

\* Every variable keeps its type, and a write never overfills the pipe.
THEOREM TypeCorrect == Spec => []TypeOK
<1>1. IInv => TypeOK
    BY DEF IInv
<1>2. QED
    BY <1>1, Invariance, PTL

\* Two goroutines are never in the scanner of Stdio, however many calls have
\* timed out and left theirs behind.
THEOREM SingleReader == Spec => []OneReader
<1>1. IInv => OneReader
    BY DEF IInv, ControlOK
<1>2. QED
    BY <1>1, Invariance, PTL

\* The requests of concurrent calls never mix in the neb's stdin, also when the
\* pipe is smaller than a request.
THEOREM WholeLines == Spec => []LinesWhole
<1>1. IInv => LinesWhole
    BY WholeEquiv DEF IInv, LinesOK
<1>2. QED
    BY <1>1, Invariance, PTL

\* As long as the scanner has not failed, a request is written only when no
\* other request and no other response is in the pipes.
THEOREM OnePipe == Spec => []OneInThePipes
<1>1. IInv => OneInThePipes
  <2>1. SUFFICES ASSUME IInv, ~scanFailed
                 PROVE  Cardinality(Unanswered \cup {stdout[i].to : i \in DOMAIN stdout}) <= 1
    BY DEF OneInThePipes
  <2> DEFINE S == Unanswered \cup {stdout[i].to : i \in DOMAIN stdout}
  <2>2. OneLine
    BY <2>1 DEF IInv, PipesOK
  <2>3. /\ line \in Seq(Unit) /\ stdin \in Seq(Unit) /\ stdout \in Seq(Response)
    BY <2>1 DEF IInv, TypeOK
  <2>4. /\ Len(line) \in Nat /\ Len(stdin) \in Nat /\ Len(stdout) \in Nat
        /\ DOMAIN stdout = 1..Len(stdout)
    BY <2>3, LenProperties
  <2>5. ASSUME NEW x \in Unanswered
        PROVE  \/ \E i \in 1..Len(line) : x = line[i].of
               \/ \E i \in 1..Len(stdin) : x = stdin[i].of
    <3>1. line \o stdin \in Seq(Unit) /\ Len(line \o stdin) = Len(line) + Len(stdin)
      BY <2>3, ConcatProperties
    <3>2. PICK i \in 1..(Len(line) + Len(stdin)) : x = (line \o stdin)[i].of
      BY <2>5, <3>1, LenProperties DEF Unanswered
    <3>3. (line \o stdin)[i] = IF i <= Len(line) THEN line[i] ELSE stdin[i - Len(line)]
      BY <2>3, <3>2, ConcatProperties
    <3>4. i \in 1..Len(line) \/ (~(i <= Len(line)) /\ i - Len(line) \in 1..Len(stdin))
      BY <2>4, <3>2
    <3>5. QED
      BY <3>2, <3>3, <3>4
  <2>6. CASE Nothing
    <3>1. S = {}
      BY <2>4, <2>5, <2>6 DEF Nothing
    <3>2. QED
      BY <3>1, FS_EmptySet
  <2>7. ASSUME NEW c \in Calls, OnlyOf(c) PROVE Cardinality(S) <= 1
    <3>1. S \subseteq {c}
      BY <2>4, <2>5, <2>7 DEF OnlyOf
    <3>2. S = {} \/ S = {c}
      BY <3>1
    <3>3. Cardinality({}) = 0 /\ Cardinality({c}) = 1
      BY FS_EmptySet, FS_Singleton
    <3> HIDE DEF S
    <3>4. QED
      BY <3>2, <3>3
  <2>8. QED
    BY <2>2, <2>6, <2>7 DEF OneLine
<1>2. QED
    BY <1>1, Invariance, PTL

\* A step that ends the call under way without an answer is a Fail of Rpc.
LEMMA FailStep ==
    ASSUME IInv, NEW c \in Calls, mu = c, ReturnError(c), broken' \in {broken, TRUE}
    PROVE  rpc!Fail
<1>1. mu # Idle
    BY TransportAssumption
<1>2. QED
    BY <1>1 DEF rpc!Fail, ReturnError, Return

\* Stdio implements the abstract transport: one call at a time, each answer the
\* answer to its own call, and none once a timeout has broken it.
THEOREM Refinement == Spec => ImplementsRpc
<1>1. Init => rpc!Init
    BY DEF Init, rpc!Init, Outcome, rpc!Outcome
<1>2. IInv /\ [Next]_vars => [rpc!Next]_(rpc!rpcVars)
  <2>1. SUFFICES ASSUME IInv, [Next]_vars PROVE [rpc!Next]_(rpc!rpcVars)
    OBVIOUS
  <2>2. ASSUME NEW c \in Calls, Inside(c) PROVE mu = c
    BY <2>1, <2>2 DEF IInv, ControlOK, MutexOK
  <2>3. ASSUME NEW c \in Calls, Lock(c) PROVE rpc!Next
    BY <2>3 DEF Lock, rpc!Begin, rpc!Next
  <2>4. ASSUME NEW c \in Calls, Refuse(c) \/ WriteFails(c) \/ Timeout(c) PROVE rpc!Next
    <3>1. mu = c
      BY <2>2, <2>4 DEF Inside, Refuse, WriteFails, Timeout
    <3>2. ReturnError(c) /\ broken' \in {broken, TRUE}
      BY <2>4 DEF Refuse, WriteFails, Timeout
    <3>3. QED
      BY <2>1, <3>1, <3>2, FailStep DEF rpc!Next
  <2>5. ASSUME NEW c \in Calls, Receive(c) PROVE rpc!Next
    <3>1. phase[c] = "reading" /\ ch[c] # <<>> /\ broken' = broken
      BY <2>5 DEF Receive
    <3>2. mu = c /\ ~broken /\ mu # Idle
      BY <2>1, <2>2, <3>1, TransportAssumption DEF Inside, IInv, ControlOK, BrokenOK
    <3>3. CASE ch[c] = <<"end">>
      <4>1. ReturnError(c)
        BY <2>5, <3>3 DEF Receive
      <4>2. QED
        BY <2>1, <3>1, <3>2, <4>1, FailStep DEF rpc!Next
    <3>4. CASE ch[c] # <<"end">>
      <4>1. outcome' = ch[c][2] /\ mu' = Idle
        BY <2>5, <3>4 DEF Receive, Return
      <4>2. ch[c][2] \in Outcome
        BY <2>1, <3>1, <3>4 DEF IInv, TypeOK, Scanned
      <4>3. ch[c][2].to = c
        BY <2>1, <3>1, <3>4 DEF IInv, PipesOK, ReceivedOK
      <4>4. outcome' \in rpc!Outcome
        BY <4>1, <4>2 DEF Outcome, rpc!Outcome
      <4>5. QED
        BY <3>1, <3>2, <4>1, <4>3, <4>4 DEF rpc!Answer, rpc!Next
    <3>5. QED
      BY <3>3, <3>4
  <2>6. ASSUME NEW c \in Calls,
               \/ Begin(c) \/ StartWrite(c) \/ WriteUnit(c) \/ ScanStep(c)
        PROVE  UNCHANGED rpc!rpcVars
    BY <2>6 DEF Begin, StartWrite, WriteUnit, ScanStep, Scan, ScanFails, rpc!rpcVars
  <2>7. CASE Close \/ Neb \/ UNCHANGED vars
    BY <2>7 DEF Close, Neb, NebRead, NebRespond, NebSkip, NebExit, vars, stdio,
        rpc!rpcVars
  <2>8. QED
    BY <2>1, <2>3, <2>4, <2>5, <2>6, <2>7 DEF Next, SendStep
<1>3. QED
    BY <1>1, <1>2, Invariance, PTL DEF Spec, ImplementsRpc, rpc!Spec
==============================================================================
