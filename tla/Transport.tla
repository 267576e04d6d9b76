------------------------------ MODULE Transport ------------------------------
(***************************************************************************)
(* Stdio of pkg/transport down to its pipes: goroutines that call Send and *)
(* Close, the mutex, the scan goroutine of each call, the neb's stdin as a *)
(* pipe of limited size that a write may fill, and a neb as the            *)
(* counter-service is one.                                                 *)
(*                                                                         *)
(* Every element of Calls is one call of Send with its own request line.   *)
(* A line goes through the pipe in LineSize units, the last of which ends  *)
(* it; a response is one unit that says which request it answers.          *)
(***************************************************************************)
EXTENDS Naturals, Sequences, FiniteSets

CONSTANTS
    Calls,        \* the calls of Send
    Idle,         \* no call
    LineSize,     \* units of a request line
    PipeSize      \* units the stdin pipe holds

ASSUME TransportAssumption == /\ Idle \notin Calls
                              /\ LineSize \in Nat \ {0}
                              /\ PipeSize \in Nat \ {0}

VARIABLES
    phase,        \* where each call is
    mu,           \* the call that holds Stdio.mu, or Idle
    closed,       \* Stdio.closed
    broken,       \* Stdio.broken
    scans,        \* the calls whose scan goroutine is in Scan
    scanFailed,   \* the scanner has come to its end or to a line it cannot take
    ch,           \* what the scan goroutine of a call has put into its channel
    outcome,      \* what the Send that returned last has returned; before the
                  \* first return it has no meaning
    written,      \* how much of its line each call has written
    stdin,        \* the units in the pipe to the neb
    line,         \* the units of the line the neb is reading
    stdout,       \* the response lines not scanned yet
    nebUp         \* the neb is alive

stdio == <<phase, mu, closed, broken, scans, scanFailed, ch, outcome, written>>
pipes == <<stdin, line, stdout, nebUp>>
vars == <<stdio, pipes>>

Phases == {"idle", "locking", "locked", "writing", "reading", "done"}
Statuses == {"ok", "error"}
Outcome == [to : Calls, status : Statuses]
Unit == [of : Calls, part : 1..LineSize]
Response == [to : Calls, status : Statuses \cup {"too long"}]

\* What a scan goroutine has reported: nothing yet, that Scan failed, or a line.
Scanned == {<<>>, <<"end">>} \cup {<<"line", o>> : o \in Outcome}

Init ==
    /\ phase = [c \in Calls |-> "idle"]
    /\ mu = Idle
    /\ closed = FALSE
    /\ broken = FALSE
    /\ scans = {}
    /\ scanFailed = FALSE
    /\ ch = [c \in Calls |-> <<>>]
    /\ outcome \in Outcome
    /\ written = [c \in Calls |-> 0]
    /\ stdin = <<>>
    /\ line = <<>>
    /\ stdout = <<>>
    /\ nebUp = TRUE

Goto(c, p) == phase' = [phase EXCEPT ![c] = p]

\* Send returns, and its deferred Unlock runs.
Return(c, o) ==
    /\ Goto(c, "done")
    /\ outcome' = o
    /\ mu' = Idle

ReturnError(c) == Return(c, [to |-> c, status |-> "error"])

-----------------------------------------------------------------------------
(* Send *)

Begin(c) ==
    /\ phase[c] = "idle"
    /\ Goto(c, "locking")
    /\ UNCHANGED <<mu, closed, broken, scans, scanFailed, ch, outcome, written, pipes>>

\* Mutant: Send does not wait for the mutex.
LockUnguarded(c) ==
    /\ phase[c] = "locking"
    /\ mu' = c
    /\ Goto(c, "locked")
    /\ UNCHANGED <<closed, broken, scans, scanFailed, ch, outcome, written, pipes>>

Lock(c) ==
    /\ phase[c] = "locking"
    /\ mu = Idle
    /\ mu' = c
    /\ Goto(c, "locked")
    /\ UNCHANGED <<closed, broken, scans, scanFailed, ch, outcome, written, pipes>>

\* A closed or broken transport refuses at once.
Refuse(c) ==
    /\ phase[c] = "locked"
    /\ closed \/ broken
    /\ ReturnError(c)
    /\ UNCHANGED <<closed, broken, scans, scanFailed, ch, written, pipes>>

StartWrite(c) ==
    /\ phase[c] = "locked"
    /\ ~closed
    /\ ~broken
    /\ Goto(c, "writing")
    /\ UNCHANGED <<mu, closed, broken, scans, scanFailed, ch, outcome, written, pipes>>

\* The write puts into the pipe what it has room for; a full pipe blocks it.
\* With the last unit the write returns and the scan goroutine is started.
WriteUnit(c) ==
    /\ phase[c] = "writing"
    /\ nebUp
    /\ Len(stdin) < PipeSize
    /\ written' = [written EXCEPT ![c] = @ + 1]
    /\ stdin' = Append(stdin, [of |-> c, part |-> written'[c]])
    /\ IF written'[c] < LineSize THEN UNCHANGED <<phase, scans>>
       ELSE Goto(c, "reading") /\ scans' = scans \cup {c}
    /\ UNCHANGED <<mu, closed, broken, scanFailed, ch, outcome, line, stdout, nebUp>>

\* Mutant: the error return leaves the mutex locked.
WriteFailsLocked(c) ==
    /\ phase[c] = "writing"
    /\ ~nebUp
    /\ Goto(c, "done")
    /\ outcome' = [to |-> c, status |-> "error"]
    /\ UNCHANGED <<mu, closed, broken, scans, scanFailed, ch, written, pipes>>

\* Nobody holds the other end of the pipe any more.
WriteFails(c) ==
    /\ phase[c] = "writing"
    /\ ~nebUp
    /\ ReturnError(c)
    /\ UNCHANGED <<closed, broken, scans, scanFailed, ch, written, pipes>>

\* The scan goroutine of a call takes the next line, whatever it answers ...
Scan(c) ==
    /\ c \in scans
    /\ ~scanFailed
    /\ stdout # <<>>
    /\ Head(stdout).status # "too long"
    /\ ch' = [ch EXCEPT ![c] = <<"line", Head(stdout)>>]
    /\ stdout' = Tail(stdout)
    /\ scans' = scans \ {c}
    /\ UNCHANGED <<phase, mu, closed, broken, scanFailed, outcome, written, stdin,
                   line, nebUp>>

\* ... or finds a line beyond the scanner's buffer or the end of the neb's
\* stdout.  A scanner that failed once fails ever after.
ScanFails(c) ==
    /\ c \in scans
    /\ \/ scanFailed
       \/ stdout # <<>> /\ Head(stdout).status = "too long"
       \/ stdout = <<>> /\ ~nebUp
    /\ scanFailed' = TRUE
    /\ ch' = [ch EXCEPT ![c] = <<"end">>]
    /\ scans' = scans \ {c}
    /\ UNCHANGED <<phase, mu, closed, broken, outcome, written, pipes>>

\* Mutant: the end of the stream is returned for a response.
ReceiveEndToo(c) ==
    /\ phase[c] = "reading"
    /\ ch[c] # <<>>
    /\ Return(c, IF ch[c] = <<"end">> THEN [to |-> c, status |-> "end"] ELSE ch[c][2])
    /\ UNCHANGED <<closed, broken, scans, scanFailed, ch, written, pipes>>

\* readLine selects the result.
Receive(c) ==
    /\ phase[c] = "reading"
    /\ ch[c] # <<>>
    /\ IF ch[c] = <<"end">> THEN ReturnError(c) ELSE Return(c, ch[c][2])
    /\ UNCHANGED <<closed, broken, scans, scanFailed, ch, written, pipes>>

\* Mutant: a timeout leaves the transport in use.
TimeoutNotBroken(c) ==
    /\ phase[c] = "reading"
    /\ ReturnError(c)
    /\ UNCHANGED <<closed, broken, scans, scanFailed, ch, written, pipes>>

\* ... or the timer, which is possible also when a result is there.  The scan
\* goroutine stays behind.
Timeout(c) ==
    /\ phase[c] = "reading"
    /\ ReturnError(c)
    /\ broken' = TRUE
    /\ UNCHANGED <<closed, scans, scanFailed, ch, written, pipes>>

Close ==
    /\ mu = Idle
    /\ ~closed
    /\ closed' = TRUE
    /\ UNCHANGED <<phase, mu, broken, scans, scanFailed, ch, outcome, written, pipes>>

-----------------------------------------------------------------------------
(* The neb: a loop that scans a line, handles it and prints the response *)

NebRead ==
    /\ nebUp
    /\ stdin # <<>>
    /\ Len(line) < LineSize
    /\ line' = Append(line, Head(stdin))
    /\ stdin' = Tail(stdin)
    /\ UNCHANGED <<stdio, stdout, nebUp>>

\* A result, the error of an unknown method, or (not the counter-service) a
\* line longer than the runtime's scanner takes.
NebRespond ==
    /\ nebUp
    /\ Len(line) = LineSize
    /\ \E status \in Statuses \cup {"too long"} :
        stdout' = Append(stdout, [to |-> line[1].of, status |-> status])
    /\ line' = <<>>
    /\ UNCHANGED <<stdio, stdin, nebUp>>

\* A line it cannot parse is logged and skipped.
NebSkip ==
    /\ nebUp
    /\ Len(line) = LineSize
    /\ line' = <<>>
    /\ UNCHANGED <<stdio, stdin, stdout, nebUp>>

\* It ends, after a shutdown request or at any other time.
NebExit ==
    /\ nebUp
    /\ nebUp' = FALSE
    /\ stdin' = <<>>
    /\ line' = <<>>
    /\ UNCHANGED <<stdio, stdout>>

-----------------------------------------------------------------------------
SendStep(c) ==
    \/ Lock(c)
    \/ Refuse(c)
    \/ StartWrite(c)
    \/ WriteUnit(c)
    \/ WriteFails(c)
    \/ Receive(c)
    \/ Timeout(c)

ScanStep(c) == Scan(c) \/ ScanFails(c)

Neb == NebRead \/ NebRespond \/ NebSkip \/ NebExit

Next ==
    \/ \E c \in Calls : Begin(c) \/ SendStep(c) \/ ScanStep(c)
    \/ Close
    \/ Neb

Spec == Init /\ [][Next]_vars

\* The runtime's goroutines are scheduled, its mutex starves nobody and its
\* timers fire.  The neb may stop at any point.
FairSpec == Spec /\ \A c \in Calls : WF_vars(SendStep(c)) /\ WF_vars(ScanStep(c))

-----------------------------------------------------------------------------
(* Properties *)

\* Every variable has its type; the pipe never holds more than its size.
TypeOK ==
    /\ phase \in [Calls -> Phases]
    /\ mu \in Calls \cup {Idle}
    /\ closed \in BOOLEAN
    /\ broken \in BOOLEAN
    /\ scans \subseteq Calls
    /\ ch \in [Calls -> Scanned]
    /\ outcome \in Outcome
    /\ written \in [Calls -> 0..LineSize]
    /\ stdin \in Seq(Unit) /\ Len(stdin) <= PipeSize
    /\ line \in Seq(Unit) /\ Len(line) <= LineSize
    /\ stdout \in Seq(Response)
    /\ scanFailed \in BOOLEAN
    /\ nebUp \in BOOLEAN

\* Two goroutines in bufio.Scanner would be a data race: a scan goroutine that
\* a timeout has left behind stays the only one for good.
OneReader == \A c, d \in scans : c = d

\* What the neb reads are whole lines, also when several goroutines call Send
\* and a full pipe stops a write half way.
LinesWhole ==
    LET units == line \o stdin
    IN  \A i \in DOMAIN units :
            IF i = 1 THEN units[i].part = 1
            ELSE IF units[i].part = 1 THEN units[i - 1].part = LineSize
            ELSE units[i] = [units[i - 1] EXCEPT !.part = @ + 1]

\* The requests the neb has got and not answered.
Unanswered == {(line \o stdin)[i].of : i \in DOMAIN (line \o stdin)}

\* A request is written only after the response to the one before has been
\* taken from the neb's stdout, also when that one comes too late; as long as
\* the scanner has not failed.
OneInThePipes ==
    ~scanFailed =>
        Cardinality(Unanswered \cup {stdout[i].to : i \in DOMAIN stdout}) <= 1

\* Stdio keeps the promise of the transport interface: one call at a time, the
\* answer to the call that returns it, no answer once broken.
rpc == INSTANCE Rpc WITH Requests <- Calls, call <- mu, dead <- broken,
                         renewals <- 0
ImplementsRpc == rpc!Spec

\* The neb does not read, and a request longer than what the pipe still holds
\* waits for it.
NebStoppedReading ==
    /\ nebUp
    /\ Len(stdin) = PipeSize
    /\ \E c \in Calls : phase[c] = "writing"

\* Every Send returns, whatever the neb does and however often it answers
\* late, never, or dies.  Only a write has no timeout: it blocks for good, and
\* every caller behind it, when the neb lives and has stopped reading.
SendReturns ==
    \A c \in Calls :
        \/ phase[c] = "locking" ~> phase[c] = "done"
        \/ <>[]NebStoppedReading

-----------------------------------------------------------------------------
(* What the documentation says and the code does not do *)

\* "The neb never sees concurrent messages": it has one request to answer at a
\* time.
OneUnanswered == Cardinality(Unanswered) <= 1
==============================================================================
