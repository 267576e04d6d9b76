--------------------------------- MODULE Copt ---------------------------------
(***************************************************************************)
(* nile run as a unit of systemd: the process around the lifecycle         *)
(* manager (cmdRun), its signals and its exit status, the neb process it   *)
(* starts and waits for, and the unit's Restart=on-failure.  The pump and  *)
(* its store, transport and neb are those of Lifecycle.                    *)
(***************************************************************************)
EXTENDS Lifecycle

CONSTANT MaxSignals   \* bound: signals one runtime is sent

ASSUME CoptAssumption == MaxSignals \in Nat

VARIABLES
    run,          \* where cmdRun is
    exit,         \* the exit status as systemd sees it: clean or a failure
    signals,      \* signals sent to this runtime
    sigCh,        \* signals in its channel
    handler       \* which signal its goroutine waits for

process == <<run, exit, signals, sigCh, handler>>
coptVars == <<vars, process>>

SigChSize == 2

CoptInit ==
    /\ Init
    /\ run = "booting"
    /\ exit = "none"
    /\ signals = 0
    /\ sigCh = 0
    /\ handler = "first"

\* The process is gone; systemd ends what is left in the unit's control group.
Gone(status) ==
    /\ run' = "gone"
    /\ exit' = status
    /\ pc' = "exited"
    /\ nebUp' = FALSE
    /\ requests' = <<>>
    /\ replies' = <<>>
    /\ UNCHANGED <<storeVars, known, state, request, response, broken, history>>

\* Everything before the signal handler and mgr.Start: paths, directories, the
\* log, the neb process.
Boot ==
    /\ run = "booting"
    /\ run' = "running"
    /\ UNCHANGED <<vars, exit, signals, sigCh, handler>>

BootFails ==
    /\ run = "booting"
    /\ Gone("failure")
    /\ UNCHANGED <<stopped, signals, sigCh, handler>>

Pump ==
    /\ run = "running"
    /\ PumpStep
    /\ UNCHANGED process

\* Start has returned, its error is logged.  The handler is taken off and the
\* neb's stdin closed; then cmdRun waits for the neb.
Return ==
    /\ run = "running"
    /\ pc = "exited"
    /\ run' = "waiting"
    /\ UNCHANGED <<vars, exit, signals, sigCh, handler>>

WaitReturns ==
    /\ run = "waiting"
    /\ ~nebUp
    /\ Gone("clean")
    /\ UNCHANGED <<stopped, signals, sigCh, handler>>

\* Mutant: a channel of size one.
SignalSmallChannel ==
    /\ run # "gone"
    /\ signals < MaxSignals
    /\ signals' = signals + 1
    /\ IF run = "running"
       THEN /\ sigCh' = IF sigCh < 1 THEN sigCh + 1 ELSE sigCh
            /\ UNCHANGED <<vars, run, exit, handler>>
       ELSE Gone("clean") /\ UNCHANGED <<stopped, sigCh, handler>>

\* SIGTERM or SIGINT.  Between Notify and signal.Stop it goes to the channel,
\* which drops it when it is full; at other times it ends the process, for
\* systemd in the clean way.
Signal ==
    /\ run # "gone"
    /\ signals < MaxSignals
    /\ signals' = signals + 1
    /\ IF run = "running"
       THEN /\ sigCh' = IF sigCh < SigChSize THEN sigCh + 1 ELSE sigCh
            /\ UNCHANGED <<vars, run, exit, handler>>
       ELSE Gone("clean") /\ UNCHANGED <<stopped, sigCh, handler>>

TakeSignal ==
    /\ run \in {"running", "waiting"}
    /\ sigCh > 0
    /\ sigCh' = sigCh - 1

\* The handler goroutine: the first signal stops the manager ...
HandleFirst ==
    /\ TakeSignal
    /\ handler = "first"
    /\ handler' = "second"
    /\ stopped' = TRUE
    /\ UNCHANGED <<storeVars, known, pc, state, request, response, transport,
                   history, run, exit, signals>>

\* ... the second one exits at once.
HandleSecond ==
    /\ TakeSignal
    /\ handler = "second"
    /\ Gone("failure")
    /\ UNCHANGED <<stopped, signals, handler>>

\* A panic, a kill that cannot be handled, or the machine goes down.
Kill ==
    /\ run # "gone"
    /\ Gone("failure")
    /\ UNCHANGED <<stopped, signals, sigCh, handler>>

\* Started by the unit or the operator, on the same directory.
Launch ==
    /\ run = "gone"
    /\ StartAgain
    /\ run' = "booting"
    /\ exit' = "none"
    /\ signals' = 0
    /\ sigCh' = 0
    /\ handler' = "first"

\* Restart=on-failure.
Relaunch == exit = "failure" /\ Launch

Environment ==
    /\ \/ \E m \in Msgs : SendMessage(m)
       \/ run # "booting" /\ (NebReads \/ NebAnswer \/ NebDies)
    /\ UNCHANGED process

CoptNext ==
    \/ Boot
    \/ BootFails
    \/ Pump
    \/ Return
    \/ WaitReturns
    \/ Signal
    \/ HandleFirst
    \/ HandleSecond
    \/ Kill
    \/ Launch
    \/ Environment

\* The runtime's goroutines are scheduled and its timers fire.  Nothing is
\* assumed of the neb, the senders, the operator and the unit.
CoptSpec ==
    /\ CoptInit
    /\ [][CoptNext]_coptVars
    /\ WF_coptVars(Boot)
    /\ WF_coptVars(Pump)
    /\ WF_coptVars(Return)
    /\ WF_coptVars(WaitReturns)
    /\ WF_coptVars(HandleFirst)
    /\ WF_coptVars(HandleSecond)

\* A neb that ends when its stdin is closed, as the counter-service does, and
\* a unit that restarts what has failed.
NebEndsAtEOF == run = "waiting" /\ NebDies /\ UNCHANGED process
UnitSpec == CoptSpec /\ WF_coptVars(NebEndsAtEOF) /\ WF_coptVars(Relaunch)

-----------------------------------------------------------------------------
(* Properties *)

\* Every variable has its type.
CoptTypeOK ==
    /\ TypeOK
    /\ run \in {"booting", "running", "waiting", "gone"}
    /\ exit \in {"none", "clean", "failure"}
    /\ signals \in 0..MaxSignals
    /\ sigCh \in 0..SigChSize
    /\ handler \in {"first", "second"}

\* One signal ends the runtime whatever the pump is doing, with two exceptions,
\* which are the code's: a neb that lives on although its stdin is closed keeps it
\* in nebCmd.Wait, and one that lives and has stopped reading keeps the pump in the
\* write of a long line, which Stop does not interrupt.
SignalEnds ==
    signals >= 1 ~> \/ run = "gone"
                    \/ run = "waiting" /\ nebUp
                    \/ []Blocked

\* A second signal ends it also then, and at any other time: whether the
\* handler is still there, has one signal in its channel, or has been taken
\* off.
SecondSignalEnds == signals >= 2 ~> run = "gone"

-----------------------------------------------------------------------------
(* What the documentation says and the code does not do *)

\* "crash --> Failed -> (restart)": a copt in state Failed is started again.
FailedIsRestarted == state = "failed" /\ crashes < MaxCrashes ~> run = "booting"
===============================================================================
