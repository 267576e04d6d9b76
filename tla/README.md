# Nile in TLA+

Nile runs a *copt*: a runtime process that keeps a durable message stream and
delivers it, one message at a time and in order, to a *neb*, a child process it
talks to over stdin and stdout. Other processes (`nile send`) append to the
stream. This directory holds TLA+ modules of the runtime's core, TLC
configurations that check them on small instances, and TLAPS proofs that hold
for every instance.

## The system

| Component | State | Operations | Hard behaviour | What makes it correct |
|---|---|---|---|---|
| write-ahead log, `pkg/wal` | segment files, `cursor.json`, `dead/dead.wal`, snapshots; in memory `Log` (segments, active, nextIdx, index, cur) | Open/recover, Append, NextUnprocessed (with refresh), MarkProcessed, MarkPostProcessed, DeadLetter, Snapshot, Truncate | a crash between any two effects; writes cut short; failing fdatasync; several processes on one directory without a lock | append order, nothing skipped, acknowledged messages stay, cursor never ahead of what was handled |
| store, `pkg/store` | interface only | the same | | "strict append order", "never skips or reorders messages" |
| lifecycle manager, `pkg/lifecycle` | `state`, `stopCh`, the pump goroutine | Start, pump, processMessage, doRetention, Stop, shutdown | retries, stop at any point, failing store calls, senders that append meanwhile, restart | at-least-once, one redelivery at most, a legal state at the top of the loop, stop ends the pump |
| stdio transport, `pkg/transport` | `mu`, `broken`, `closed`, the scanner, a scan goroutine per call, the two pipes | Send, Close | timeout against late answer, a goroutine left in the scanner, a full pipe, end of file, dead child, overlong line | a response answers its request; one request at a time; every Send returns |
| protocol, `pkg/protocol` | none | encode, decode, ParseResult | responses are not matched by ID | |
| `cmd/nile` | signal channel and handler, child process, exit status, PID file | run, send, watch, status, install | signals at any point, a child that does not end, exit status and the unit's restart rule | a signal ends the process; a failed copt is restarted |
| registry, `pkg/registry` | endpoint files | Register, Lookup, List, Deregister | non-atomic write | |
| counter-service, `examples` | its log | init, message, retain, shutdown | the other end of the pipes | one answer per request, in order |
| sandbox, otel, packaging | | | | command lines, exporters, the unit's restart rule |

The pump calls the store and the transport from one goroutine. `Stop` closes a
channel from a signal handler. The runtime and the senders share nothing but the
files: the runtime learns of new messages by listing and reading them when it
has consumed all it knows of.

## The modules

* **Store** is the abstract store: a sequence of messages, a cursor in memory and
  one on disk, dead letters and the last snapshot. Every operation is one
  action; an operation that saves the cursor may fail to, in which case only the
  cursor in memory moves.
* **Rpc** is the abstract call of the neb: one call at a time, a response is the
  answer to the call that returns it, and a dead transport never answers again.
* **WalLog** has the data of the log and the functional steps on it, shared by
  the next two modules: segment files as sequences of records, `readAll`, the
  loop bodies of `recover` and `refresh`, rolling, indexing.
  A record is a message and how much of it is missing: 0 for a whole one. A torn
  record with enough bytes behind it fails its checksum, with fewer it ends the
  file, as in `decodeRecord`. Sizes count records.
* **Wal** is one process using the log. Every operation holds the mutex, so
  operations do not interleave, but each effect on the disk (file created,
  record written, synced, segment removed, cursor renamed) is an action of its
  own and `Crash` is possible between any two. `phase` is the operation under
  way, `pending` what its loop has still to visit. `Spec` has crashes between all
  effects outside Truncate; the faults that break the log have specifications of
  their own: `TornSpec` (a record cut short: the write failed or the process was
  killed in it, and either way the process ends, since `nile send` does when
  Append fails) and `TruncateCrashSpec` (the process ends inside Truncate). A crash between the write and the return of an
  append is also what a failing `fdatasync` amounts to in `nile send`, which ends.
* **SharedWal** is one directory used by the runtime and by other processes.
  An element of `Senders` is a place for one `nile send`, `nile watch` or `nile
  status` after the other: it opens the log segment by segment, opens the last
  file, appends any number of messages and ends. An open file is its base index,
  or `None` once it has been removed. The runtime delivers or dead-letters the
  message in hand (`Finish` is what both do to the cursor), checks the retention
  limit after it and when it is idle (`due`), truncates whether or not messages
  wait, and ends in a clean way or by a failure (`exit`); only a failure makes the
  unit start it again (`Restart`), though an operator may.
* **Transport** is `Stdio` down to its pipes: the mutex, the calls of Send, the
  scan goroutine each call starts, Close, a stdin pipe of `PipeSize` units into
  which a line of `LineSize` units may not fit, and a neb that reads, answers,
  skips, answers too long a line or ends.
* **Lifecycle** EXTENDS Store and adds the manager's goroutine (`pc`, `state`),
  the transport as the pump alone uses it (`broken`, the lines in both pipes),
  the neb (any answer, late, never, or its end), senders, the signal and the
  restart of the runtime.
  `Send` is written once: an action that calls it sets `request` and goes to
  `send`, and the actions at `returned` continue by the request's method. The
  write of a message may block (`pc` is "writing"): the line is longer than the pipe
  has room for, and the pump goes on when the neb reads (`NebReads`) or ends. The
  other requests are short and the pipes are empty when they are written.
  Waiting for the ticker ends at the top of the loop and has no step.
* **Copt** EXTENDS Lifecycle with the process around the manager: `run` is where
  `cmdRun` is, `sigCh` and `handler` are its signal goroutine, `exit` the status
  systemd sees. `Pump` is Lifecycle's `PumpStep`, `Launch` its `StartAgain`;
  Lifecycle's `Stop` is the handler's first signal here.

```
 Copt  --extends-->  Lifecycle  --extends-->  Store  <--implements--  Wal
                         |                                             |
                         +--implements-->  Rpc                       WalLog
                                            ^                          |
                        Transport  --implements                    SharedWal
```

`MCWal` and `MCLifecycle` add the symmetry sets for TLC; the other MC modules
are instances without one. Operators commented as *Mutant* are wrong versions of
a definition; each shows that a property can fail if the code is changed in that
way.

## Runs

| Run (`.cfg`) | Question | Result |
|---|---|---|
| MCWal | order, readability, durability of acknowledged messages, nothing skipped, cursor halves, refinement of Store, with crashes everywhere | pass |
| MCWalTornAppend | `docs/stream.md`: torn records are silently discarded on recovery | violated: the log is opened again, the next append follows the torn bytes and the segment is corrupt |
| MCWalTruncateCrash | nothing skipped when the process ends inside Truncate | violated: files are gone, the cursor is not reset |
| MCSharedWal | concurrent commands, dead letters, failures, restarts and truncation within one segment: order, nothing skipped, the offset told is not beyond the message, every acknowledged message is delivered or dead-lettered in the end (exceptions below) | pass |
| MCSharedWalRoll | nothing skipped across rolls, one sender at a time | violated: `refresh` does not look again at the segment it knew as the last |
| MCTransport | one reader of the scanner, whole lines, one request in the pipes, refinement of Rpc, every Send returns | pass |
| MCTransportLongLine | `store.go`: the neb never sees concurrent messages | violated: after a line above its buffer the scanner has failed for good, and Send goes on writing |
| MCLifecycle | all safety properties of the pump, with both retention limits; refinement of Rpc | pass |
| MCLifecycleWindow | every message is delivered or in an accepted snapshot | violated by a message appended during retain |
| MCLifecycleTimeout | dead letters were tried | violated: one timeout ends all delivery |
| MCCopt | one signal, two signals, every message is settled (exceptions below) | pass |
| MCCoptRestart | `docs/copt-runtime.md`: a copt in state Failed is started again | violated: the process exits with status 0 |

Each violated property quotes a line of the documentation or of a comment; the
findings of `PROJECT.json` give the line and the code that disagrees with it.
The property that passes next to it says what does hold: `NothingLost` has the
exception `late` that `DeliveredOrRetained` lacks, `StrictAppendOrder` and
`NothingSkipped` hold of shared segments as long as nobody rolls, and
`OneInThePipes` holds as long as the scanner has not failed. `EveryDelivered`
has three exceptions that are the code's as well: a message that was in the stream
when the runtime truncated it, one whose sender had the removed file open, and a
runtime that ended with status 0 (a signal, or an error of its pump), which no
unit starts again. `SignalEnds` and `EverySettled` except a neb that lives and stops
reading while a line longer than its pipe is written: nothing limits that write,
and `Stop` does not interrupt it. `SignalEnds` also excepts a neb that lives on
after its stdin was closed. Without these exceptions the three properties fail.
`AckedAtOrAfter` says of the printed offset what the code keeps: two senders
that opened the log together print the same offset, which is right for the first
of the two messages and too low, never too high, for the other.

**Bounds.** MCWal: two messages (equal or different payloads), two records per
segment, three appends between truncations: a full segment, a roll and a
partial one, with a crash, a recovery and a refresh at each point; one dead
letter more than none is enough, since `dead` only grows. MCSharedWal: two
processes at the same time and three messages in one segment of four records, so
that one of them appends twice or opens again while the other is half way, and a
retention limit of one, so that a truncation meets a process that opens, one that
writes and one that starts afterwards. MCSharedWalRoll has two records per
segment. MCTransport: three calls (one that times out and leaves its scan
goroutine, one behind it, one more), a line of three units and a pipe of two, so
that a write always blocks at least once; in MCTransportLongLine the pipe holds
the requests of all calls.
MCLifecycle: three messages (one settled, one in flight, one waiting), two
retries, which give a first, a middle and a last attempt, limits of one
consumed message and two records, two restarts, so that a runtime recovers what
a restarted one has left. MCCopt has two messages, two signals and one restart,
and no symmetry, since symmetry is unsound for liveness; a second message is
enough to wait behind another. MCCoptRestart has one message and no signal.
Deadlock is not checked in SharedWal, Transport, Lifecycle and Copt, where a
program that has ended stops; in Wal it is.

**Fairness.** `Copt!CoptSpec` assumes weak fairness of the pump, of each part of
`cmdRun` and of the signal goroutine: goroutines are scheduled, timers fire, a
`Wait` for a child that has ended returns. Weak fairness of the pump does not move
a write that blocks: only the neb does. Timeouts are part of the pump, so no
fairness of the neb is needed, and none is assumed; nor of senders, signals, the
operator or the unit. `Copt!UnitSpec` adds a neb that ends at the end of its
stdin, as the counter-service does, and a unit that restarts what failed: with
both granted, FailedIsRestarted still fails.
`Transport!FairSpec` assumes weak fairness of each call's steps and of its scan
goroutine. The step `Lock` of a call is continuously possible only while the
mutex is free; every call happens once and every holder lets go, so weak
fairness is enough. Nothing is assumed of the neb.
`SharedWal!FairSpec` assumes weak fairness of the running runtime, which polls with a
ticker, and of `Restart`, its start by the unit after a failure
(`Restart=on-failure`), and of nobody else: a sender may stop half way, and nobody
need start a runtime that has ended in the clean way. How often it ends is bounded
by `MaxCrashes`.

## What is proved

See the headers of the proof modules; all theorems hold for every value of the
constants, and so do their consequences for the specifications with fairness.

**WalLogProofs** has what the next two need to know of the operators of WalLog:
indexing, rolling, and that `AddSegments`, the loop of `recover` and `refresh`,
keeps a Log well formed (`RefreshWellFormed`) and its segments behind its next
offset (`AddSegmentsBehind`). `AddSegments` folds over a set of files, and
induction over sets is not to be had from the prover; the lemmas consider a
smallest subset of the files for which they fail (`MinimalSubset`) instead.

**WalProofs** (about `Wal!Spec`, from `SegmentSizeAssumption` alone): the
invariants of MCWal. None of them is inductive: why an index entry leads to the
right record depends on the files. The inductive invariant `IInv` has two
halves. `StructureOK`: on disk the segments tile the offsets from 0 on, without
gap or overlap (`FilesTile`), and hold what was appended (`FilesHoldStream`);
the Log's segments are the files read so far in ascending order, its index leads
to the record of each offset, recovery has read a prefix of the files and
`nextIdx` is where the next one starts; an open Log is at the end of the stream.
`ContentOK`: the two cursors stay within the stream and everything before them
was handled. Lemmas say what recover's loop body, a roll and an append do to
the structure; most other actions are covered by one lemma about steps that
leave files and index alone (`QuietStep`).

**WalStoreProofs**: `Wal` implements `Store` (`Refinement`). On top of `IInv` it
needs `SnapshotCopied`: what an unfinished snapshot has copied is the stream up
to the segment it copies next. Each effect on the disk is one step of the store
or none: the write of the record is `Append`, the rename of the cursor file saves
it, a crash before the rename loses the cursor in memory.

**TransportProofs** (about `Transport!Spec`, from `TransportAssumption`: a line and
the pipe have at least one unit): all the safety properties of MCTransport, for
any number of concurrent calls, and the refinement of `Rpc`. The inductive
invariant has three parts. `ControlOK`: the
mutex says which call is inside Send; whoever writes or reads found a transport
that is not broken, so that no scan goroutine of an earlier call is left; it
yields `OneReader`. `LinesOK`: a line in the neb's stdin that is cut short is the
last one and its call is still writing it, which gives `LinesWhole`. `PipesOK`:
until the scanner fails, the pipes hold one request or its response, of the call
inside Send if there is one, and nothing when a new one starts on a transport
that is not broken. It yields `OneInThePipes`, and that a received line is the
answer to the call that receives it, which the refinement (`Refinement`) needs:
Lock begins a call, Receive answers it, and every error return fails it.
`PipesOK` says nothing after `scanFailed`: a failed scanner takes no more lines from
the pipe, but the transport is not broken and goes on writing requests.

**SharedWalProofs** (about `SharedWal!Spec`, from `SharedWalAssumption` and
`SegmentSizeAssumption`, for any number of processes): three invariants, each on
top of the one before, since each property depends on other circumstances.

* `IInv` holds of every step, rolls and truncations included, and gives the
  types: files hold whole records, every Log is well formed and its segments are
  behind its next offset, the runtime's files are there, as nobody else removes
  any, and its cursor is the saved one.
* `SentInv` gives `AckedAtOrAfter`, also with any number of rolls: until the first
  truncation no file and no Log reaches beyond the stream, and a written record is
  behind the offset its sender is about to return. Two senders may well have
  made overlapping segments by then. That the first truncation has something to
  retain, which is how the invariant knows that it has happened, is
  `ConsumedIsThere`.
* `SegmentInv` gives `StrictAppendOrder` and `NothingSkipped` from the start, and from
  each truncation, until a sender goes on from a full segment (`rolled`): over
  such a stretch there is one file, it holds the stream, the runtime's Log is a
  prefix of it and its cursor is inside it (`FileInv`). Nothing is assumed of the
  number of messages or the size of a segment. The other half, `OneFileSenders`,
  holds whatever was rolled: a sender without a segment counts from 0, so that it
  creates the first. The condition `~rolled` is needed: MCSharedWalRoll rolls once
  and skips a message. In MCSharedWal the segment is large enough that nobody
  rolls, so there the two invariants need no condition.

**LifecycleProofs** (about `Lifecycle!Spec`, from the assumptions on the constants
in Store and Lifecycle): all the safety properties of MCLifecycle and the
refinement of `Rpc`. The inductive invariant follows the pump. `ControlOK`: where
the pump is determines the manager's state and the method of its request; in
particular every `transition` whose error the code ignores succeeds. `TransportOK`:
a transport that is not broken has the line of the call under way in its pipes,
or none. `AnswersOK`: an answer that is not an error was given by a neb that
handled the message or took the snapshot. `CursorsOK`: everything before the
cursor was handled or is a dead letter, and the message being processed is the
one at the cursor. `StreamOK`: where each message is that was ever sent; between
snapshot and truncation what is in the stream and not in the snapshot is `late`. `InOrderDelivery` and `OneRedelivery` need the parts together,
since a request may be in the pipe of a neb whose runtime has given it up.

**CoptProofs**: `IInv` of Lifecycle is also an invariant of `CoptSpec`, in which the
process ends at any point and is started again (`CoptDelivers`). What has to be
added is that a process that is gone has no pump (`GoneOK`).

**Only model-checked.** Liveness (`SignalEnds`, `SecondSignalEnds`, `EverySettled`,
`SendReturns`, `EveryDelivered`), which needs fairness and ENABLED and is out of
the prover's reach; and that the other specifications (`TornSpec`,
`TruncateCrashSpec`, segments that roll) violate what they violate, which is a
counterexample and needs no proof.

## What is not modelled

* Bytes: sizes count records, the checksum is exact (it finds every torn record
  that has bytes behind it), payloads are atoms. A payload above the limit that
  `decodeRecord` enforces and `Append` does not is therefore not seen.
* A crash is that of the process: what was written stays in the file, except for
  a record the crash cut short.
* `ReadDeadLetters`, `Depth`, `NextIndex` and `closed`, which change nothing of the
  stream.
* The configuration without a message timeout (`--message-timeout 0`), in which
  Send reads in the calling goroutine: it is `Transport` without `Timeout`, and
  no liveness holds of it, since a silent neb blocks the pump for good.
* In Lifecycle and Copt a write is of a whole line, at once or after it has blocked,
  a response fits the scanner, and the neb is not held up by its stdout; the units
  of a line, a pipe that fills up and an overlong line are the subject of Transport.
  There a neb writes one line per request it answers; one that writes more on its own
  account breaks the pairing of responses and requests, which nothing checks.
* The rolls of concurrent senders in the passing run of SharedWal: they skip
  messages (MCSharedWalRoll).
* Two runtimes on one directory and the PID file: nothing in the code promises
  anything for them. The output of `watch` and `status`, argument parsing, and
  `install`, which writes a unit file.
* Registry: four file operations that no package of the program calls. Sandbox
  (a command line), telemetry (counters and exporters that no part reads), the
  shell example and the demo script.

## Plan

What is left:

1. **The specifications with faults**: what of `IInv` of Wal survives a crash inside
   Truncate (order does, the cursor does not) and a torn append that no other
   append follows.
2. **Action properties**: a message that a sender was told of leaves the stream
   only by a truncation; the durable cursor only goes back there.
3. **SharedWal with segments that roll** one process at a time: which messages are
   skipped, as a bound rather than a counterexample.
