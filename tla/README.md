# QtService in TLA+

QtService is a C++/Qt library for writing one service program that runs under
several service managers: systemd, launchd, the Windows service manager,
Android, or none ("standard"). This directory models the command engine, all five
backends with what surrounds them (signals, the lock file, the Windows service
manager, systemd and its helper processes, Android's life cycle), their controls,
and the terminal connection. TLC checks small instances; TLAPS proves every safety
invariant the passing runs check, an action property, and the safety part of the four
refinements, for every value of the constants.

Paths below are relative to the repository; the library is in `src/`.

## The system

| Component | State | Operations |
|---|---|---|
| Command engine (`service/servicebackend.cpp`) | `operating` | `processServiceCommand` for Start, Stop, Reload, Pause, Resume; the slots `onSvcStarted` ... `onSvcPaused` |
| Service object (`service/service.cpp`) | `isRunning`, `wasPaused`, `terminalActive`, the terminal server | `exec`, `quit`, `reload`, `setTerminalActive`, `startTerminals`, `stopTerminals` |
| Standard and launchd backends (`plugins/servicebackends/standard`, `launchd`) | the lock file (standard), the event loop and its exit code | `runService`, `signalTriggered`, `quitService`, `onStarted`, `onPaused` |
| Standard control (`standardservicecontrol.cpp`) and the default control (`servicecontrol.cpp`) | none but a restart timer; the lock file is the shared state | `status`, `start`, `stop`, `restart`, `getPid` |
| Terminal client (`terminalclient.cpp`) | the socket, the exit code | `connected`, `socketReady`, `consoleReady`, `disconnected`, `error`, `ensureServiceStarted` |
| Terminal, service side (`terminal.cpp`) | `isLoading`, `autoDelete`, mode, command, the socket | `readyRead`, `disconnected`, `error`, `write`, `request...`, `disconnectTerminal`, the awaitables |
| Terminal server (`terminalserver.cpp`) | listening or not | `start`, `stop`, `newConnection`, `terminalReady` |
| Windows backend (`windowsservicebackend.cpp`) | status record, mutex, condition variable, timer, two threads | `runService`, `serviceMain`, `handler`, `setStatus`, `quitService`, `onStarted` ... |
| Systemd backend (`systemdservicebackend.cpp`) | what systemd was notified of, the bus name, the watchdog timer | `run`, `quitService`, `reloadService`, `signalTriggered`, and the helper processes `stop` and `reload` |
| Android backend (`androidservicebackend.cpp`, `AndroidService.java`) | two semaphores, `_startupFailed` | `onStartCommand`, `onDestroy`, `exitService`, `onExit`, `onStopped` |
| Windows control (`windowsservicecontrol.cpp`) | none; the start type is the manager's | `start`, `stop`, `pause`, `resume`, `status`, `enableAutostart`, `disableAutostart`, `setEnabled` |
| Systemd control (`systemdservicecontrol.cpp`) | `_svcInfo`, what it remembers of `serviceExists` | `status`, `start`, `stop`, `restart`, `reload`, autostart |
| Android control (`androidservicecontrol.cpp`) | none; the component setting is Android's | `start`, `stop`, `bind`, `unbind`, `startWithIntent`, `isEnabled`, `setEnabled` |
| Launchd control | none | runs `launchctl` |
| Plugin loading, QML module | none over time | |

How they interact. A backend owns the main thread and the event loop. It turns
what its platform sends (signals, control codes, D-Bus calls, intents) into
`processServiceCommand`. The engine calls the service's handler, which answers
`Completed` or `Failed` (the engine emits `started`, `stopped`, ... at once),
`Exit`, or `Pending` (the service emits it later). Each emission runs the
engine's slot, then the backend's own: connections are called in the order they
were made. Terminal clients are processes of the same program; they may launch
the service through a control and then talk to it over a local socket. Controls
live in any process; those of the standard backend share nothing with the
service but its lock file and signals.

What is hard here:

* answers come late, in any order with signals, and Stop is accepted at any time;
* a paused process stops itself with SIGSTOP, and the kernel then holds signals back;
* the lock file is at once the mutual exclusion of services, the answer to
  `status()`, and the address book of `stop()`; processes die and leave it behind;
* the socket cuts messages anywhere, some slots are connected queued and others
  are not, and a slot connected during an emission misses that emission;
* the Windows backend hands over between threads with a condition variable
  without a predicate, the Android one with semaphores;
* systemd is told that something has begun before the engine decides whether it has.

`PROJECT.json` lists these at their lines ("hazards"), with the properties that
cover them.

What makes each component correct: the engine, that it follows the documented
life cycle and never has two commands pending; the service object, that its
terminal server is in step with it; the standard backend, one instance; the
control, that what it reports, signals and restarts is the service; the terminal,
that bytes and requests arrive whole, in order and once; the Windows backend,
that start-up does not hang and the reported state follows the service; systemd,
that every notification is closed by its counterpart; Android, that no semaphore
is waited for in vain.

## Modules

| Module | What it is |
|---|---|
| `ServiceEngine` | the engine and the terminal switch, as a record and one operator per function |
| `ServiceLifecycle` | abstract: the life of a service process as the documentation tells it |
| `EngineProofs` | what each function of the engine, and one command, returns: the lemmas the proofs of all backends rest on |
| `UnixService` | one process under the standard or launchd backend, its signals and its own code |
| `UnixServiceProofs` | its theorems |
| `SingleInstance` | abstract: at most one process is in |
| `StandardControl` | service processes and controls around the lock file |
| `StandardControlProofs` | its theorems |
| `EngineSteps` | one command as the set of things it may come to, for the backends with slots of their own |
| `WindowsService` | one process under Windows, its main, control and handler threads |
| `WindowsControl` | the service manager and the processes that control and configure the service; composes `WindowsService` |
| `WindowsControlProofs` | its theorems |
| `SystemdService` | one unit: main process, helper process, and systemd's view of the notifications |
| `SystemdControl` | systemd's jobs, `systemctl`, and a terminal client that launches the service; composes `SystemdService` |
| `SystemdControlProofs` | its theorems |
| `AndroidService` | the Java service's thread, the Qt thread and the semaphores between them |
| `AndroidControl` | the control and Android's rules for the life of a service; composes `AndroidService` |
| `AndroidControlProofs` | its theorems |
| `TerminalFraming` | the byte layout of the terminal protocol, writers and readers |
| `TerminalSession`, `MCTerminalSession` | one client and its terminal at the two ends of a socket |
| `TerminalSessionProofs` | its theorems |

### ServiceEngine and UnixService

The engine has no thread of its own, so it is a module of operators over a record
(`operating`, `isRunning`, `wasPaused`, `terminalActive`, `listening`), which each
backend's module turns into actions. In `UnixService`:

* `RunService` is `runService` up to `exec()`; `HandleStart` the posted Start;
  `HandleSignal` one call of `signalTriggered` with all it causes, up to the emission
  and the SIGSTOP; `LoopReturn` the return of `exec()`. Signals of one iteration are
  still handled after `QCoreApplication::exit`, so `leaving` does not disable them.
* `UserEmit`, `UserQuit`, `UserReload`, `UserSetTerminal` are what the service's code
  may do between two events.
* `Send` is a signal the handler catches and writes to a pipe (`queue`, in order);
  `SendHalted` one the kernel keeps for a stopped process (a set: ordinary signals do
  not queue); `Continue` a SIGCONT, which discards a pending SIGTSTP and lets the rest
  be delivered in any order. The kernel's part is external, modelled from its use.

Abstracted: SIGUSR1 and SIGUSR2 only run a callback. SIGINT, SIGTERM and SIGQUIT are
one. The outcome of the lock is a choice here (`RunService`), as are the handlers'
answers and whether a server can listen. Signals sent before the handlers are
installed kill the process; that is in `StandardControl`. The service's code is
taken to call `quit()` and `reload()` from the event loop, not nested in a handler
it was called from.

### StandardControl

A service process goes through booting, locked, running, stopping, unlocked, dead;
it may die anywhere (`Crash`). A control is in one call at a time, and every system
call in it is a step of its own: `tryLock` (`Ask`), `unlock` (`AnswerStopped`), the
launch (`Spawn`), reading the pid (`GetPid`), `kill` (`Kill`). The lock is the pid in
the file; it is free without a file and when the pid in it is of no live process.
A restart is `stop()` followed by a timer; a control keeps one (two restarts of one
control would poll twice). Abstracted: a pid is never reused; tryLock's five seconds
are a choice between waiting and giving up; crashes between unlinking and creating
the file are crashes before or after. Left out: the Unknown that `status()` answers
for a lock file it cannot access, and the console events `stop()` uses on Windows.

### TerminalFraming and TerminalSession

Bytes are real, and so is their layout: an incomplete frame is judged by what it
holds, and a qint64 read as an int reads its upper half. The socket hands them over
in chunks of any size at either end. The client has a state `loop` inside
`socketReady`, because it reads the user's input synchronously there, and the user
and the service go on meanwhile. "passive" stands for the three modes without
requests. A client that writes to a service which has closed may lose its
connection and what it has not read (`SendFails`), as sockets do.

An awaitable (`Prepare`, `Reads`) is connected to `readyRead` and then asks; it takes
nothing until its answer is complete, and it does not look at what was in the buffer
before. One is pending at a time, as in a coroutine that waits for it.

The service writes a fixed text, `Text`, in pieces of any length (`Write`), so that a frame
may carry one byte or all of them; which bytes it writes does not matter, only that they
can be told apart.

Abstracted: the arguments are one array; `SizesAssumption` keeps that array, and with
`Text` every frame, below 256 bytes, so that one byte of a length counts and three are zero; a
terminal that is not accepted yet is "loading"; frames above 2 GiB and unknown request
types are left out.

### EngineSteps

`Process` gives every outcome of one `processServiceCommand`: refused or skipped, left
pending, answered at once, and for Start answered with `Exit`. Each outcome carries the
emission, so that a backend's own slots (`React`) and what they send can be said next to it.

### WindowsService and WindowsControl

Three threads, each with a program counter: `main` (`runService` and the event loop),
`ctl` (`serviceMain`) and `handler`. A region the mutex protects is one step. `main` and
`ctl` wait for each other on one condition variable without a predicate: a `wakeAll` with
nobody waiting is lost; one that was meant for `ctl` is recorded in `slips`. `setStatus` is `SetStatus`; the handler
reports a pending state (`HandlerAnnounces`) and posts the command (`HandlerPosts`) in two
steps, and the timer's slot reads the state (`TimerReads`) and reports it (`TimerReports`) in two.

The service manager is external: it refuses control codes for a service that starts or stops,
except for the shutdown of the system, and takes the end of a process that has not reported
STOPPED for a failure. A configuration call is a sequence of steps of one caller (`AskEnabled`,
`AskAutostart`, `Write`), each a call of the manager that may fail.

Abstracted: the check point number, the control codes 128 to 255 (they run a callback), the
event log; starting and stopping the timer takes effect at once; a Start answered with `Exit` reports
RUNNING and then STOP_PENDING with nothing in between, and is one step that shows the second; one life
of the process; the
configuration is changed only while there is no process, since starting is all the two have in common.

### SystemdService and SystemdControl

The main process is `UnixService`'s with notifications: `inbox` holds signals and D-Bus calls
(equal ones merge), `unit` is what systemd makes of READY, RELOADING and STOPPING, and `helper`
is the process of `ExecStop=` or `ExecReload=`, with the messages it has received in order. The
removal of the bus name is connected queued, so that it goes to the end of that mail.
`quitService` and `reloadService` notify before the engine decides, as the code does. The helper
outlives the main process (`Ends`): `stop()` watches the bus name and hears that it goes, `reload()`
does not. It hears of the end only by the error of a call the process had not read (`Farewell`);
otherwise systemd waits for it until `TimeoutStartSec=` (`ReloadTimesOut`).

systemd is external, modelled from the unit files of the repository (`Type=notify`, `ExecStop=`,
`ExecReload=`, `Restart=on-abnormal`): it runs one job at a time, terminates a process that is left
after `ExecStop=`, waits for the helper that runs when the main process ends, and restarts what
crashed. The watchdog kills a process that is halted or has stopped its timer (`WatchdogExpires`). The terminal client runs `Service::exec`,
`TerminalClient::exec`, `ensureServiceStarted` and `doConnect`, with the cache of its control.

Abstracted: `setTerminalActive` while it runs (in `UnixService`), SIGUSR1 and SIGUSR2;
`Service::quit` and `reload` are a TERM and an HUP; `ExecStop=` of a crashed unit; the other
timeouts of systemd, which are crashes; its wait before a restart, during which the unit is shown as
"failed".

### AndroidService and AndroidControl

`java` is the main thread of the application inside a callback of the Java service, `qt` the thread
of `runService`; `startSem` and `exitSem` are the semaphores. Android is external: it creates a
service that is started or bound, delivers starts one at a time, and destroys it when it is
neither. `found` says whether the class of the service exists and whether it is a component of the
manifest, which `serviceComponent`, `serviceInfo` and `serviceExists` tell apart.

Abstracted: the exit code, which is only logged (`Codes`); `setEnabled` while the service
lives, which kills the process; one life of the service.

## Runs

All passing runs say `CHECK_DEADLOCK FALSE`: a process that has exited, or a user
who has nothing more to type, is a proper end.

| Run | Bounds | Shows |
|---|---|---|
| `unix` | 4 signals, exit codes 0 and 1; 259,662 states | type, `TerminalsFollowService`, `OneCommandAtATime`, `HaltedOnlyWhenPaused`; `ImplementsLifecycle` (refinement of `ServiceLifecycle`, with its liveness); `QueuedStopEnds` |
| `control` | 3 service processes, 2 controls, 3 calls; 104,012 states | type (with "never kill -1"), `OneInstance`, `LockIsMeant`, `ImplementsSingleInstance`, `RestartLaunches` |
| `terminal` | both modes, 4 bytes of input, 3 bytes of text, 3 bytes and requests in all; 139,724 states | `OutputFaithful`, `InputFaithful`, `HandshakeFaithful`, `InputOnDemand`, `DisconnectFlushes`, `RequestsAnswered`, `NoOrphanTerminal` |
| `windows` | exit codes 0 and 1, 2 callers, 3 calls; 137,362 states | type, `ReportedStateTrue`, `HeartbeatWhilePending`, `EndReported`, `StartTypeRespected`, `StartArrives`, `StopEnds`, `PendingResolves`, `ImplementsLifecycle` |
| `systemd` | exit codes 0 and 1, 3 jobs, signals or crashes, one client; 233,448 states | type, `ActiveMeansRunning`, `StopHelperHonest`, `StopHelperEnds`, `ReloadEnds`, `ClientAnswered` |
| `android` | 2 starts, 2 clients that bind; 5,764 states | type, `CallbackWhenReady`, `DestroyedWhenStopped`, `StartCommandReturns`, `DestroyReturns`, `ImplementsLifecycle` |
| `unix_busy` | 2 signals | violated: `BusyMeansPending` |
| `unix_stopping` | 2 signals | violated: `StoppingUntilStopped` |
| `unix_wakeup` | 2 signals | violated: `ResumeWakes` |
| `control_kill` | as `control` | violated: `StopSignalsService` |
| `terminal_chars` | one `requestChars(2)` | violated: `RequestNumArrives` |
| `terminal_first_input` | passive mode | violated: `InputAnnounced` |

Why the bounds are enough. Four signals give a pause, a resume, one signal that
the kernel holds meanwhile and one that interrupts a late answer; the service's own
actions are not bounded. Two controls can disturb each other and a service, and
three processes allow two that compete after a third has died. The terminal's
input holds a line and a rest, and three operations two requests with data between
them; every cut of every frame is tried. Three calls under Windows are a start, a pause
and a stop, or two configuration calls that race and a start after them; a shutdown may
replace any. Three events under systemd are two jobs, or a job, a signal and a crash; what
the service does, the helpers and the client are not bounded. Two starts are what
the semaphore of the Android service needs to be released and taken again.

What the properties of the three platform runs excuse is what the code really does:

* `slips` of `windows`. "wake": the control thread releases the mutex before it waits, so the main
  thread's `wakeAll` can be lost, and the service is then never told to start (`StartArrives`). The
  first wake-up, of the main thread, can be lost too; that needs no excuse, since the 20
  seconds of `GiveUp` end the process.
  "ignored": the engine ignored a command whose pending state had been reported, and the
  state stays (`PendingResolves`). "overtaken": a control code was announced after
  STOPPED (`EndReported`).
* `HasPendingFlag` is never false for a state that occurs: SERVICE_STOPPED, RUNNING and PAUSED are
  1, 4 and 7, and the mask is 7. The timer therefore never stops, which does no harm:
  `HeartbeatWhilePending` holds for that reason, and with fewer flags it does not.
* A configuration call whose answer is out of date (`saw # startType`) may overwrite another's change.
* `ignored` of `systemd`: RELOADING=1 was sent for a reload the engine refused. `halted`: a process
  that stops itself answers nobody. `Orphaned`: the helper of a reload whose call was answered, and
  whose main process has ended since. Without any one of the three `ReloadEnds` is violated.
* `ActiveMeansRunning` does not say that every active unit runs, because that is false: READY=1 of a
  late reload makes a unit active whose start has failed, and one that was told to stop may still be
  shown as active. It says that such a unit is leaving, and for which of the two reasons, with a
  failing exit code if it never started.
* `qt = "failed"` of `android`: `preStart` has refused, nobody releases `_startSem`, and
  `onStartCommand` blocks the main thread of the application. "crashed": a service that was only
  bound and is unbound before its natives are registered; `CallbackWhenReady` is about the callback
  of `onStartCommand`, and does not exclude this call of `exitService`.
* The lifecycle of Android is that of a process: a start that has failed counts as the end only when
  the service is destroyed. `onExit` may be posted before Start, since Android may destroy a service
  that was never started; Start then runs after Stop.
* A client under systemd fails or is refused rather than wait: its control blocks, so `waitCnt` is 0 and a
  service that is starting already is given up.

What is excused does happen, and the property that excuses it does not catch it. Where
`PROJECT.json` lists such a hazard, it has a note that says so.

The violated runs each check a sentence of the documentation or the code:

* `unix_busy`: a Resume of a running service (or a Pause of a paused one) sets
  `operating` and calls nothing; the service refuses Reload, Pause and Resume from
  then on, for being busy with a command that does not exist.
* `unix_stopping`: Stop interrupts a pending command; the late answer to that
  command makes the engine idle while `onStop` is still pending.
* `unix_wakeup`: a SIGCONT sent before the process stops itself is queued as an
  event, and the process then stops with nobody left to wake it. Without fairness of
  `Continue`: nobody is obliged to send a second one.
* `control_kill`: `status()` takes the lock; another control's `stop()` takes it for
  the service and signals that control.
* `terminal_chars`: `requestChars` writes eight bytes for a number the client reads as four.
* `terminal_first_input`: input in the chunk of the handshake is kept, but
  `readyRead` is not emitted for it.

### Fairness

* `UnixService`: weak fairness of the event loop's steps (Qt's loop runs every event
  it has) and of each `UserEmit`: a service that answers `Pending` must emit the
  signal (`doc/service.dox`, `onStart` to `onResume`). `FairSpec` adds `Continue`: a process
  somebody has stopped is continued some time later, without which a SIGTERM stays
  pending for ever. The service's `quit`, `reload` and switches, and signals, are not fair.
* `StandardControl`: processes are scheduled, timers fire, a service told to stop
  does. `QuitItself`, `PreStartFails`, `Crash` and calls are not fair.
* `TerminalSession`: the user types what there is to type, and both loops run. `Quit`, writes,
  requests and `DisconnectTerminal` are not fair.
* `WindowsControl`: the threads are scheduled, and the wait of `runService` ends after 20 seconds.
  The event loop is strongly fair, since the slot of the timer keeps it from its events now and then,
  and the service closes what it left pending. Failures, calls and the timer are not fair.
* `SystemdControl`: the processes are scheduled, systemd does what it was asked to, a D-Bus
  call has a timeout, and the service closes a pending Start, Stop or Reload. Signals, jobs, crashes, the
  watchdog and systemd's timeouts (`ReloadTimesOut`) are not fair.
* `AndroidControl`: both threads are scheduled and the service closes a pending Stop.

`RequestsAnswered` excuses a client that has closed, and one whose user has no more
to type; `RestartLaunches` a failed launch, a dead control, and a `status()` that took another
control's lock for a service. The last is real: such a `stop()` succeeds, and the
timer then waits for a service that runs on.

## Proofs

The theorems hold for every value of the constants. Their only assumptions on them are the ones
the modules declare, which TLC evaluates in the runs: exit codes are numbers with 0 and 1 among
them, bounds are numbers, processes and controls are disjoint, and for the terminal
`TypesAssumption` and `SizesAssumption`. Each proof has the same shape: an inductive
invariant, a lemma per action (or per kind of action) that it is kept, and the theorems from it.

`EngineProofs` says of every function of `ServiceEngine`, and of one command of `EngineSteps`,
what it returns: that it keeps the engine's type and the terminal server in step, and which of
`isRunning`, `operating` and `wasPaused` it touches. The step lemmas of the backends cite these
and never expand the engine.

| Module | Theorems |
|---|---|
| `UnixServiceProofs` | `TypeCorrect`, `TerminalServerFollows`, `CommandExclusion`, `HaltedProcessIsPaused`: the invariants of run `unix`; `RefinesLifecycle` |
| `StandardControlProofs` | `TypeCorrect`, `MutualExclusion`, `LockNotLeaked`: the invariants of run `control`; `RefinesSingleInstance`, in full (that specification states no fairness) |
| `WindowsControlProofs` | `TypeCorrect`, `ReportedStateIsTrue`, `HeartbeatRuns`, `EndIsReported`: the invariants of run `windows`; `ConfigurationRespected`, its action property; `RefinesLifecycle` |
| `SystemdControlProofs` | `TypeCorrect`, `ReadyIsTrue`, `StopReportsTrue`: the invariants of run `systemd` |
| `AndroidControlProofs` | `TypeCorrect`, `CallbackAfterNatives`, `DestroyedAfterStop`: the invariants of run `android`; `RefinesLifecycle` |
| `TerminalSessionProofs` | `InputArrives`, `HandshakeArrives`, and for a service that never calls `requestChars` `OutputArrives`, `InputIsAskedFor`, `EndComesLast`, `TypeCorrect`: the invariants of run `terminal` |

`RefinesLifecycle` is each time the safety part of `ImplementsLifecycle`: initial states are
initial, and every step is a step of `ServiceLifecycle` or stutters.

### The inductive invariants

**UnixService.** `IInv` adds to the four: nothing is awaited, running or leaving
before the event loop has run Start (`NothingYet`); only a process in its loop is halted
(`HaltedInLoop`); `stopped` is awaited only after `onStop` (`AwaitedStop`); and a process
that leaves without having been told to stop has failed to start (`LeavesForAReason`).
Without the first, `HandleStart` could not be shown to find an idle engine; without the
last, `LoopReturn` could not be shown to be an `Exit` or a `Refuse` of the life cycle.

**StandardControl.** A process past the lock, and a control between
`tryLock` and `unlock`, own the lock file (`HoldersOwn`), and a process which has not
asked for it does not (`FreshDoNotOwn`). The owner is alive in all these states, and that
is what keeps others from taking its lock as stale.

**WindowsControl.** What the manager is shown is written by three threads from what they read
earlier, so the invariant has to follow each value on its way. `HandOver` and
`NothingBeforeLoop` say how far `main` can be when `ctl` has got so far, through the lost
wake-ups as well. `SeenTrue` says of the state the timer's slot has *read* what
`ReportedStateTrue` says of the state that is *reported*; without it `TimerReports` could
bring an old one back. `RunningFirst` is why a Pause the handler has announced, and posts a step
later, finds a service that has come up; `OpenCommand` why a command that is closed is the one that
was begun. `StartOnce` and `LeftHonestly` give the exit code its meaning, which `FinalReport` carries
to the manager. `TimerRuns` is stronger than `HeartbeatWhilePending`: the timer runs as long as it
exists, whatever is reported, for the reason given above. `AskedFirst` is what the configuration calls know between
reading and writing; `ConfigurationRespected` follows from it.

**SystemdControl.** `ActiveMeansRunning` is carried by `LoopMeansRunning`: a process in its loop that is
not leaving runs, or its Start is still open. In the second case `StartingIsBusy` says that the engine
takes no reload, so that nobody has sent READY=1 and the unit is not active. For a process on
its way out, `StopWasCalled` and `LeavesAsFailed` give the reason and the exit code. `FreshUntilLoop`
with `UnitFollowsMain` relate the unit to a process that is still on its way, or gone, with a reload's
helper left or not; `ServerMatches` is about the terminal server. For `StopHelperHonest` the invariant
looks into the helper's queue of messages (`MailHonest`): no success is in it before the main process
leaves. `HelperAndUnit` says when there can be a helper at all.

**AndroidControl.** The semaphores are counted along the life of the Java service: `StartSemaphore` and
`QtLivesInJava` give `startSem` in every state of the two threads, and `ExitHandledOnce` says that from
`onDestroy` on exactly one of three things is there: its posted call, a service that is stopping, or
the release of `exitSem`. `NoExitBefore` is the same before `onDestroy`. `StartHandledOnce` and
`PostedOnce` (on the queue of the event loop) make `startupFailed` final, which
`DestroyedWhenStopped` and the life cycle need.

**TerminalSession, the input.** `InputInv` adds to `InputFaithful` what holds before the terminal is open:
the client has sent nothing until it is connected (`NothingSent`), and afterwards the handshake and then
the input are still whole in what a loading terminal has and has to get (`HelloFirst`). That the
handshake is recognised in any first part of that stream that is long enough, and exactly then, is
`OpensInput`; that cutting the front of one sequence and putting it behind another
keeps the whole is `MoveFacts`, on which every other step rests.

**TerminalSession, the output.** What is in the client's buffer and on the wire is a sequence of frames, cut at
any byte. Parsing is recursive, and what a recursive definition computes cannot be proved here; the
invariant therefore does not parse but remembers. `Framed` says there is a stream `sent` of all that
was ever sent, and `k` *marks* in it (position, text and requests so far), such that between each
two marks lies one frame (`Brings`), and that the client has read up to mark `h`. Writing appends a frame and a mark
(`StreamGrows`, `FrameSent`), reading moves `h` on, and an arriving chunk changes neither. `FrameIsRead` is the lemma on
the reader: on a buffer that starts with a frame, or a part of it, `FrameSize` is 0 until the frame is
complete and its length from then on, and `IsRequest` and the bytes printed are the frame's.
`Buffered` says that a client which waits with no `socketReady` queued has read all that is complete, which is
why the one that sees the end of the connection has nothing left (`EndComesLast`).

The hypothesis `MultiCharRequest \notin Requests` of four theorems is a consequence of run
`terminal_chars`: after a `requestChars` the client takes the rest of the number for
the next frame, so they do not hold with it. What concerns the input needs no such hypothesis.

### Only model-checked

* All liveness (`QueuedStopEnds`, `RestartLaunches`, `RequestsAnswered`,
  `NoOrphanTerminal`, the progress properties of the platform runs, the fairness of
  `ServiceLifecycle`), which is out of the prover's reach.
* The violated properties, which are counterexamples.

## Not modelled, and the plan

1. Safety that is not stated yet: a refinement of `ServiceLifecycle` by the systemd backend, and an
   abstract byte channel that `TerminalSession` implements.
2. `ensureServiceStarted` with the standard control, which cannot block: the lock is taken before the
   server listens, and a client may be refused.
3. The configuration of a Windows service while it runs; a service that is started again after
   it was destroyed, on Windows and Android.

Not planned: the launchd control and systemd's autostart (they run a tool and keep nothing
between calls), plugin loading, the QML module, logging, the runtime directory, activated sockets
and access rights, which are input and output without behaviour over time.
