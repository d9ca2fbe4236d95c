--------------------------- MODULE WindowsService ---------------------------
(***************************************************************************)
(* A service process under the Windows service manager (SCM), with its     *)
(* three threads:                                                          *)
(*                                                                         *)
(*   - main: runService, then the Qt event loop with the service's code    *)
(*     and the operation timer;                                            *)
(*   - ctl: the thread the SCM runs serviceMain in;                        *)
(*   - handler: the dispatcher's thread, which the SCM calls handler in,   *)
(*     one control code at a time.                                         *)
(*                                                                         *)
(* main and ctl hand over to each other twice with one condition variable  *)
(* that has no predicate: main waits for the arguments, ctl waits for the  *)
(* application.  Every region the mutex protects is one step; what matters *)
(* lies between them.                                                      *)
(***************************************************************************)
EXTENDS Naturals, SequencesExt, EngineSteps

CONSTANTS ExitCodes   \* the exit codes the service's onStop may choose

ASSUME ExitCodesAssumption == ExitCodes \subseteq Nat /\ {0, 1} \subseteq ExitCodes

\* winsvc.h
STOPPED == 1
START_PENDING == 2
STOP_PENDING == 3
RUNNING == 4
CONTINUE_PENDING == 5
PAUSE_PENDING == 6
PAUSED == 7

Pending == {START_PENDING, STOP_PENDING, CONTINUE_PENDING, PAUSE_PENDING}

Controls == {"STOP", "PAUSE", "CONTINUE"}

VARIABLES
    main,        \* where the main thread is
    ctl,         \* where the thread in serviceMain is
    handler,     \* the control code being handled, or "idle"
    announced,   \* ... and its pending state has been reported
    queue,       \* commands posted to the event loop
    status,      \* _status.dwCurrentState, as the SCM knows it
    failure,     \* _status.dwWin32ExitCode is not NO_ERROR
    opTimer,     \* the operation timer runs
    seen,        \* the state its slot has read, STOPPED outside of it
    eng, awaiting, stopCalled, leaving, exitCode,   \* as in UnixService
    slips        \* history: what has gone wrong, see the properties

startVars == <<main, ctl>>
handlerVars == <<handler, announced>>
statusVars == <<status, opTimer, slips>>
engineVars == <<eng, awaiting, stopCalled, leaving, exitCode>>
serviceVars == <<startVars, handlerVars, queue, statusVars, failure, seen, engineVars>>

Mains == {"off", "spawn", "waiting", "woken", "boot", "prepared", "loop", "timer",
          "returned", "ended", "dead"}
Ctls == {"dispatch", "registered", "passed", "waiting", "woken", "starting", "done",
         "failed"}

ServiceTypeOK ==
    /\ main \in Mains
    /\ ctl \in Ctls
    /\ handler \in Controls \cup {"idle"}
    /\ announced \in BOOLEAN
    /\ queue \in Seq(Commands)
    /\ status \in 1..7
    /\ failure \in BOOLEAN
    /\ opTimer \in BOOLEAN
    /\ seen \in 1..7
    /\ eng \in Engine
    /\ awaiting \subseteq Commands
    /\ stopCalled \in BOOLEAN
    /\ leaving \in BOOLEAN
    /\ exitCode \in ExitCodes
    /\ slips \subseteq {"wake", "ignored", "overtaken"}

ServiceInit ==
    /\ main = "off" /\ ctl = "dispatch"
    /\ handler = "idle" /\ announced = FALSE
    /\ queue = <<>>
    /\ status = STOPPED
    /\ failure = FALSE
    /\ opTimer = FALSE
    /\ seen = STOPPED
    /\ eng = NewEngine(FALSE)
    /\ awaiting = {} /\ stopCalled = FALSE /\ leaving = FALSE /\ exitCode = 0
    /\ slips = {}

-----------------------------------------------------------------------------
(* setStatus                                                                *)

StartFlagOnly(s) == (s \div 2) % 2 = 1

\* status & pendingFlags.  The states are numbers, not flags: the four pending
\* ones together have all three bits, so that every state has one of them.
HasPendingFlag(s) == s % 8 # 0

\* The timer exists from Prepare on; before, the call to start it is lost.
TimerExists == main \in {"prepared", "loop", "timer", "returned", "ended"}

Alive == main \notin {"off", "dead"}

SetStatus(s) ==
    /\ status' = s
    /\ opTimer' = IF s # status /\ TimerExists THEN HasPendingFlag(s) ELSE opTimer
    /\ slips' = IF main = "ended" THEN slips \cup {"overtaken"} ELSE slips

-----------------------------------------------------------------------------
(* The start                                                                *)

\* The SCM creates the process, whose main thread starts the control thread.
Launch ==
    /\ main = "off"
    /\ main' = "spawn"
    /\ status' = START_PENDING
    /\ UNCHANGED <<ctl, handlerVars, queue, failure, opTimer, slips, seen, engineVars>>

Notify(thread) == IF thread = "waiting" THEN "woken" ELSE thread

\* StartServiceCtrlDispatcher fails, and the main thread is told so ...
DispatcherFails ==
    /\ Alive /\ ctl = "dispatch"
    /\ ctl' = "failed"
    /\ failure' = TRUE
    /\ main' = Notify(main)
    /\ UNCHANGED <<handlerVars, queue, statusVars, seen, engineVars>>

\* ... or runs serviceMain, which registers the handler or gives up silently.
Register ==
    /\ Alive /\ ctl = "dispatch"
    /\ ctl' \in {"registered", "failed"}
    /\ UNCHANGED <<main, handlerVars, queue, statusVars, failure, seen, engineVars>>

PassArguments ==
    /\ Alive /\ ctl = "registered"
    /\ ctl' = "passed"
    /\ main' = Notify(main)
    /\ UNCHANGED <<handlerVars, queue, statusVars, failure, seen, engineVars>>

\* The mutex was released in between: the main thread may be done already.
AwaitMain ==
    /\ Alive /\ ctl = "passed"
    /\ ctl' = "waiting"
    /\ UNCHANGED <<main, handlerVars, queue, statusVars, failure, seen, engineVars>>

AwaitArguments ==
    /\ main = "spawn"
    /\ main' = "waiting"
    /\ UNCHANGED <<ctl, handlerVars, queue, statusVars, failure, seen, engineVars>>

\* runService returns before there is an application: 20 seconds are over, or
\* the dispatcher has failed.
GiveUp ==
    /\ main = "waiting" \/ (main = "woken" /\ failure)
    /\ main' = "dead" /\ exitCode' = 1
    /\ status' = STOPPED /\ failure' = TRUE
    /\ UNCHANGED <<ctl, handlerVars, queue, opTimer, slips, seen, eng, awaiting,
                   stopCalled, leaving>>

TakeArguments ==
    /\ main = "woken" /\ ~failure
    /\ main' = "boot"
    /\ SetStatus(START_PENDING)
    /\ UNCHANGED <<ctl, handlerVars, queue, failure, seen, engineVars>>

\* preStart refuses and exit() ends the process where it is; or the slots are
\* connected and the timer is started.
PreStartFails ==
    /\ main = "boot"
    /\ main' = "dead" /\ exitCode' = 1
    /\ status' = STOPPED /\ failure' = TRUE
    /\ UNCHANGED <<ctl, handlerVars, queue, opTimer, slips, seen, eng, awaiting,
                   stopCalled, leaving>>

Prepare ==
    /\ main = "boot"
    /\ main' = "prepared"
    /\ status' = START_PENDING /\ opTimer' = TRUE
    /\ UNCHANGED <<ctl, handlerVars, queue, slips, failure, seen, engineVars>>

WakeNobody ==
    /\ main = "prepared"
    /\ main' = "loop"
    /\ UNCHANGED <<ctl, handlerVars, queue, statusVars, failure, seen, engineVars>>

\* wakeAll, then exec().
WakeControl ==
    /\ main = "prepared"
    /\ main' = "loop"
    /\ ctl' = Notify(ctl)
    /\ slips' = IF ctl = "waiting" THEN slips ELSE slips \cup {"wake"}
    /\ UNCHANGED <<handlerVars, queue, status, opTimer, failure, seen, engineVars>>

AnnounceStart ==
    /\ Alive /\ ctl = "woken"
    /\ ctl' = "starting"
    /\ SetStatus(START_PENDING)
    /\ UNCHANGED <<main, handlerVars, queue, failure, seen, engineVars>>

PostStart ==
    /\ Alive /\ ctl = "starting"
    /\ ctl' = "done"
    /\ queue' = Append(queue, "Start")
    /\ UNCHANGED <<main, handlerVars, statusVars, failure, seen, engineVars>>

-----------------------------------------------------------------------------
(* The control handler                                                      *)

Announce == [STOP |-> STOP_PENDING, PAUSE |-> PAUSE_PENDING, CONTINUE |-> CONTINUE_PENDING]

CommandOf == [STOP |-> "Stop", PAUSE |-> "Pause", CONTINUE |-> "Resume"]

\* The SCM refuses control codes for a service that starts or stops ...
AcceptsControls == status \in {RUNNING, PAUSED, PAUSE_PENDING, CONTINUE_PENDING}

Control(code) ==
    /\ Alive /\ handler = "idle"
    /\ handler' = code /\ announced' = FALSE
    /\ UNCHANGED <<startVars, queue, statusVars, failure, seen, engineVars>>

\* ... but for the shutdown of the system, which is handled as a stop.
Shutdown ==
    /\ ctl \notin {"dispatch", "failed"}
    /\ status \notin {STOPPED, STOP_PENDING}
    /\ Control("STOP")

HandlerAnnounces ==
    /\ Alive /\ handler # "idle" /\ ~announced
    /\ announced' = TRUE
    /\ SetStatus(Announce[handler])
    /\ UNCHANGED <<startVars, handler, queue, failure, seen, engineVars>>

HandlerPosts ==
    /\ Alive /\ handler # "idle" /\ announced
    /\ handler' = "idle" /\ announced' = FALSE
    /\ queue' = Append(queue, CommandOf[handler])
    /\ UNCHANGED <<startVars, statusVars, failure, seen, engineVars>>

-----------------------------------------------------------------------------
(* The event loop: commands, and the slots onStarted, onPaused, onResumed   *)

OnResumedSwapped(success) == SetStatus(IF success THEN PAUSED ELSE RUNNING)

OnStarted(success) == SetStatus(IF success THEN RUNNING ELSE STOP_PENDING)

OnPausedIgnoresFailure(success) ==
    IF success THEN SetStatus(PAUSED) ELSE UNCHANGED statusVars

OnPaused(success) == SetStatus(IF success THEN PAUSED ELSE RUNNING)

OnResumed(success) == SetStatus(IF success THEN RUNNING ELSE PAUSED)

React(emission) ==
    CASE emission.signal = "started" -> OnStarted(emission.success)
      [] emission.signal = "paused"  -> OnPaused(emission.success)
      [] emission.signal = "resumed" -> OnResumed(emission.success)
      [] OTHER -> UNCHANGED statusVars

LeaveOnFailure(emission) ==
    IF emission.signal = "started" /\ ~emission.success
    THEN leaving' = TRUE /\ exitCode' = 1
    ELSE UNCHANGED <<leaving, exitCode>>

\* A failed start and stopped() leave the event loop.
Leave(emission) ==
    LET failed == emission.signal = "started" /\ ~emission.success
    IN  IF emission.signal = "stopped" \/ failed
        THEN leaving' = TRUE /\ exitCode' = IF failed THEN 1 ELSE emission.code
        ELSE UNCHANGED <<leaving, exitCode>>

\* Pause and Resume have been announced when the engine decides: one it ignores
\* leaves the pending state behind.
HandleCommand ==
    /\ main = "loop" /\ queue # <<>>
    /\ LET command == Head(queue)
       IN  \E r \in Process(eng, command, ExitCodes) :
             /\ eng' = r.eng
             /\ awaiting' = awaiting \cup r.pending
             /\ stopCalled' = (stopCalled \/ command = "Stop")
             /\ Leave(r.emission)
             /\ IF r.quits
                THEN /\ status' = STOP_PENDING /\ opTimer' = HasPendingFlag(STOP_PENDING)
                     /\ queue' = Append(Tail(queue), "Stop")
                     /\ UNCHANGED slips
                ELSE /\ queue' = Tail(queue)
                     /\ IF Calls(eng, command) THEN React(r.emission)
                        ELSE slips' = slips \cup {"ignored"} /\ UNCHANGED <<status, opTimer>>
    /\ UNCHANGED <<startVars, handlerVars, failure, seen>>

UserEmit(command) ==
    /\ main = "loop" /\ command \in awaiting
    /\ awaiting' = awaiting \ {command}
    /\ \E r \in Emits(eng, command, ExitCodes) :
          eng' = r.eng /\ Leave(r.emission) /\ React(r.emission)
    /\ UNCHANGED <<startVars, handlerVars, queue, failure, seen, stopCalled>>

\* quitService() and reloadService(), called by the service itself.  Bound: it
\* quits when no stop is waiting or was handled.
UserQuit ==
    /\ main = "loop" /\ ~Contains(queue, "Stop") /\ ~stopCalled
    /\ SetStatus(STOP_PENDING)
    /\ queue' = Append(queue, "Stop")
    /\ UNCHANGED <<startVars, handlerVars, failure, seen, engineVars>>

UserReload ==
    /\ main = "loop"
    /\ \E r \in Process(eng, "Reload", ExitCodes) :
          eng' = r.eng /\ awaiting' = awaiting \cup r.pending
    /\ UNCHANGED <<startVars, handlerVars, queue, statusVars, failure, seen,
                   stopCalled, leaving, exitCode>>

\* The timer's slot reads the state without the mutex and reports it again.
TimerReads ==
    /\ main = "loop" /\ opTimer
    /\ main' = "timer" /\ seen' = status
    /\ UNCHANGED <<ctl, handlerVars, queue, statusVars, failure, engineVars>>

TimerReports ==
    /\ main = "timer"
    /\ main' = "loop" /\ seen' = STOPPED
    /\ SetStatus(seen)
    /\ UNCHANGED <<ctl, handlerVars, queue, failure, engineVars>>

LoopReturn ==
    /\ main = "loop" /\ leaving
    /\ main' = "returned"
    /\ UNCHANGED <<ctl, handlerVars, queue, statusVars, failure, seen, engineVars>>

ReportStoppedAlways ==
    /\ main = "returned"
    /\ main' = "ended"
    /\ SetStatus(STOPPED)
    /\ UNCHANGED <<ctl, handlerVars, queue, failure, seen, engineVars>>

ReportStopped ==
    /\ main = "returned"
    /\ main' = "ended"
    /\ failure' = (failure \/ exitCode # 0)
    /\ SetStatus(STOPPED)
    /\ UNCHANGED <<ctl, handlerVars, queue, seen, engineVars>>

\* The process ends.  For the SCM it is stopped then, and has failed if it had
\* not said so before.
ProcessEnds ==
    /\ main = "ended"
    /\ main' = "dead"
    /\ status' = STOPPED
    /\ failure' = (failure \/ status # STOPPED)
    /\ UNCHANGED <<ctl, handlerVars, queue, opTimer, slips, seen, engineVars>>

-----------------------------------------------------------------------------

MainStep == \/ AwaitArguments \/ TakeArguments \/ Prepare \/ WakeControl
            \/ HandleCommand \/ TimerReports \/ LoopReturn \/ ReportStopped \/ ProcessEnds
CtlStep == Register \/ PassArguments \/ AwaitMain \/ AnnounceStart \/ PostStart
HandlerStep == HandlerAnnounces \/ HandlerPosts

ServiceNext == \/ MainStep \/ CtlStep \/ HandlerStep
               \/ DispatcherFails \/ GiveUp \/ PreStartFails
               \/ UserQuit \/ UserReload \/ TimerReads
               \/ \E command \in Commands : UserEmit(command)
=============================================================================
