----------------------------- MODULE UnixService -----------------------------
(***************************************************************************)
(* One service process under the signal-driven backends: the standard      *)
(* backend (StandardServiceBackend) and the launchd one, whose handlers    *)
(* are the same.  Actors:                                                  *)
(*                                                                         *)
(*   - whoever sends signals: a shell, a ServiceControl, an init system;   *)
(*   - the kernel, which stops and continues the process and keeps what is *)
(*     sent to a stopped process pending;                                  *)
(*   - the event loop, which calls signalTriggered for one signal at a     *)
(*     time, in the order in which the signal handlers wrote them;         *)
(*   - the service's own code, which answers each command at once or       *)
(*     later, and may quit, reload, or switch its terminals at any time.   *)
(***************************************************************************)
EXTENDS Naturals, SequencesExt, ServiceEngine

CONSTANTS ExitCodes,   \* the exit codes the service's onStop may choose
          MaxSignals   \* bound: how many signals are sent to the process

ASSUME ExitCodesAssumption == ExitCodes \subseteq Nat /\ {0, 1} \subseteq ExitCodes
ASSUME MaxSignalsAssumption == MaxSignals \in Nat

VARIABLES
    phase,       \* "boot", "starting" (Start is posted), "loop", "ended"
    eng,         \* the command engine, see ServiceEngine
    awaiting,    \* commands the service's code has answered with Pending
    stopCalled,  \* history: onStop has been called
    leaving,     \* QCoreApplication::exit has been called
    exitCode,    \* the code it was called with last
    queue,       \* signals caught, waiting for the event loop
    kpend,       \* signals the kernel keeps for the stopped process
    halted,      \* the process is stopped by SIGSTOP
    sent,        \* how many signals were sent (bounded by MaxSignals)
    lastJob      \* history: which of SIGTSTP and SIGCONT was sent last

vars == <<phase, eng, awaiting, stopCalled, leaving, exitCode, queue, kpend,
          halted, sent, lastJob>>

loopVars == <<leaving, exitCode, halted>>
signalVars == <<queue, kpend, sent, lastJob>>

\* SIGINT, SIGTERM and SIGQUIT are one case of signalTriggered.
Signals == {"TERM", "HUP", "TSTP", "CONT"}

TypeOK == /\ phase \in {"boot", "starting", "loop", "ended"}
          /\ eng \in Engine
          /\ awaiting \subseteq Commands
          /\ stopCalled \in BOOLEAN
          /\ leaving \in BOOLEAN
          /\ exitCode \in ExitCodes
          /\ queue \in Seq(Signals)
          /\ kpend \subseteq Signals \ {"CONT"}
          /\ halted \in BOOLEAN
          /\ sent \in 0..MaxSignals
          /\ lastJob \in {"none", "TSTP", "CONT"}

Init == /\ phase = "boot"
        /\ \E active \in BOOLEAN : eng = NewEngine(active)
        /\ awaiting = {}
        /\ stopCalled = FALSE
        /\ leaving = FALSE
        /\ exitCode = 0
        /\ queue = <<>>
        /\ kpend = {}
        /\ halted = FALSE
        /\ sent = 0
        /\ lastJob = "none"

-----------------------------------------------------------------------------
(* The emissions of the service's signals.  `e` is the engine before the    *)
(* emission; the engine's slot was connected first and runs first, then the *)
(* backend's own slot.                                                      *)

Started(e, success) ==
    /\ \E ok \in BOOLEAN : eng' = OnSvcStarted(e, success, ok)
    /\ IF success THEN UNCHANGED loopVars
       ELSE leaving' = TRUE /\ exitCode' = 1 /\ UNCHANGED halted

Stopped(e, code) ==
    /\ eng' = OnSvcStopped(e)
    /\ leaving' = TRUE /\ exitCode' = code /\ UNCHANGED halted

Reloaded(e, success) == eng' = OnSvcReloaded(e, success) /\ UNCHANGED loopVars

\* onPaused stops the process itself, before it returns to the event loop.
Paused(e, success) ==
    /\ eng' = OnSvcPaused(e, success)
    /\ halted' = success /\ UNCHANGED <<leaving, exitCode>>

Resumed(e, success) == eng' = OnSvcResumed(e, success) /\ UNCHANGED loopVars

-----------------------------------------------------------------------------
(* processServiceCommand.  The handler of the service returns Completed or  *)
(* Failed (the signal is emitted at once) or Pending (the service emits it  *)
(* later).                                                                  *)

ProcessStopWhenIdle(e) ==
    IF e.operating
    THEN eng' = e /\ UNCHANGED <<awaiting, stopCalled, loopVars>>
    ELSE /\ stopCalled' = TRUE
         /\ eng' = Begin(e, "Stop")
         /\ awaiting' = awaiting \cup {"Stop"}
         /\ UNCHANGED loopVars

\* Stop is always accepted.  `e` is the engine when it is issued.
ProcessStop(e) ==
    /\ stopCalled' = TRUE
    /\ \/ /\ eng' = Begin(e, "Stop")
          /\ awaiting' = awaiting \cup {"Stop"}
          /\ UNCHANGED loopVars
       \/ \E code \in ExitCodes, result \in {"Completed", "Failed"} :
             Stopped(Begin(e, "Stop"), StopCode(code, result)) /\ UNCHANGED awaiting

\* Start, with its extra answer Exit: started, then quitService().
ProcessStart ==
    \/ /\ eng' = Begin(eng, "Start")
       /\ awaiting' = awaiting \cup {"Start"}
       /\ UNCHANGED <<loopVars, stopCalled>>
    \/ /\ \E success \in BOOLEAN : Started(Begin(eng, "Start"), success)
       /\ UNCHANGED <<awaiting, stopCalled>>
    \/ \E ok \in BOOLEAN : ProcessStop(OnSvcStarted(Begin(eng, "Start"), TRUE, ok))

\* Reload, Pause and Resume: refused or skipped, left pending, or answered.
ProcessOther(code) ==
    /\ UNCHANGED stopCalled
    /\ \/ /\ ~Calls(eng, code)
          /\ eng' = Begin(eng, code)
          /\ UNCHANGED <<awaiting, loopVars>>
       \/ /\ Calls(eng, code)
          /\ eng' = Begin(eng, code)
          /\ awaiting' = awaiting \cup {code}
          /\ UNCHANGED loopVars
       \/ /\ Calls(eng, code)
          /\ \E success \in BOOLEAN :
                \/ code = "Reload" /\ Reloaded(Begin(eng, code), success)
                \/ code = "Pause" /\ Paused(Begin(eng, code), success)
                \/ code = "Resume" /\ Resumed(Begin(eng, code), success)
          /\ UNCHANGED awaiting

-----------------------------------------------------------------------------
(* The process                                                              *)

\* runService up to exec(): preStart or the instance lock may refuse; then the
\* signal handlers are installed and Start is posted to the event loop.
RunService ==
    /\ phase = "boot"
    /\ \/ phase' = "starting" /\ UNCHANGED exitCode
       \/ phase' = "ended" /\ exitCode' = 1
    /\ UNCHANGED <<eng, awaiting, stopCalled, leaving, halted, signalVars>>

Awake == phase = "loop" /\ ~halted

\* Posted events come before the socket notifier that reports signals.
HandleStart ==
    /\ phase = "starting"
    /\ phase' = "loop"
    /\ ProcessStart
    /\ UNCHANGED signalVars

\* signalTriggered for the oldest signal.  Handlers of the same iteration still
\* run after QCoreApplication::exit, so `leaving` does not disable it.
HandleSignal ==
    /\ Awake
    /\ queue # <<>>
    /\ queue' = Tail(queue)
    /\ \/ Head(queue) = "TERM" /\ ProcessStop(eng)
       \/ Head(queue) = "HUP" /\ ProcessOther("Reload")
       \/ Head(queue) = "TSTP" /\ ProcessOther("Pause")
       \/ Head(queue) = "CONT" /\ ProcessOther("Resume")
    /\ UNCHANGED <<phase, kpend, sent, lastJob>>

\* exec() returns once the iteration in which exit was called is over.
LoopReturn ==
    /\ Awake
    /\ leaving
    /\ phase' = "ended"
    /\ UNCHANGED <<eng, awaiting, stopCalled, loopVars, signalVars>>

-----------------------------------------------------------------------------
(* The service's own code, run by the event loop                            *)

\* The service emits the signal that closes a command it left pending.
UserEmit(code) ==
    /\ Awake
    /\ code \in awaiting
    /\ awaiting' = awaiting \ {code}
    /\ \/ code = "Stop" /\ \E c \in ExitCodes : Stopped(eng, c)
       \/ \E success \in BOOLEAN :
             \/ code = "Start" /\ Started(eng, success)
             \/ code = "Reload" /\ Reloaded(eng, success)
             \/ code = "Pause" /\ Paused(eng, success)
             \/ code = "Resume" /\ Resumed(eng, success)
    /\ UNCHANGED <<phase, stopCalled, signalVars>>

\* Service::quit() and Service::reload()
UserQuit == Awake /\ ProcessStop(eng) /\ UNCHANGED <<phase, signalVars>>

UserReload == Awake /\ ProcessOther("Reload") /\ UNCHANGED <<phase, signalVars>>

UserSetTerminal(on) ==
    /\ Awake
    /\ \E ok \in BOOLEAN : eng' = SetTerminalActive(eng, on, ok)
    /\ UNCHANGED <<phase, awaiting, stopCalled, loopVars, signalVars>>

-----------------------------------------------------------------------------
(* Signals                                                                  *)

SendBudget == sent < MaxSignals /\ sent' = sent + 1

\* A running process catches the signal at once.
Send(s) ==
    /\ phase \in {"starting", "loop"}
    /\ ~halted
    /\ SendBudget
    /\ queue' = Append(queue, s)
    /\ lastJob' = IF s \in {"TSTP", "CONT"} THEN s ELSE lastJob
    /\ UNCHANGED <<phase, eng, awaiting, stopCalled, loopVars, kpend>>

\* For a stopped process the kernel keeps it, at most once.
SendHalted(s) ==
    /\ halted
    /\ s # "CONT"
    /\ SendBudget
    /\ kpend' = kpend \cup {s}
    /\ lastJob' = IF s = "TSTP" THEN s ELSE lastJob
    /\ UNCHANGED <<phase, eng, awaiting, stopCalled, loopVars, queue>>

\* SIGCONT continues a stopped process, discards a pending SIGTSTP, and the
\* kernel delivers the rest in an order of its own.
Continue ==
    /\ halted
    /\ halted' = FALSE
    /\ \E order \in SetToSeqs((kpend \ {"TSTP"}) \cup {"CONT"}) :
          queue' = queue \o order
    /\ kpend' = {}
    /\ lastJob' = "CONT"
    /\ UNCHANGED <<phase, eng, awaiting, stopCalled, leaving, exitCode, sent>>

-----------------------------------------------------------------------------

Service == \/ RunService \/ HandleStart \/ HandleSignal \/ LoopReturn
           \/ \E code \in Commands : UserEmit(code)
           \/ UserQuit \/ UserReload
           \/ \E on \in BOOLEAN : UserSetTerminal(on)

Next == \/ Service
        \/ \E s \in Signals : Send(s) \/ SendHalted(s)
        \/ Continue

Spec == Init /\ [][Next]_vars

\* The event loop runs, and a service that answered Pending does emit the
\* signal that closes the command, as its contract demands.
LoopFairness == /\ WF_vars(RunService)
                /\ WF_vars(HandleStart)
                /\ WF_vars(HandleSignal)
                /\ WF_vars(LoopReturn)
                /\ \A code \in Commands : WF_vars(UserEmit(code))

LoopSpec == Spec /\ LoopFairness

\* ... and whoever stopped the process continues it some time later.
FairSpec == LoopSpec /\ WF_vars(Continue)

-----------------------------------------------------------------------------
(* Properties                                                               *)

\* The terminal server accepts connections exactly while the service is running
\* with its terminals switched on: startTerminals and stopTerminals are called
\* from five places (the setter, onSvcStarted, onSvcStopped, twice each), and
\* none of them may leave a server open or a running service without one.
TerminalsFollowService == eng.listening <=> eng.isRunning /\ eng.terminalActive

\* Until the service is told to stop, its code has at most one command to
\* finish, and `operating` says so: two pending commands would close each other.
OneCommandAtATime ==
    ~stopCalled => /\ \A c, d \in awaiting : c = d
                   /\ awaiting # {} => eng.operating

\* A stopped process always knows that it was paused, so that the SIGCONT that
\* wakes it reaches onResume.
HaltedOnlyWhenPaused == halted => eng.wasPaused

\* The life of the process as ServiceLifecycle describes it.
lifeState == IF phase = "boot" THEN "off"
             ELSE IF phase = "ended" THEN "exited"
             ELSE IF stopCalled THEN "stopping"
             ELSE IF eng.isRunning THEN "running"
             ELSE "starting"

lifeCode == IF phase = "ended" THEN exitCode ELSE 0

Lifecycle == INSTANCE ServiceLifecycle WITH state <- lifeState, code <- lifeCode

\* The process lives the life the documentation promises: it leaves the running
\* state only through onStop, reports a failed start, and exits once stopping.
ImplementsLifecycle == Lifecycle!Spec

\* A request to stop is honoured whatever else is going on: a SIGTERM, caught
\* or kept by the kernel, is followed by the end of the process.
QueuedStopEnds ==
    ("TERM" \in kpend \/ \E i \in DOMAIN queue : queue[i] = "TERM") ~> phase = "ended"

-----------------------------------------------------------------------------
(* Statements of the sources that the code does not keep                    *)

\* servicebackend.cpp:47: a command is refused because "another command is
\* currently beeing processed", so an engine that is operating in a running
\* service has a command that its code is still to finish.
BusyMeansPending == eng.isRunning /\ eng.operating => awaiting # {}

\* service.dox:336-337: while onStop is pending "the service will remain in the
\* stopping state until you emit" stopped (which is what sets `leaving` there):
\* nothing else is accepted.
StoppingUntilStopped == "Stop" \in awaiting /\ ~leaving => eng.operating

\* service.dox:420-421: onResume is called "as soon as the process continues":
\* a service whose last job-control signal is SIGCONT does not stay stopped.
ResumeWakes == <>[](lastJob = "CONT") => []<>(~halted)
=============================================================================
