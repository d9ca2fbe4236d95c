--------------------------- MODULE SystemdService ---------------------------
(***************************************************************************)
(* One systemd unit of Type=notify: its main process, the helper process   *)
(* that ExecStop= or ExecReload= runs from the same executable, and what   *)
(* systemd makes of the notifications both of them send.                   *)
(*                                                                         *)
(* The helper calls the main process over D-Bus, and ends with the answer  *)
(* the main process broadcasts, with an error of the call, or - to stop,   *)
(* not to reload - when the name of the main process goes from the bus.    *)
(***************************************************************************)
EXTENDS Naturals, SequencesExt, EngineSteps

CONSTANTS ExitCodes   \* the exit codes the service's onStop may choose

ASSUME ExitCodesAssumption == ExitCodes \subseteq Nat /\ {0, 1} \subseteq ExitCodes

VARIABLES
    main,       \* where the main process is
    eng, awaiting, stopCalled, leaving, exitCode, halted,   \* as in UnixService
    inbox,      \* signals, and calls of the helper, for the event loop
    unit,       \* systemd's view: the ActiveState, and the last notification
    helper,     \* the helper process: which, where it is, what it has received
                \* in order, and what it ended with
    ignored     \* history: the engine has ignored a command

loopVars == <<leaving, exitCode, halted>>
engineVars == <<eng, awaiting, stopCalled, ignored>>
serviceVars == <<main, engineVars, loopVars, inbox, unit, helper>>

Signals == {"TERM", "HUP", "TSTP", "CONT"}

\* quitService and reloadService, called over D-Bus.
CallOf == [stop |-> "quitCall", reload |-> "reloadCall"]

Unit == [state : {"inactive", "failed", "activating", "active", "reloading", "deactivating"},
         note : {"none", "ready", "reloading", "stopping"}]

\* `from` is the emission an answer comes with: the exit code, or 1 for a failure.
Answers == {"answer"} \X ExitCodes
Others == {<<"error", 1>>, <<"removed", 0>>, <<"gone", 0>>}

Helper == [kind : {"none", "stop", "reload"},
           at : {"none", "checking", "waiting", "done"},
           mail : Seq(Answers \cup Others), result : ExitCodes]

NoHelper == [kind |-> "none", at |-> "none", mail |-> <<>>, result |-> 0]

\* runService with "stop" or "reload".
Starts(kind) == [NoHelper EXCEPT !.kind = kind, !.at = "checking"]

ServiceTypeOK ==
    /\ main \in {"off", "boot", "starting", "loop"}
    /\ eng \in Engine
    /\ awaiting \subseteq Commands
    /\ stopCalled \in BOOLEAN
    /\ leaving \in BOOLEAN
    /\ exitCode \in ExitCodes
    /\ halted \in BOOLEAN
    /\ inbox \subseteq Signals \cup {"quitCall", "reloadCall"}
    /\ unit \in Unit
    /\ helper \in Helper
    /\ ignored \in BOOLEAN

ServiceInit ==
    /\ main = "off"
    /\ eng = NewEngine(FALSE)
    /\ awaiting = {} /\ stopCalled = FALSE /\ ignored = FALSE
    /\ leaving = FALSE /\ exitCode = 0 /\ halted = FALSE
    /\ inbox = {}
    /\ unit = [state |-> "inactive", note |-> "none"]
    /\ helper = NoHelper

-----------------------------------------------------------------------------
(* sd_notify, as systemd takes it                                           *)

Set(u, state) == [u EXCEPT !.state = state]

\* The state that follows from a notification; while the helper for a reload
\* runs, its end and not the notification ends the state.
Settle(u, busy) ==
    CASE u.note = "ready" /\ (u.state = "activating" \/ (u.state = "reloading" /\ ~busy))
             -> Set(u, "active")
      [] u.note = "reloading" /\ u.state = "active" -> Set(u, "reloading")
      [] u.note = "stopping" /\ (u.state = "active" \/ (u.state = "reloading" /\ ~busy))
             -> Set(u, "deactivating")
      [] OTHER -> u

Reloads == helper.kind = "reload"

After(u, note) == IF note = "none" THEN u ELSE Settle([u EXCEPT !.note = note], Reloads)

-----------------------------------------------------------------------------
(* The main process: the slots of the backend and the adaptor               *)

NoteOfStart(emission) ==
    IF emission.signal = "started" /\ emission.success THEN "ready" ELSE "none"

\* READY=1 of onStarted and onReloaded.
NoteOf(emission) ==
    IF emission.signal = "reloaded" \/ (emission.signal = "started" /\ emission.success)
    THEN "ready" ELSE "none"

LeavesOnFailure(emission) == emission.signal = "started" /\ ~emission.success

LeavesWhenStopped(emission) == emission.signal = "stopped"

\* onStopped, which onStarted calls too; quitService connects it, before any
\* stopped() can be emitted.
Leaves(emission) == \/ emission.signal = "stopped"
                    \/ emission.signal = "started" /\ ~emission.success

CodeOf(emission) == IF emission.signal = "stopped" THEN emission.code
                    ELSE IF emission.success THEN 0 ELSE 1

\* What the adaptor broadcasts reaches a helper that waits.
Answered == [stop |-> "stopped", reload |-> "reloaded", none |-> "none"]

Broadcast(emission) ==
    helper' = IF helper.at = "waiting" /\ emission.signal = Answered[helper.kind]
              THEN [helper EXCEPT !.mail = Append(@, <<"answer", CodeOf(emission)>>)]
              ELSE helper

\* `told` is the unit after all notifications.
React(emission, told) ==
    /\ unit' = told
    /\ Broadcast(emission)
    /\ IF Leaves(emission) THEN leaving' = TRUE /\ exitCode' = CodeOf(emission)
       ELSE UNCHANGED <<leaving, exitCode>>
    /\ halted' = (emission.signal = "paused" /\ emission.success)

Results(r, stops, told) ==
    /\ eng' = r.eng
    /\ awaiting' = awaiting \cup r.pending
    /\ stopCalled' = (stopCalled \/ stops)
    /\ React(r.emission, told)

\* One call of processServiceCommand; `first` is what was notified before it.  A
\* Start that answers Exit goes on with quitService().
Issue(command, first) ==
    /\ ignored' = (ignored \/ ~Calls(eng, command))
    /\ \E r \in Process(eng, command, ExitCodes) :
          LET told == After(After(unit, first), NoteOf(r.emission))
          IN  \/ ~r.quits /\ Results(r, command = "Stop", told)
              \/ r.quits /\ \E s \in Process(r.eng, "Stop", ExitCodes) :
                                Results(s, TRUE, After(told, "stopping"))

quitService == Issue("Stop", "stopping")

\* RELOADING=1 is sent before the engine decides.
reloadService == Issue("Reload", "reloading")

-----------------------------------------------------------------------------
(* The main process: run() and the event loop                               *)

\* The unit after its processes.
Result(code) == IF code = 0 THEN "inactive" ELSE "failed"

\* The unit after the main process: systemd waits for a helper that runs.
Over(code) == CASE helper.kind = "stop"   -> "deactivating"
                [] helper.kind = "reload" -> "reloading"
                [] helper.kind = "none"   -> Result(code)

\* What the bus tells a helper that waits: no reply will come to a call the
\* process has not read; and, if it watches the name, that the name is gone.
Farewell == {<<"error", 1>> : c \in inbox \cap {CallOf[helper.kind]}}
            \cup {<<"removed", 0>> : k \in {helper.kind} \cap {"stop"}}

\* The process ends.  The helper does not: one that waits for an answer to a
\* reload the process had taken hears nothing more.
Ends(code) ==
    /\ main' = "off" /\ inbox' = {} /\ halted' = FALSE /\ leaving' = FALSE
    /\ exitCode' = code
    /\ unit' = Set(unit, Over(code))
    /\ IF helper.at = "waiting"
       THEN \E last \in SetToSeqs(Farewell) : helper' = [helper EXCEPT !.mail = @ \o last]
       ELSE UNCHANGED helper
    /\ eng' = NewEngine(FALSE) /\ awaiting' = {} /\ stopCalled' = FALSE /\ ignored' = FALSE

\* The service refuses to start, or a D-Bus registration fails.
RunFails == main = "boot" /\ Ends(1)

RunServiceReady ==
    /\ main = "boot"
    /\ main' = "starting"
    /\ unit' = After(unit, "ready")
    /\ UNCHANGED <<engineVars, loopVars, inbox, helper>>

\* The signal handlers are installed and Start is posted.
RunService ==
    /\ main = "boot"
    /\ main' = "starting"
    /\ UNCHANGED <<engineVars, loopVars, inbox, unit, helper>>

HandleStart ==
    /\ main = "starting"
    /\ main' = "loop"
    /\ Issue("Start", "none")
    /\ UNCHANGED inbox

Awake == main = "loop" /\ ~halted

\* signalTriggered, and the slots of the adaptor.  Service::quit() and reload()
\* do what a SIGTERM and a SIGHUP do.
HandleEvent(event) ==
    /\ Awake /\ event \in inbox
    /\ inbox' = inbox \ {event}
    /\ CASE event \in {"TERM", "quitCall"}  -> quitService
         [] event \in {"HUP", "reloadCall"} -> reloadService
         [] event = "TSTP"                  -> Issue("Pause", "none")
         [] event = "CONT"                  -> Issue("Resume", "none")
    /\ UNCHANGED main

UserEmit(command) ==
    /\ Awake /\ command \in awaiting
    /\ awaiting' = awaiting \ {command}
    /\ \E r \in Emits(eng, command, ExitCodes) :
          eng' = r.eng /\ React(r.emission, After(unit, NoteOf(r.emission)))
    /\ UNCHANGED <<main, inbox, stopCalled, ignored>>

LoopReturn == Awake /\ leaving /\ Ends(exitCode)

-----------------------------------------------------------------------------
(* The helper: stop() and reload()                                          *)

\* It announces itself, and looks for the name of the main process on the bus:
\* what it finds, it subscribes to and calls.
HelperCalls ==
    /\ helper.at = "checking"
    /\ unit' = After(unit, IF helper.kind = "stop" THEN "stopping" ELSE "reloading")
    /\ IF main \in {"starting", "loop"}
       THEN /\ helper' = [helper EXCEPT !.at = "waiting"]
            /\ inbox' = inbox \cup {CallOf[helper.kind]}
       ELSE /\ helper' = [helper EXCEPT !.at = "done", !.result = 1]
            /\ UNCHANGED inbox
    /\ UNCHANGED <<main, engineVars, loopVars>>

\* A halted process does not reply within the 25 seconds of D-Bus.
CallTimesOut ==
    /\ helper.at = "waiting" /\ halted /\ CallOf[helper.kind] \in inbox
    /\ helper' = [helper EXCEPT !.mail = Append(@, <<"error", 1>>)]
    /\ helper.mail = <<>>
    /\ UNCHANGED <<main, engineVars, loopVars, inbox, unit>>

HelperHearsAnswers ==
    /\ helper.at = "waiting" /\ helper.mail # <<>>
    /\ LET message == Head(helper.mail)
           rest == [helper EXCEPT !.mail = Tail(@)]
       IN  helper' = IF message[1] = "removed" THEN rest
                     ELSE [rest EXCEPT !.at = "done", !.mail = <<>>, !.result = message[2]]
    /\ UNCHANGED <<main, engineVars, loopVars, inbox, unit>>

\* The removal of the name is a queued connection: its slot comes after
\* everything that has arrived.
HelperHears ==
    /\ helper.at = "waiting" /\ helper.mail # <<>>
    /\ LET message == Head(helper.mail)
           rest == [helper EXCEPT !.mail = Tail(@)]
       IN  helper' = IF message[1] = "removed"
                     THEN [rest EXCEPT !.mail = Append(@, <<"gone", 0>>)]
                     ELSE [rest EXCEPT !.at = "done", !.mail = <<>>, !.result = message[2]]
    /\ UNCHANGED <<main, engineVars, loopVars, inbox, unit>>

-----------------------------------------------------------------------------

MainStep == \/ RunService \/ HandleStart \/ LoopReturn
            \/ \E event \in inbox : HandleEvent(event)

HelperStep == HelperCalls \/ CallTimesOut \/ HelperHears

ServiceNext == \/ MainStep \/ HelperStep \/ RunFails
               \/ \E command \in Commands : UserEmit(command)
=============================================================================
