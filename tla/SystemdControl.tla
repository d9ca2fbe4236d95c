--------------------------- MODULE SystemdControl ---------------------------
(***************************************************************************)
(* systemd with its one unit, what SystemdServiceControl asks of it        *)
(* through systemctl, and a terminal client that ensures with such a       *)
(* control that the service is started before it connects.                 *)
(*                                                                         *)
(* systemd itself is external: its jobs do what the unit files of the      *)
(* repository (Type=notify, ExecStop=, ExecReload=, Restart=on-abnormal)   *)
(* make them do.                                                           *)
(***************************************************************************)
EXTENDS SystemdService

CONSTANT MaxEvents   \* bound: jobs, signals and crashes

ASSUME MaxEventsAssumption == MaxEvents \in Nat

VARIABLES
    again,    \* the unit is to be started once it is down
    client,   \* the terminal client: where it is, and _svcInfo of its control
    events    \* how many jobs, signals and crashes there were

vars == <<serviceVars, again, client, events>>

Places == {"exec", "ask", "start", "starting", "check", "confirm", "connect",
           "connected", "refused", "failed"}

TypeOK == /\ ServiceTypeOK
          /\ again \in BOOLEAN
          /\ client \in [at : Places, info : {"Unknown", "Yes", "No"}]
          /\ events \in 0..MaxEvents

Init == /\ ServiceInit
        /\ again = FALSE
        /\ client = [at |-> "exec", info |-> "Unknown"]
        /\ events = 0

-----------------------------------------------------------------------------
(* systemd                                                                  *)

Budget == events < MaxEvents /\ events' = events + 1

Down == unit.state \in {"inactive", "failed"} /\ main = "off" /\ helper = NoHelper

\* A new main process; the service's constructor may switch the terminals on.
Launch ==
    /\ Down
    /\ IF again THEN UNCHANGED events ELSE Budget
    /\ again' = FALSE
    /\ main' = "boot"
    /\ \E active \in BOOLEAN : eng' = NewEngine(active)
    /\ exitCode' = 0
    /\ unit' = [state |-> "activating", note |-> "none"]
    /\ UNCHANGED <<awaiting, stopCalled, ignored, inbox, leaving, halted, helper, client>>

\* SIGTERM, and SIGCONT for a process that is stopped.  A helper dies of it.
Terminate ==
    CASE main = "boot" -> Ends(0)
      [] main = "off"  -> /\ unit' = Set(unit, Result(exitCode)) /\ helper' = NoHelper
                          /\ UNCHANGED <<main, engineVars, loopVars, inbox>>
      [] main \in {"starting", "loop"} ->
            /\ inbox' = (inbox \ {"TSTP"}) \cup {"TERM", "CONT"}
            /\ halted' = FALSE
            /\ unit' = Set(unit, "deactivating") /\ helper' = NoHelper
            /\ UNCHANGED <<main, engineVars, leaving, exitCode>>

\* stop() and restart(): ExecStop= for an active unit; one that starts or
\* reloads is terminated at once.
Stop ==
    /\ Budget
    /\ again' \in BOOLEAN
    /\ \/ /\ unit.state = "active" /\ helper = NoHelper
          /\ unit' = Set(unit, "deactivating")
          /\ helper' = Starts("stop")
          /\ UNCHANGED <<main, engineVars, loopVars, inbox>>
       \/ unit.state \in {"activating", "reloading"} /\ Terminate
    /\ UNCHANGED client

Reload ==
    /\ Budget
    /\ unit.state = "active" /\ helper = NoHelper
    /\ unit' = Set(unit, "reloading")
    /\ helper' = Starts("reload")
    /\ UNCHANGED <<main, engineVars, loopVars, inbox, again, client>>

\* A reload is over: the unit runs on, or is done if its process is.
ReloadOver ==
    /\ helper' = NoHelper
    /\ unit' = IF main = "off" THEN Set(unit, Result(exitCode)) ELSE Settle(unit, FALSE)
    /\ UNCHANGED <<main, engineVars, loopVars, inbox>>

\* After ExecStop= a main process that is left is terminated.
HelperEnded ==
    /\ helper.at = "done"
    /\ IF helper.kind = "reload" THEN ReloadOver ELSE Terminate
    /\ UNCHANGED <<again, client, events>>

\* TimeoutStartSec=: a helper that does not end is killed.
ReloadTimesOut ==
    /\ helper.kind = "reload" /\ helper.at = "waiting"
    /\ ReloadOver
    /\ UNCHANGED <<again, client, events>>

\* systemctl kill; a SIGCONT continues a stopped process.
Signal(s) ==
    /\ main \in {"starting", "loop"}
    /\ Budget
    /\ inbox' = (IF s = "CONT" THEN inbox \ {"TSTP"} ELSE inbox) \cup {s}
    /\ halted' = (halted /\ s # "CONT")
    /\ UNCHANGED <<main, engineVars, leaving, exitCode, unit, helper, again, client>>

\* The watchdog of an active unit: nobody feeds it while the process is halted,
\* and a process that leaves has stopped the timer that does.
WatchdogExpires ==
    /\ main = "loop" /\ (halted \/ leaving)
    /\ unit.state \in {"active", "reloading"}
    /\ Ends(1)
    /\ again' = TRUE
    /\ UNCHANGED <<client, events>>

\* A crash, or systemd kills the process: it did not start or stop in time.
Crash ==
    /\ main # "off"
    /\ Budget
    /\ Ends(1)
    /\ again' = (again \/ unit.state # "deactivating")
    /\ UNCHANGED client

-----------------------------------------------------------------------------
(* The terminal client: exec, ensureServiceStarted, doConnect               *)

Reported == [active |-> "Running", reloading |-> "Reloading", inactive |-> "Stopped",
             failed |-> "Errored", activating |-> "Starting", deactivating |-> "Stopping"]

\* serviceExists(): "No" when systemctl fails.
Exists == {"Yes", "No"}

\* status(): the answer, and _svcInfo after it.  systemctl may fail; a unit that
\* is down may not be listed, and then _svcInfo is asked, once.
Status(info) ==
    {<<"Unknown", info>>, <<Reported[unit.state], info>>}
    \cup (IF Down
          THEN {<<IF known = "Yes" THEN "Stopped" ELSE "Unknown", known>>
                   : known \in IF info = "Unknown" THEN Exists ELSE {info}}
          ELSE {})

Client(places) == client.at \in places /\ UNCHANGED <<serviceVars, events>>

At(place, info) == [at |-> place, info |-> info]

\* TerminalClient::exec: the service's verifyCommand must agree to the arguments.
ClientExec(verified, startWithTerminal) ==
    At(CASE ~verified -> "failed"
         [] startWithTerminal -> "ask"
         [] OTHER -> "connect", "Unknown")

\* Service::exec with --terminal: the terminals must have been switched on.
Exec ==
    /\ Client({"exec"})
    /\ \E terminalActive, verified, startWithTerminal \in BOOLEAN :
          client' = IF terminalActive THEN ClientExec(verified, startWithTerminal)
                    ELSE At("failed", "Unknown")
    /\ UNCHANGED again

\* ensureServiceStarted with a control that blocks: one status before the start,
\* one that is not waited for, and one that decides.
Ask ==
    /\ Client({"ask", "check", "confirm"})
    /\ \E answer \in Status(client.info) :
          client' = CASE client.at = "ask" ->
                            At(IF answer[1] = "Stopped" THEN "start" ELSE "check", answer[2])
                      [] client.at = "check" -> At("confirm", answer[2])
                      [] client.at = "confirm" ->
                            At(IF answer[1] = "Running" THEN "connect" ELSE "failed", "Unknown")
    /\ UNCHANGED again

\* systemctl start waits for the unit, or cannot be run.
RunSystemctl ==
    /\ Client({"start"})
    /\ \/ client' = [client EXCEPT !.at = "failed"] /\ UNCHANGED again
       \/ /\ client' = [client EXCEPT !.at = "starting"]
          /\ again' = (again \/ unit.state \in {"inactive", "failed", "deactivating"})

Started ==
    /\ Client({"starting"})
    /\ \/ unit.state \in {"active", "reloading"} /\ client' = [client EXCEPT !.at = "check"]
       \/ /\ unit.state \in {"inactive", "failed"} /\ ~again
          /\ client' = [client EXCEPT !.at = "failed"]
    /\ UNCHANGED again

Connect ==
    /\ Client({"connect"})
    /\ client' = [client EXCEPT !.at = IF main # "off" /\ eng.listening
                                       THEN "connected" ELSE "refused"]
    /\ UNCHANGED again

-----------------------------------------------------------------------------

SystemdRests == UNCHANGED <<again, client, events>>

SystemdStep == (again /\ Launch) \/ HelperEnded

ClientStep == Exec \/ Ask \/ RunSystemctl \/ Started \/ Connect

Next == \/ ServiceNext /\ SystemdRests
        \/ Launch \/ Stop \/ Reload \/ HelperEnded \/ ReloadTimesOut
        \/ WatchdogExpires \/ Crash
        \/ \E s \in Signals : Signal(s)
        \/ ClientStep

Spec == Init /\ [][Next]_vars

\* The processes are scheduled, systemd does what it is asked to, and the
\* service closes what it left pending.  Nothing is assumed of timeouts but that
\* a D-Bus call has one.
FairSpec == /\ Spec
            /\ WF_vars(MainStep /\ SystemdRests)
            /\ WF_vars(HelperStep /\ SystemdRests)
            /\ WF_vars(RunService /\ SystemdRests)
            /\ WF_vars(SystemdStep)
            /\ WF_vars(ClientStep)
            /\ \A command \in {"Start", "Stop", "Reload"} :
                  WF_vars(UserEmit(command) /\ SystemdRests)

-----------------------------------------------------------------------------
(* Properties                                                               *)

\* The service runs, with the terminal server it asked for.
Runs == eng.isRunning /\ (eng.terminalActive => eng.listening)

\* A unit systemd shows as active has a service that runs, or one that leaves:
\* it was told to stop, or has failed to start and will end as failed.  onStarted
\* sends no READY=1 ahead of the engine, but the first one may be that of
\* onReloaded, for a service on its way out.
ActiveMeansRunning ==
    unit.state = "active" =>
        main = "loop" /\ (Runs \/ (leaving /\ (stopCalled \/ exitCode = 1)))

\* ExecStop= reports success only when the main process is leaving or gone,
\* whichever of the answer, the error and the removal it heard first.
StopHelperHonest ==
    helper.kind = "stop" /\ helper.at = "done" /\ helper.result = 0 =>
        leaving \/ main = "off"

\* The helper of ExecStop= ends, unless the main process halts itself meanwhile.
StopHelperEnds == (helper.kind = "stop") ~> (helper.kind # "stop" \/ halted)

\* A helper that waits for the answer of a process which has taken its call and
\* then ended: reload() does not watch the name on the bus.
Orphaned == /\ main = "off" /\ helper.kind = "reload"
            /\ helper.at = "waiting" /\ helper.mail = <<>>

\* Whether a signal, the service or the helper began a reload, the unit does not
\* stay in reloading, also when the process ends meanwhile, but for three ways of
\* losing the end of it: the engine ignored a command, the process is halted, the
\* helper is orphaned.
ReloadEnds ==
    (unit.state = "reloading") ~> (unit.state # "reloading" \/ ignored \/ halted \/ Orphaned)

\* A client gets an answer; its blocking start may have to wait for a service
\* that halts itself on its way out.
ClientAnswered ==
    (client.at = "exec") ~> \/ client.at \in {"connected", "refused", "failed"}
                            \/ halted /\ unit.state \in {"activating", "deactivating"}
=============================================================================
