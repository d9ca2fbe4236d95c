--------------------------- MODULE WindowsControl ---------------------------
(***************************************************************************)
(* The service manager's view of one service, and the processes that       *)
(* control it (WindowsServiceControl).  Start, stop, pause and resume are  *)
(* one call of the manager each.  What is configured is one value, the     *)
(* start type, which enableAutostart, disableAutostart and setEnabled read *)
(* in one call and write in a later one; a read that fails has a default.  *)
(***************************************************************************)
EXTENDS WindowsService

CONSTANTS Callers,    \* processes with a ServiceControl for it
          MaxCalls    \* bound: calls they make

ASSUME MaxCallsAssumption == MaxCalls \in Nat

VARIABLES
    startType,   \* dwStartType in the manager's configuration
    caller,      \* the call a caller is in: where it is, which operation, and
                 \* the start type its isEnabled() has read, "unknown" if it failed
    calls        \* how many calls were made (bounded by MaxCalls)

callerVars == <<startType, caller>>
vars == <<serviceVars, callerVars, calls>>

StartTypes == {"auto", "demand", "disabled"}

Configuring == {"enableAutostart", "disableAutostart", "enable", "disable"}

Call == [at : {"idle", "enabled?", "auto?", "write"},
         op : Configuring, saw : StartTypes \cup {"unknown"}]

Idle == [at |-> "idle", op |-> "enable", saw |-> "unknown"]

TypeOK == /\ ServiceTypeOK
          /\ startType \in StartTypes
          /\ caller \in [Callers -> Call]
          /\ calls \in 0..MaxCalls

Init == /\ ServiceInit
        /\ startType \in {"auto", "demand"}
        /\ caller = [c \in Callers |-> Idle]
        /\ calls = 0

-----------------------------------------------------------------------------
(* start, stop, pause, resume; the system itself starts an autostart        *)
(* service and stops every service when it shuts down.                      *)

Budget == calls < MaxCalls /\ calls' = calls + 1

\* A disabled service cannot be started; start() of a running one is true
\* without a change.  Bound: no call to configure it is under way, and none is
\* begun while the process lives: the start is all the two have in common.
Start == /\ startType # "disabled" /\ Budget
         /\ \A c \in Callers : caller[c] = Idle
         /\ Launch /\ UNCHANGED callerVars

SystemStarts == /\ startType = "auto"
                /\ \A c \in Callers : caller[c] = Idle
                /\ Launch /\ UNCHANGED <<callerVars, calls>>

Send(code) == AcceptsControls /\ Budget /\ Control(code) /\ UNCHANGED callerVars

SystemStops == Budget /\ Shutdown /\ UNCHANGED callerVars

-----------------------------------------------------------------------------
(* The configuration                                                        *)

Become(c, call) == caller' = [caller EXCEPT ![c] = IF call.at = "idle" THEN Idle ELSE call]

Configure(c, o) ==
    /\ caller[c] = Idle /\ main = "off" /\ Budget
    /\ Become(c, [at |-> "enabled?", op |-> o, saw |-> "unknown"])
    /\ UNCHANGED <<serviceVars, startType>>

\* "assume enabled by default"
IsEnabled(read) == read # "disabled"

NextStepUnchecked(o, read) ==
    CASE o = "enableAutostart"  -> IF IsEnabled(read) THEN "auto?" ELSE "idle"
      [] o = "disableAutostart" -> "write"
      [] o = "enable"           -> IF IsEnabled(read) THEN "idle" ELSE "write"
      [] o = "disable"          -> IF IsEnabled(read) THEN "write" ELSE "idle"

NextStep(o, read) ==
    CASE o = "enableAutostart"  -> IF IsEnabled(read) THEN "auto?" ELSE "idle"
      [] o = "disableAutostart" -> IF IsEnabled(read) THEN "write" ELSE "idle"
      [] o = "enable"           -> IF IsEnabled(read) THEN "idle" ELSE "write"
      [] o = "disable"          -> IF IsEnabled(read) THEN "write" ELSE "idle"

AskEnabled(c) ==
    /\ caller[c].at = "enabled?"
    /\ \E read \in {startType, "unknown"} :
          Become(c, [caller[c] EXCEPT !.at = NextStep(caller[c].op, read), !.saw = read])
    /\ UNCHANGED <<serviceVars, startType, calls>>

\* isAutostartEnabled() is false when the query fails.
AskAutostart(c) ==
    /\ caller[c].at = "auto?"
    /\ \E read \in {startType, "unknown"} :
          Become(c, [caller[c] EXCEPT !.at = IF read = "auto" THEN "idle" ELSE "write"])
    /\ UNCHANGED <<serviceVars, startType, calls>>

Written == [enableAutostart |-> "auto", disableAutostart |-> "demand",
            enable |-> "demand", disable |-> "disabled"]

\* The handle cannot be opened or the change is refused, or it is made.
Write(c) ==
    /\ caller[c].at = "write"
    /\ startType' \in {startType, Written[caller[c].op]}
    /\ Become(c, Idle)
    /\ UNCHANGED <<serviceVars, calls>>

-----------------------------------------------------------------------------

CallerStep(c) == AskEnabled(c) \/ AskAutostart(c) \/ Write(c)

Next == \/ ServiceNext /\ UNCHANGED <<callerVars, calls>>
        \/ Start \/ SystemStarts \/ SystemStops
        \/ \E code \in Controls : Send(code)
        \/ \E c \in Callers : CallerStep(c) \/ \E o \in Configuring : Configure(c, o)

Spec == Init /\ [][Next]_vars

CallersRest == UNCHANGED <<callerVars, calls>>

\* The threads are scheduled; main's wait ends after 20 seconds; the event loop
\* serves its events though the timer fires now and then (strong fairness, as
\* its slot keeps the loop busy); the service closes what it left pending.
FairSpec == /\ Spec
            /\ WF_vars((MainStep \/ GiveUp) /\ CallersRest)
            /\ WF_vars(CtlStep /\ CallersRest)
            /\ WF_vars(HandlerStep /\ CallersRest)
            /\ SF_vars((HandleCommand \/ LoopReturn) /\ CallersRest)
            /\ SF_vars(UserEmit("Stop") /\ CallersRest)
            /\ SF_vars((UserEmit("Pause") \/ UserEmit("Resume")) /\ CallersRest)

-----------------------------------------------------------------------------
(* Properties                                                               *)

\* What status() makes of the SCM's record.
StatusReported == IF status = STOPPED
                  THEN IF failure THEN "Errored" ELSE "Stopped"
                  ELSE "alive"

\* Until the service is told to stop, a settled state the manager knows is the
\* engine's: a late answer, an ignored command, or a state the timer has read
\* and reports again never makes a paused service look running or reverse.
ReportedStateTrue ==
    ~stopCalled => /\ status = RUNNING => eng.isRunning /\ ~eng.wasPaused
                   /\ status = PAUSED => eng.wasPaused

\* While a pending state is reported to the manager the timer is running that
\* tells it the service is alive, whatever the states before it did to the timer.
HeartbeatWhilePending == main \in {"loop", "timer"} /\ status \in Pending => opTimer

\* In the end the manager shows the service as failed exactly when it chose a
\* failing exit code, unless a control code overtook the final report: its
\* pending state then replaces STOPPED, and the end looks like a crash.
EndReported ==
    main = "dead" => \/ StatusReported = IF exitCode = 0 THEN "Stopped" ELSE "Errored"
                     \/ "overtaken" \in slips

Writes(c, o) == /\ caller[c].at = "write" /\ caller'[c] = Idle
                /\ caller[c].op = o \/ caller[c].saw # startType

\* "do not change anything on a disabled service": only setEnabled(true) enables
\* it again, and enabling takes no autostart away.  Excused is a caller whose
\* question failed or was answered before another caller's change.
StartTypeRespected ==
    [][/\ startType = "disabled" /\ startType' # "disabled" =>
             \E c \in Callers : Writes(c, "enable")
       /\ startType = "auto" /\ startType' = "demand" =>
             \E c \in Callers : Writes(c, "disableAutostart")]_vars

\* A service whose arguments were passed on does get its Start, or its process
\* ends, also when they were passed before the main thread waited for them; unless
\* the main thread has woken the control thread before that one waited.
StartArrives == (ctl = "passed") ~> (ctl = "done" \/ main = "dead" \/ "wake" \in slips)

\* A stop the manager sends ends the process, also when it comes before Start.
StopEnds == (handler = "STOP") ~> (main = "dead")

\* A pending state the handler announced does not last, unless the engine has
\* ignored a command that had been announced.
PendingResolves ==
    (status \in {PAUSE_PENDING, CONTINUE_PENDING})
        ~> (status \notin {PAUSE_PENDING, CONTINUE_PENDING} \/ "ignored" \in slips)

\* The life of the process, as ServiceLifecycle describes it.
lifeState == IF main = "dead" THEN "exited"
             ELSE IF main \notin {"loop", "timer", "returned", "ended"} THEN "off"
             ELSE IF stopCalled THEN "stopping"
             ELSE IF eng.isRunning THEN "running"
             ELSE "starting"

Lifecycle == INSTANCE ServiceLifecycle
             WITH state <- lifeState, code <- IF main = "dead" THEN exitCode ELSE 0

ImplementsLifecycle == Lifecycle!Spec
=============================================================================
