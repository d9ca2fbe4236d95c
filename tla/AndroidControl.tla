--------------------------- MODULE AndroidControl ---------------------------
(***************************************************************************)
(* What AndroidServiceControl asks the system for, and how Android keeps a *)
(* service alive: it is destroyed when it is neither started nor bound.    *)
(***************************************************************************)
EXTENDS AndroidService

VARIABLES
    found,     \* what can be found for the service's id
    setting,   \* the component's enabled setting
    sent       \* how many intents were sent (bounded by MaxIntents)

controlVars == <<found, setting, sent>>
vars == <<serviceVars, controlVars>>

\* No class; a class, but no service of the manifest; or both.
Found == {"nothing", "class", "service"}

TypeOK == /\ ServiceTypeOK
          /\ found \in Found
          /\ setting \in [component : {"default", "enabled", "disabled"}, manifest : BOOLEAN]
          /\ sent \in 0..MaxIntents

Init == /\ ServiceInit
        /\ found \in Found
        /\ \E manifest \in BOOLEAN :
              setting = [component |-> "default", manifest |-> manifest]
        /\ sent = 0

-----------------------------------------------------------------------------

serviceComponent == found # "nothing"

serviceInfo == serviceComponent /\ found = "service"

serviceExists == serviceInfo

\* isEnabled(): a component that was never changed is what the manifest says.
IsEnabled == /\ serviceComponent
             /\ \/ setting.component = "enabled"
                \/ setting.component = "default" /\ serviceInfo /\ setting.manifest

\* setEnabled(), which Android refuses for a class that is no component.  Bound:
\* while no process lives; it would be killed.
SetEnabled(on) ==
    /\ serviceComponent /\ found = "service" /\ java = "none"
    /\ setting' = [setting EXCEPT !.component = IF on THEN "enabled" ELSE "disabled"]
    /\ UNCHANGED <<serviceVars, found, sent>>

\* Android brings up an enabled service, and one that is there until it is gone.
Reachable ==
    found = "service" /\ IsEnabled /\ java \in {"none", "idle", "starting", "callback"}

StartService ==
    /\ Reachable /\ sent < MaxIntents
    /\ sent' = sent + 1
    /\ started' = TRUE /\ intents' = intents + 1
    /\ UNCHANGED <<bound, javaVars, qt, queue, engineVars, found, setting>>

Start == serviceExists /\ StartService

Stop ==
    /\ serviceExists /\ started
    /\ StopSelf
    /\ UNCHANGED <<bound, intents, javaVars, qt, queue, engineVars, controlVars>>

\* It does not ask whether the service exists.
StartWithIntent == StartService

Bind(c) ==
    /\ serviceExists /\ Reachable /\ c \notin bound
    /\ bound' = bound \cup {c}
    /\ UNCHANGED <<started, intents, javaVars, qt, queue, engineVars, controlVars>>

Unbind(c) ==
    /\ c \in bound
    /\ bound' = bound \ {c}
    /\ UNCHANGED <<started, intents, javaVars, qt, queue, engineVars, controlVars>>

\* callGenericCommand(): one with arguments of the wrong kind does nothing.
callGenericCommand(c) == Bind(c) \/ Unbind(c) \/ StartWithIntent

-----------------------------------------------------------------------------

Next == \/ ServiceNext /\ UNCHANGED controlVars
        \/ Start \/ Stop
        \/ \E c \in Clients : callGenericCommand(c)
        \/ \E on \in BOOLEAN : SetEnabled(on)

Spec == Init /\ [][Next]_vars

\* Both threads are scheduled, and the service closes the stop it left pending.
FairSpec == /\ Spec
            /\ WF_vars(JavaStep /\ UNCHANGED controlVars)
            /\ WF_vars(QtStep /\ UNCHANGED controlVars)
            /\ WF_vars(UserEmit("Stop") /\ UNCHANGED controlVars)

-----------------------------------------------------------------------------
(* Properties                                                               *)

\* The callback onStartCommand runs only once the Qt thread has registered the
\* natives, however often the service is started.
CallbackWhenReady == java = "callback" => qt \in {"ready", "loop"}

\* Android does not take the service down before onStop has been called and has
\* finished, or its start has failed.
DestroyedWhenStopped ==
    java = "destroyed" => startupFailed \/ (stopCalled /\ "Stop" \notin awaiting)

\* onStartCommand returns, unless preStart has refused: nobody releases the
\* semaphore then, and the main thread of the application hangs.
StartCommandReturns == (java = "starting") ~> (java # "starting" \/ qt = "failed")

\* onDestroy returns, in whatever state the exit finds the service's start.
DestroyReturns == (java = "destroying") ~> (java = "destroyed")

\* The life of the process, as ServiceLifecycle describes it; a failed start is
\* only seen when the service is destroyed.
lifeState == IF java \in {"destroyed", "crashed"} \/ qt = "failed" THEN "exited"
             ELSE IF stopCalled THEN "stopping"
             ELSE IF qt # "loop" THEN "off"
             ELSE IF eng.isRunning THEN "running"
             ELSE "starting"

Lifecycle ==
    INSTANCE ServiceLifecycle
    WITH ExitCodes <- {0, 1}, state <- lifeState,
         code <- IF lifeState = "exited" /\ (startupFailed \/ ~stopCalled) THEN 1 ELSE 0

ImplementsLifecycle == Lifecycle!Spec
=============================================================================
