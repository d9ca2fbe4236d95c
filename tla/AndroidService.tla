--------------------------- MODULE AndroidService ---------------------------
(***************************************************************************)
(* A service under Android: the Java service, whose callbacks the main     *)
(* thread of the application runs, and the Qt thread with the event loop   *)
(* and the service's code.  Two semaphores of the Java service hold the    *)
(* main thread back: onStartCommand waits until the Qt thread has          *)
(* registered the natives, onDestroy until the service has stopped.        *)
(***************************************************************************)
EXTENDS Naturals, Sequences, EngineSteps

CONSTANTS Clients,      \* processes that may bind to the service
          MaxIntents    \* bound: how often it is started

ASSUME MaxIntentsAssumption == MaxIntents \in Nat

VARIABLES
    java,          \* where the main thread is in the Java service
    startSem,      \* _startSem
    exitSem,       \* _exitSem
    started,       \* Android: it was started, and not stopped since
    bound,         \* Android: the clients bound to it
    intents,       \* Android: starts it has still to deliver
    qt,            \* where the Qt thread is in runService
    queue,         \* calls posted to the event loop
    startupFailed, \* _startupFailed
    eng, awaiting, stopCalled   \* as in UnixService

androidVars == <<started, bound, intents>>
javaVars == <<java, startSem, exitSem>>
engineVars == <<eng, awaiting, stopCalled, startupFailed>>
serviceVars == <<androidVars, javaVars, qt, queue, engineVars>>

\* The exit code of a service is only logged.
Codes == {0}

ServiceTypeOK ==
    /\ java \in {"none", "idle", "starting", "callback", "destroying", "destroyed", "crashed"}
    /\ startSem \in 0..1
    /\ exitSem \in 0..2
    /\ started \in BOOLEAN
    /\ bound \subseteq Clients
    /\ intents \in 0..MaxIntents
    /\ qt \in {"off", "boot", "failed", "ready", "loop"}
    /\ queue \in Seq({"Start", "onExit"})
    /\ startupFailed \in BOOLEAN
    /\ eng \in Engine
    /\ awaiting \subseteq Commands
    /\ stopCalled \in BOOLEAN

ServiceInit ==
    /\ java = "none" /\ startSem = 0 /\ exitSem = 0
    /\ started = FALSE /\ bound = {} /\ intents = 0
    /\ qt = "off" /\ queue = <<>>
    /\ startupFailed = FALSE
    /\ eng = NewEngine(FALSE) /\ awaiting = {} /\ stopCalled = FALSE

-----------------------------------------------------------------------------
(* The main thread                                                          *)

\* Android creates the service for the first start or binding, and Qt its thread.
Create ==
    /\ java = "none" /\ (started \/ bound # {})
    /\ java' = "idle" /\ qt' = "boot"
    /\ UNCHANGED <<androidVars, startSem, exitSem, queue, engineVars>>

OnStartCommandAtOnce ==
    /\ java = "idle" /\ intents > 0
    /\ java' = "callback" /\ intents' = intents - 1
    /\ UNCHANGED <<started, bound, startSem, exitSem, qt, queue, engineVars>>

OnStartCommand ==
    /\ java = "idle" /\ intents > 0
    /\ java' = "starting" /\ intents' = intents - 1
    /\ UNCHANGED <<started, bound, startSem, exitSem, qt, queue, engineVars>>

CallStartCommandPeeks ==
    /\ java = "starting" /\ startSem > 0
    /\ java' = "callback"
    /\ UNCHANGED <<androidVars, startSem, exitSem, qt, queue, engineVars>>

\* _startSem.acquire(), and the native runs the callback, in this thread.
CallStartCommand ==
    /\ java = "starting" /\ startSem > 0
    /\ java' = "callback" /\ startSem' = startSem - 1
    /\ UNCHANGED <<androidVars, exitSem, qt, queue, engineVars>>

ReturnStartKeeps ==
    /\ java = "callback"
    /\ java' = "idle"
    /\ UNCHANGED <<androidVars, startSem, exitSem, qt, queue, engineVars>>

\* _startSem.release(), for the next start.
ReturnStart ==
    /\ java = "callback"
    /\ java' = "idle" /\ startSem' = startSem + 1
    /\ UNCHANGED <<androidVars, exitSem, qt, queue, engineVars>>

\* exitService() posts onExit.  A service that was only bound may be destroyed
\* before the native is registered: the call throws, and the process crashes.
OnDestroy ==
    /\ java = "idle" /\ ~started /\ bound = {} /\ intents = 0
    /\ IF qt \in {"boot", "failed"}
       THEN java' = "crashed" /\ qt' = "off" /\ UNCHANGED queue
       ELSE java' = "destroying" /\ queue' = Append(queue, "onExit") /\ UNCHANGED qt
    /\ UNCHANGED <<androidVars, startSem, exitSem, engineVars>>

Destroyed == java' = "destroyed" /\ qt' = "off"

DestroyedAtOnce ==
    /\ java = "destroying"
    /\ Destroyed
    /\ UNCHANGED <<androidVars, startSem, exitSem, queue, engineVars>>

\* _exitSem.acquire() and release(); then Qt is taken down.
ReturnDestroy ==
    /\ java = "destroying" /\ exitSem > 0
    /\ Destroyed
    /\ UNCHANGED <<androidVars, startSem, exitSem, queue, engineVars>>

-----------------------------------------------------------------------------
(* The Qt thread                                                            *)

\* preStart refuses: runService returns, and nativeReady() is never called.
PreStartFails ==
    /\ qt = "boot"
    /\ qt' = "failed"
    /\ UNCHANGED <<androidVars, javaVars, queue, engineVars>>

\* RegisterNatives, and nativeReady().
NativeReady ==
    /\ qt = "boot"
    /\ qt' = "ready" /\ startSem' = startSem + 1
    /\ UNCHANGED <<androidVars, java, exitSem, queue, engineVars>>

PostStart ==
    /\ qt = "ready"
    /\ qt' = "loop" /\ queue' = Append(queue, "Start")
    /\ UNCHANGED <<androidVars, javaVars, engineVars>>

\* stopSelf(), for quitService().
StopSelf == started' = FALSE

\* The slots onStarted, and onStopped, which calls nativeExited(): onExit
\* connects it, before any stopped() can be emitted.
React(emission, quits) ==
    LET failed == emission.signal = "started" /\ ~emission.success
    IN  /\ startupFailed' = (startupFailed \/ failed)
        /\ IF failed \/ quits THEN StopSelf ELSE UNCHANGED started
        /\ exitSem' = exitSem + (IF emission.signal = "stopped" THEN 1 ELSE 0)
        /\ UNCHANGED <<bound, intents, java, startSem>>

Issue(command) ==
    \E r \in Process(eng, command, Codes) :
       /\ eng' = r.eng
       /\ awaiting' = awaiting \cup r.pending
       /\ stopCalled' = (stopCalled \/ command = "Stop")
       /\ React(r.emission, r.quits)

HandleStart ==
    /\ qt = "loop" /\ queue # <<>> /\ Head(queue) = "Start"
    /\ queue' = Tail(queue)
    /\ Issue("Start")
    /\ UNCHANGED qt

OnExitForgetsFailure ==
    /\ qt = "loop" /\ queue # <<>> /\ Head(queue) = "onExit"
    /\ queue' = Tail(queue)
    /\ IF startupFailed THEN UNCHANGED <<androidVars, javaVars, engineVars>>
       ELSE Issue("Stop")
    /\ UNCHANGED qt

\* A service whose start has failed is not stopped.
OnExit ==
    /\ qt = "loop" /\ queue # <<>> /\ Head(queue) = "onExit"
    /\ queue' = Tail(queue)
    /\ IF startupFailed
       THEN exitSem' = exitSem + 1 /\ UNCHANGED <<androidVars, java, startSem, engineVars>>
       ELSE Issue("Stop")
    /\ UNCHANGED qt

UserEmit(command) ==
    /\ qt = "loop" /\ command \in awaiting
    /\ awaiting' = awaiting \ {command}
    /\ \E r \in Emits(eng, command, Codes) :
          eng' = r.eng /\ React(r.emission, FALSE)
    /\ UNCHANGED <<qt, queue, stopCalled>>

\* Service::quit() and Service::reload()
UserQuit ==
    /\ qt = "loop" /\ started
    /\ StopSelf
    /\ UNCHANGED <<bound, intents, javaVars, qt, queue, engineVars>>

UserReload == qt = "loop" /\ Issue("Reload") /\ UNCHANGED <<qt, queue>>

-----------------------------------------------------------------------------

JavaStep == \/ Create \/ OnStartCommand \/ CallStartCommand \/ ReturnStart
            \/ OnDestroy \/ ReturnDestroy

QtStep == NativeReady \/ PostStart \/ HandleStart \/ OnExit

ServiceNext == \/ JavaStep \/ QtStep \/ PreStartFails \/ UserQuit \/ UserReload
               \/ \E command \in Commands : UserEmit(command)
=============================================================================
