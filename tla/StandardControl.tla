--------------------------- MODULE StandardControl ---------------------------
(***************************************************************************)
(* Processes of one service under the standard backend, and the processes  *)
(* that control it (StandardServiceControl), around the one file they      *)
(* share: qstandard.lock in the runtime directory.  The service holds it   *)
(* while it runs; a control learns the status by trying to take it, and    *)
(* finds the process to signal by reading the pid in it.                   *)
(*                                                                         *)
(* QLockFile is modelled by how the code uses it: tryLock succeeds when    *)
(* there is no file or the process that wrote it is dead (the stale lock   *)
(* *time* is disabled, the check of the pid is not).                       *)
(***************************************************************************)
EXTENDS Naturals

CONSTANTS Services,   \* processes of the service that may be launched
          Controls,   \* processes with a ServiceControl for it
          NoOne,      \* there is no lock file
          MaxCalls    \* bound: calls of start, stop, restart and status

ASSUME ProcessAssumption == /\ Services \cap Controls = {}
                            /\ NoOne \notin Services \cup Controls
ASSUME MaxCallsAssumption == MaxCalls \in Nat

VARIABLES
    lock,      \* whose pid is in the lock file
    svc,       \* how far each service process has come
    pc,        \* where each control is in its call
    op,        \* the call it is in
    target,    \* the pid getPid() returned to it
    waiting,   \* its restart() has armed the timer
    failed,    \* its startDetached has failed
    misled,    \* history: some status() took a control's lock for a service
    calls      \* how many calls were made (bounded by MaxCalls)

vars == <<lock, svc, pc, op, target, waiting, failed, misled, calls>>

controlVars == <<pc, op, target, waiting, failed, misled, calls>>

SvcStates == {"none",       \* not launched
              "booting",    \* running preStart, then waiting for the lock
              "locked",     \* holds the lock, signal handlers not installed
              "running",    \* in the event loop
              "stopping",   \* told to stop
              "unlocked",   \* aboutToQuit has released the lock
              "dead"}

Holding == {"locked", "running", "stopping"}

PcStates == {"idle", "ask", "hold", "spawn", "pid", "kill", "dead"}

Operations == {"status", "start", "stop", "restart"}

TypeOK == /\ lock \in Services \cup Controls \cup {NoOne}
          /\ svc \in [Services -> SvcStates]
          /\ pc \in [Controls -> PcStates]
          /\ op \in [Controls -> Operations \cup {"poll"}]
          /\ target \in [Controls -> Services \cup Controls \cup {NoOne}]
          /\ waiting \in [Controls -> BOOLEAN]
          /\ failed \in [Controls -> BOOLEAN]
          /\ misled \in BOOLEAN
          /\ calls \in 0..MaxCalls
          \* kill(-1, SIGTERM) would signal every process of the user.
          /\ \A c \in Controls : pc[c] = "kill" => target[c] # NoOne

Init == /\ lock = NoOne
        /\ svc = [s \in Services |-> "none"]
        /\ pc = [c \in Controls |-> "idle"]
        /\ op = [c \in Controls |-> "status"]
        /\ target = [c \in Controls |-> NoOne]
        /\ waiting = [c \in Controls |-> FALSE]
        /\ failed = [c \in Controls |-> FALSE]
        /\ misled = FALSE
        /\ calls = 0

Alive(p) == \/ p \in Services /\ svc[p] \notin {"none", "dead"}
            \/ p \in Controls /\ pc[p] # "dead"

LockFreeOnceOld == TRUE

\* QLockFile::tryLock succeeds: no file, or a stale one, which it removes.
LockFree == lock = NoOne \/ ~Alive(lock)

-----------------------------------------------------------------------------
(* The service process (standardservicebackend.cpp, runService)             *)

Become(s, state) == svc' = [svc EXCEPT ![s] = state]

\* preStart is run before the lock is taken, and may refuse.
PreStartFails(s) ==
    /\ svc[s] = "booting"
    /\ Become(s, "dead")
    /\ UNCHANGED <<lock, controlVars>>

TakeLockOrNot(s) ==
    /\ svc[s] = "booting"
    /\ lock' = IF LockFree THEN s ELSE lock
    /\ Become(s, "locked")
    /\ UNCHANGED controlVars

\* tryLock(5000): it gets the lock, or gives up while another process has it.
TakeLock(s) ==
    /\ svc[s] = "booting"
    /\ \/ LockFree /\ lock' = s /\ Become(s, "locked")
       \/ ~LockFree /\ Become(s, "dead") /\ UNCHANGED lock
    /\ UNCHANGED controlVars

\* The signal handlers are installed and the event loop starts.
EnterLoop(s) ==
    /\ svc[s] = "locked"
    /\ Become(s, "running")
    /\ UNCHANGED <<lock, controlVars>>

\* The service quits by itself.
QuitItself(s) ==
    /\ svc[s] = "running"
    /\ Become(s, "stopping")
    /\ UNCHANGED <<lock, controlVars>>

AboutToQuitKeepsLock(s) ==
    /\ svc[s] = "stopping"
    /\ Become(s, "unlocked")
    /\ UNCHANGED <<lock, controlVars>>

\* exec() ends: aboutToQuit releases the lock.
AboutToQuit(s) ==
    /\ svc[s] = "stopping"
    /\ Become(s, "unlocked")
    /\ lock' = NoOne
    /\ UNCHANGED controlVars

Exit(s) ==
    /\ svc[s] = "unlocked"
    /\ Become(s, "dead")
    /\ UNCHANGED <<lock, controlVars>>

\* The process dies where it is, and leaves its lock file behind.
Crash(s) ==
    /\ Alive(s)
    /\ Become(s, "dead")
    /\ UNCHANGED <<lock, controlVars>>

-----------------------------------------------------------------------------
(* The control (standardservicecontrol.cpp; restart() is the default one of *)
(* servicecontrol.cpp).  status() takes the lock and releases it again;     *)
(* other processes run between any two of its system calls.                 *)

Goto(c, label) == pc' = [pc EXCEPT ![c] = label]

Call(c, o) ==
    /\ pc[c] = "idle"
    /\ calls < MaxCalls
    /\ calls' = calls + 1
    /\ Goto(c, "ask") /\ op' = [op EXCEPT ![c] = o]
    /\ UNCHANGED <<lock, svc, target, waiting, failed, misled>>

\* The timer of a pending restart(), every second.
Poll(c) ==
    /\ pc[c] = "idle"
    /\ waiting[c]
    /\ Goto(c, "ask") /\ op' = [op EXCEPT ![c] = "poll"]
    /\ UNCHANGED <<lock, svc, target, waiting, failed, misled, calls>>

\* status(), first half.  Somebody has the lock: Running.  start() is content
\* with that, a pending restart waits on, stop() goes for the pid.
AskFails(c) ==
    /\ ~LockFree
    /\ misled' = (misled \/ lock \in Controls)
    /\ Goto(c, IF op[c] \in {"stop", "restart"} THEN "pid" ELSE "idle")
    /\ UNCHANGED lock

AskSucceeds(c) == LockFree /\ lock' = c /\ Goto(c, "hold") /\ UNCHANGED misled

Ask(c) ==
    /\ pc[c] = "ask"
    /\ AskFails(c) \/ AskSucceeds(c)
    /\ UNCHANGED <<svc, op, target, waiting, failed, calls>>

AnswerStoppedOnce(c) ==
    /\ pc[c] = "hold"
    /\ lock' = NoOne
    /\ Goto(c, IF op[c] = "start" THEN "spawn" ELSE "idle")
    /\ waiting' = [waiting EXCEPT ![c] = (@ \/ op[c] = "restart") /\ op[c] # "poll"]
    /\ UNCHANGED <<svc, op, target, failed, misled, calls>>

\* status(), second half: the lock is released, Stopped.  start() launches the
\* service; the timer of restart() calls start(), which asks again; stop() is
\* done, and restart() arms its timer.
AnswerStopped(c) ==
    /\ pc[c] = "hold"
    /\ lock' = NoOne
    /\ Goto(c, IF op[c] = "start" THEN "spawn"
               ELSE IF op[c] = "poll" THEN "ask" ELSE "idle")
    /\ op' = IF op[c] = "poll" THEN [op EXCEPT ![c] = "start"] ELSE op
    /\ waiting' = [waiting EXCEPT ![c] = (@ \/ op[c] = "restart") /\ op[c] # "poll"]
    /\ UNCHANGED <<svc, target, failed, misled, calls>>

\* startDetached
Spawn(c) ==
    /\ pc[c] = "spawn"
    /\ Goto(c, "idle")
    /\ \/ /\ \E s \in Services : svc[s] = "none" /\ Become(s, "booting")
          /\ UNCHANGED failed
       \/ failed' = [failed EXCEPT ![c] = TRUE] /\ UNCHANGED svc
    /\ UNCHANGED <<lock, op, target, waiting, misled, calls>>

GetPidUnchecked(c) ==
    /\ pc[c] = "pid"
    /\ Goto(c, "kill")
    /\ target' = [target EXCEPT ![c] = lock]
    /\ UNCHANGED <<lock, svc, op, waiting, failed, misled, calls>>

\* getPid() reads the lock file, whosever it is by now; without one it is -1
\* and stop() fails.
GetPid(c) ==
    /\ pc[c] = "pid"
    /\ Goto(c, IF lock = NoOne THEN "idle" ELSE "kill")
    /\ target' = [target EXCEPT ![c] = lock]
    /\ UNCHANGED <<lock, svc, op, waiting, failed, misled, calls>>

\* What SIGTERM does to a service: without handlers it dies, in the event loop
\* it stops; later it is too late to matter.
AfterTerm(state) == CASE state = "locked" -> "dead"
                      [] state = "running" -> "stopping"
                      [] OTHER -> state

\* kill(pid, SIGTERM); it fails for a dead process, and a restart() with it.
Kill(c) ==
    /\ pc[c] = "kill"
    /\ LET t == target[c]
       IN  /\ svc' = IF t \in Services THEN [svc EXCEPT ![t] = AfterTerm(@)] ELSE svc
           /\ pc' = IF t \in Controls THEN [pc EXCEPT ![c] = "idle", ![t] = "dead"]
                    ELSE [pc EXCEPT ![c] = "idle"]
           /\ waiting' = [waiting EXCEPT
                            ![c] = @ \/ (op[c] = "restart" /\ Alive(t))]
    /\ UNCHANGED <<lock, op, target, failed, misled, calls>>

-----------------------------------------------------------------------------

ServiceStep(s) == \/ PreStartFails(s) \/ TakeLock(s) \/ EnterLoop(s)
                  \/ QuitItself(s) \/ AboutToQuit(s) \/ Exit(s) \/ Crash(s)

ControlStep(c) == Ask(c) \/ AnswerStopped(c) \/ Spawn(c) \/ GetPid(c) \/ Kill(c)

Next == \/ \E s \in Services : ServiceStep(s)
        \/ \E c \in Controls :
              ControlStep(c) \/ Poll(c) \/ \E o \in Operations : Call(c, o)

Spec == Init /\ [][Next]_vars

\* Processes are scheduled, timers fire, and a service that is told to stop does.
FairSpec == /\ Spec
            /\ \A s \in Services : /\ WF_vars(TakeLock(s))
                                   /\ WF_vars(EnterLoop(s))
                                   /\ WF_vars(AboutToQuit(s))
                                   /\ WF_vars(Exit(s))
            /\ \A c \in Controls : WF_vars(ControlStep(c)) /\ WF_vars(Poll(c))

-----------------------------------------------------------------------------
(* Properties                                                               *)

\* Two service processes are never past the lock at once, whatever crashes,
\* stale locks and status() calls do to the file in between.
OneInstance ==
    \A s, t \in Services : svc[s] \in Holding /\ svc[t] \in Holding => s = t

\* The lock file of a live process is there for a reason: the service runs, or
\* a status() call is between its tryLock and its unlock.  Neither leaks it, so
\* a stopped service is never reported as running for good.
LockIsMeant ==
    /\ lock \in Services /\ Alive(lock) => svc[lock] \in Holding
    /\ lock \in Controls /\ Alive(lock) => pc[lock] = "hold"

\* The lock file implements the promise of a single instance.
Instance == INSTANCE SingleInstance
            WITH Process <- Services, active <- {s \in Services : svc[s] \in Holding}

ImplementsSingleInstance == Instance!Spec

\* A restart() that was accepted brings the service back: its timer sees the
\* old process go and launches a new one, unless the launch itself fails, the
\* control dies, or a status() call of another control got in the way.
RestartLaunches ==
    \A c \in Controls :
        waiting[c] ~> \/ \E s \in Services : svc[s] \in {"booting", "locked", "running"}
                      \/ failed[c] \/ misled \/ pc[c] = "dead"

-----------------------------------------------------------------------------
(* A statement of the documentation that the code does not keep             *)

\* backends.dox:32,38: getPid() "Returns the PID auf the currently running
\* instance, or -1 if none is running", and "Stopping is done by sending a signal
\* to the service": the pid stop() signals is that of a process of the service.
StopSignalsService == \A c \in Controls : pc[c] = "kill" => target[c] \in Services
=============================================================================
