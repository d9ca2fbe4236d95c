----------------------------- MODULE EngineSteps -----------------------------
(***************************************************************************)
(* One call of processServiceCommand as the set of things it may come to,  *)
(* for the backends that react to the service's signals with slots of      *)
(* their own (Windows, systemd, Android).  The answer of the service's     *)
(* handler is the choice; ServiceEngine says what the engine makes of it.  *)
(***************************************************************************)
EXTENDS ServiceEngine

\* What the service emits; `code` is the exit code of stopped().
Emission == [signal : {"none", "started", "stopped", "reloaded", "paused", "resumed"},
             success : BOOLEAN, code : Nat]

Silent == [signal |-> "none", success |-> FALSE, code |-> 0]

SignalOf == [Start |-> "started", Stop |-> "stopped", Reload |-> "reloaded",
             Pause |-> "paused", Resume |-> "resumed"]

\* The emissions that close a command; `codes` are the exit codes of the service.
Closing(command, codes) ==
    IF command = "Stop"
    THEN {[signal |-> "stopped", success |-> TRUE, code |-> c] : c \in codes}
    ELSE {[signal |-> SignalOf[command], success |-> b, code |-> 0] : b \in BOOLEAN}

\* The engine after its slot has run; `ok`: a terminal server can listen.
Slot(e, emission, ok) ==
    CASE emission.signal = "started"  -> OnSvcStarted(e, emission.success, ok)
      [] emission.signal = "stopped"  -> OnSvcStopped(e)
      [] emission.signal = "reloaded" -> OnSvcReloaded(e, emission.success)
      [] emission.signal = "paused"   -> OnSvcPaused(e, emission.success)
      [] emission.signal = "resumed"  -> OnSvcResumed(e, emission.success)

\* The service emits the signal that closes `command`, at any time.
Emits(e, command, codes) ==
    {[eng |-> Slot(e, emission, ok), emission |-> emission,
      pending |-> {}, quits |-> FALSE]
         : emission \in Closing(command, codes), ok \in BOOLEAN}

StopCodes(codes) == {StopCode(c, r) : c \in codes, r \in {"Completed", "Failed"}}

\* processServiceCommand(command) on the engine e: refused or skipped; left
\* pending; answered at once; or, for Start only, answered with Exit, after
\* which the backend is told to quit.
Process(e, command, codes) ==
    LET f == Begin(e, command)
        left(pending) == [eng |-> f, emission |-> Silent,
                          pending |-> pending, quits |-> FALSE]
        answered == Emits(f, command, StopCodes(codes))
    IN  IF ~Calls(e, command) THEN {left({})}
        ELSE {left({command})} \cup answered
             \cup {[r EXCEPT !.quits = TRUE] :
                      r \in {a \in answered : command = "Start" /\ a.emission.success}}
=============================================================================
