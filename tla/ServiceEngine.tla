---------------------------- MODULE ServiceEngine ----------------------------
(***************************************************************************)
(* The command engine every backend shares: ServiceBackend::               *)
(* processServiceCommand, the five slots that close a command, and the     *)
(* start and stop of the terminal server that hang on them                 *)
(* (src/src/service/servicebackend.cpp, service.cpp).                      *)
(*                                                                         *)
(* The engine has no thread and no state machine of its own: a backend     *)
(* calls it, and the service's own code closes what it left pending.  So   *)
(* this module holds the engine's state as one record and what each of its *)
(* functions makes of it; the backend modules turn those into actions.     *)
(***************************************************************************)

EXTENDS Naturals

Commands == {"Start", "Stop", "Reload", "Pause", "Resume"}

Engine == [operating : BOOLEAN,       \* ServiceBackendPrivate::operating
           isRunning : BOOLEAN,       \* ServicePrivate::isRunning
           wasPaused : BOOLEAN,       \* ServicePrivate::wasPaused
           terminalActive : BOOLEAN,  \* ServicePrivate::terminalActive
           listening : BOOLEAN]       \* termServer->isRunning()

\* A service that was just constructed; its constructor may have switched the
\* terminals on.
NewEngine(active) == [operating |-> FALSE, isRunning |-> FALSE,
                      wasPaused |-> FALSE, terminalActive |-> active,
                      listening |-> FALSE]

-----------------------------------------------------------------------------
(* The terminal server                                                      *)

\* TerminalServer::start, on a name (again after a stale one was removed) or an
\* activated socket: `ok` is what QLocalServer answers in the end.  A server that
\* listens refuses to listen again but is still listening.
Listens(e, ok) == ok \/ e.listening

\* startTerminals(): when the server does not listen, the terminals are switched
\* off.
StartTerminals(e, ok) ==
    IF e.terminalActive /\ e.isRunning
    THEN [e EXCEPT !.terminalActive = Listens(e, ok), !.listening = Listens(e, ok)]
    ELSE e

StopTerminals(e) == [e EXCEPT !.listening = FALSE]

\* Service::setTerminalActive
SetTerminalActive(e, on, ok) ==
    LET f == [e EXCEPT !.terminalActive = on]
    IN  IF e.terminalActive = on THEN e
        ELSE IF on THEN StartTerminals(f, ok)
        ELSE StopTerminals(f)

-----------------------------------------------------------------------------
(* Entering a command                                                       *)

AcceptsAnything(e, code) == TRUE

\* Every command but Stop is refused while another one is being processed.
Accepts(e, code) == ~e.operating \/ code = "Stop"

\* The service's handler is called: Pause and Resume look at wasPaused first.
Calls(e, code) == /\ Accepts(e, code)
                  /\ code = "Pause" => ~e.wasPaused
                  /\ code = "Resume" => e.wasPaused

\* The engine when the handler is called, or when it is not called and the
\* function returns: an accepted command sets `operating` in both cases.
Begin(e, code) == IF Accepts(e, code) THEN [e EXCEPT !.operating = TRUE] ELSE e

StopCodeOffByOne(c, result) == IF result = "Failed" THEN c + 1 ELSE c

\* The code stopped() reports: a failed onStop never reports success.
StopCode(c, result) == IF result = "Failed" /\ c = 0 THEN 1 ELSE c

-----------------------------------------------------------------------------
(* Closing a command: the slots of Service::started ... Service::paused     *)

OnSvcStarted(e, success, ok) ==
    LET f == [e EXCEPT !.operating = FALSE]
    IN  IF success THEN StartTerminals([f EXCEPT !.isRunning = TRUE], ok) ELSE f

OnSvcStoppedKeepsServer(e) == [e EXCEPT !.operating = FALSE, !.isRunning = FALSE]

OnSvcStopped(e) ==
    [StopTerminals([e EXCEPT !.operating = FALSE]) EXCEPT !.isRunning = FALSE]

OnSvcReloadedSetsRunning(e, success) ==
    [e EXCEPT !.operating = FALSE, !.isRunning = success]

OnSvcReloaded(e, success) == [e EXCEPT !.operating = FALSE]

OnSvcResumed(e, success) ==
    [e EXCEPT !.operating = FALSE, !.wasPaused = e.wasPaused /\ ~success]

OnSvcPausedForgets(e, success) == [e EXCEPT !.operating = FALSE]

OnSvcPaused(e, success) ==
    [e EXCEPT !.operating = FALSE, !.wasPaused = e.wasPaused \/ success]
=============================================================================
