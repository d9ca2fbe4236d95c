---------------------------- MODULE EngineProofs ----------------------------
(***************************************************************************)
(* What the command engine guarantees whatever calls it: the lemmas about  *)
(* ServiceEngine and EngineSteps that the proofs of the backends share,    *)
(* and those about the queues of their event loops.                        *)
(***************************************************************************)
EXTENDS EngineSteps, SequenceTheorems, TLAPS

-----------------------------------------------------------------------------
(* The command engine                                                       *)

\* The terminal server of an engine is open exactly when the service is running
\* with its terminals on.
ServerMatches(e) == e.listening <=> e.isRunning /\ e.terminalActive

\* One lemma per function of the engine: it returns an engine, keeps the
\* terminal server in step, and changes the fields the invariant looks at so.

\* Entering a command sets `operating`, or finds it set.
LEMMA BeginFacts ==
    ASSUME NEW e \in Engine, NEW code \in Commands
    PROVE  /\ Begin(e, code) \in Engine
           /\ ServerMatches(e) => ServerMatches(Begin(e, code))
           /\ Begin(e, code).operating
           /\ Begin(e, code).isRunning = e.isRunning
           /\ Begin(e, code).wasPaused = e.wasPaused
  BY DEF Engine, Commands, Begin, Accepts, ServerMatches

LEMMA StartedFacts ==
    ASSUME NEW e \in Engine, NEW success \in BOOLEAN, NEW ok \in BOOLEAN
    PROVE  /\ OnSvcStarted(e, success, ok) \in Engine
           /\ ServerMatches(e) => ServerMatches(OnSvcStarted(e, success, ok))
           /\ OnSvcStarted(e, success, ok).isRunning <=> e.isRunning \/ success
           /\ OnSvcStarted(e, success, ok).wasPaused = e.wasPaused
  BY DEF Engine, OnSvcStarted, StartTerminals, Listens, ServerMatches

LEMMA StoppedFacts ==
    ASSUME NEW e \in Engine
    PROVE  /\ OnSvcStopped(e) \in Engine
           /\ ServerMatches(e) => ServerMatches(OnSvcStopped(e))
           /\ ~OnSvcStopped(e).isRunning
           /\ OnSvcStopped(e).wasPaused = e.wasPaused
  BY DEF Engine, OnSvcStopped, StopTerminals, ServerMatches

LEMMA ReloadedFacts ==
    ASSUME NEW e \in Engine, NEW success \in BOOLEAN
    PROVE  /\ OnSvcReloaded(e, success) \in Engine
           /\ ServerMatches(e) => ServerMatches(OnSvcReloaded(e, success))
           /\ OnSvcReloaded(e, success).isRunning = e.isRunning
           /\ OnSvcReloaded(e, success).wasPaused = e.wasPaused
  BY DEF Engine, OnSvcReloaded, ServerMatches

LEMMA PausedFacts ==
    ASSUME NEW e \in Engine, NEW success \in BOOLEAN
    PROVE  /\ OnSvcPaused(e, success) \in Engine
           /\ ServerMatches(e) => ServerMatches(OnSvcPaused(e, success))
           /\ OnSvcPaused(e, success).isRunning = e.isRunning
           /\ OnSvcPaused(e, success).wasPaused <=> e.wasPaused \/ success
  BY DEF Engine, OnSvcPaused, ServerMatches

LEMMA ResumedFacts ==
    ASSUME NEW e \in Engine, NEW success \in BOOLEAN
    PROVE  /\ OnSvcResumed(e, success) \in Engine
           /\ ServerMatches(e) => ServerMatches(OnSvcResumed(e, success))
           /\ OnSvcResumed(e, success).isRunning = e.isRunning
           /\ OnSvcResumed(e, success).wasPaused <=> e.wasPaused /\ ~success
  BY DEF Engine, OnSvcResumed, ServerMatches

\* Switching the terminals touches the terminals only.
LEMMA TerminalFacts ==
    ASSUME NEW e \in Engine, NEW on \in BOOLEAN, NEW ok \in BOOLEAN
    PROVE  /\ SetTerminalActive(e, on, ok) \in Engine
           /\ ServerMatches(e) => ServerMatches(SetTerminalActive(e, on, ok))
           /\ SetTerminalActive(e, on, ok).isRunning = e.isRunning
           /\ SetTerminalActive(e, on, ok).operating = e.operating
           /\ SetTerminalActive(e, on, ok).wasPaused = e.wasPaused
  BY DEF Engine, SetTerminalActive, StartTerminals, Listens,
         StopTerminals, ServerMatches

-----------------------------------------------------------------------------
(* The exit codes of a stop                                                 *)

\* stopped() never reports a code outside the service's own and EXIT_FAILURE.
LEMMA StopCodeClosed ==
    ASSUME NEW codes, 1 \in codes, NEW c \in codes, NEW result
    PROVE  StopCode(c, result) \in codes
  BY DEF StopCode

LEMMA StopCodesClosed ==
    ASSUME NEW codes
    PROVE  StopCodes(codes) \subseteq codes \cup {1}
  BY DEF StopCodes, StopCode

-----------------------------------------------------------------------------
(* Closing a command, and one call of processServiceCommand                 *)

\* What a slot makes of the engine, as far as the backends rely on it: the
\* engine is free again, and each command touches its own fields only.
Closes(e, command, f, emission) ==
    /\ f \in Engine /\ ServerMatches(f)
    /\ f.isRunning <=> \/ command # "Stop" /\ e.isRunning
                       \/ command = "Start" /\ emission.success
    /\ f.wasPaused <=> \/ ~(command = "Resume" /\ emission.success) /\ e.wasPaused
                       \/ command = "Pause" /\ emission.success

\* The emission that closes a command is that command's own.
LEMMA ClosingFacts ==
    ASSUME NEW command \in Commands, NEW codes,
           NEW emission \in Closing(command, codes)
    PROVE  /\ emission.signal = SignalOf[command]
           /\ emission.success \in BOOLEAN
           /\ command = "Stop" => emission.success /\ emission.code \in codes
  <1>1. CASE command = "Stop"
    <2>1. PICK c \in codes :
             emission = [signal |-> "stopped", success |-> TRUE, code |-> c]
      BY <1>1 DEF Closing
    <2> QED
      BY <1>1, <2>1 DEF SignalOf
  <1>2. CASE command # "Stop"
    <2>1. PICK b \in BOOLEAN :
             emission = [signal |-> SignalOf[command], success |-> b, code |-> 0]
      BY <1>2 DEF Closing
    <2> QED
      BY <1>2, <2>1
  <1> QED
    BY <1>1, <1>2

LEMMA SlotFacts ==
    ASSUME NEW e \in Engine, ServerMatches(e), NEW command \in Commands,
           NEW codes, NEW emission \in Closing(command, codes), NEW ok \in BOOLEAN
    PROVE  Closes(e, command, Slot(e, emission, ok), emission)
  <1> DEFINE f == Slot(e, emission, ok)
             success == emission.success
  <1>0. /\ success \in BOOLEAN
        /\ emission.signal = CASE command = "Start"  -> "started"
                               [] command = "Stop"   -> "stopped"
                               [] command = "Reload" -> "reloaded"
                               [] command = "Pause"  -> "paused"
                               [] command = "Resume" -> "resumed"
    BY ClosingFacts DEF SignalOf, Commands
  <1>1. CASE command = "Start"
    <2>1. f = OnSvcStarted(e, success, ok)
      BY <1>0, <1>1 DEF Slot
    <2> QED
      BY <1>0, <1>1, <2>1, StartedFacts DEF Closes
  <1>2. CASE command = "Stop"
    <2>1. f = OnSvcStopped(e)
      BY <1>0, <1>2 DEF Slot
    <2> QED
      BY <1>2, <2>1, StoppedFacts DEF Closes
  <1>3. CASE command = "Reload"
    <2>1. f = OnSvcReloaded(e, success)
      BY <1>0, <1>3 DEF Slot
    <2> QED
      BY <1>0, <1>3, <2>1, ReloadedFacts DEF Closes
  <1>4. CASE command = "Pause"
    <2>1. f = OnSvcPaused(e, success)
      BY <1>0, <1>4 DEF Slot
    <2> QED
      BY <1>0, <1>4, <2>1, PausedFacts DEF Closes
  <1>5. CASE command = "Resume"
    <2>1. f = OnSvcResumed(e, success)
      BY <1>0, <1>5 DEF Slot
    <2> QED
      BY <1>0, <1>5, <2>1, ResumedFacts DEF Closes
  <1> QED
    BY <1>1, <1>2, <1>3, <1>4, <1>5 DEF Commands

\* Whoever emits the signal that closes a command, and whenever.
LEMMA EmitsFacts ==
    ASSUME NEW e \in Engine, ServerMatches(e), NEW command \in Commands,
           NEW codes, NEW r \in Emits(e, command, codes)
    PROVE  /\ Closes(e, command, r.eng, r.emission)
           /\ r.emission.signal = SignalOf[command]
           /\ r.emission.success \in BOOLEAN
           /\ command = "Stop" => r.emission.success /\ r.emission.code \in codes
           /\ r.pending = {} /\ ~r.quits
  <1>1. PICK emission \in Closing(command, codes), ok \in BOOLEAN :
           r = [eng |-> Slot(e, emission, ok), emission |-> emission,
                pending |-> {}, quits |-> FALSE]
    BY DEF Emits
  <1> QED
    BY <1>1, SlotFacts, ClosingFacts

\* A call that leaves the command open: it was refused or skipped, or the
\* service answered with Pending.
LeavesOpen(e, command, r) ==
    /\ r.eng = Begin(e, command)
    /\ r.emission = Silent /\ ~r.quits
    /\ r.pending = IF Calls(e, command) THEN {command} ELSE {}

\* A call that closes it.
AnswersAtOnce(e, command, codes, r) ==
    /\ Calls(e, command)
    /\ Closes(e, command, r.eng, r.emission)
    /\ r.emission.signal = SignalOf[command]
    /\ r.emission.success \in BOOLEAN
    /\ command = "Stop" => r.emission.success /\ r.emission.code \in codes \cup {1}
    /\ r.pending = {}
    /\ r.quits => command = "Start" /\ r.emission.success

\* The answer that is given on the spot: what Emits makes of the engine that has
\* taken the command.
LEMMA AnswerFacts ==
    ASSUME NEW e \in Engine, ServerMatches(e), NEW command \in Commands,
           NEW codes, NEW r \in Emits(Begin(e, command), command, StopCodes(codes))
    PROVE  /\ Closes(e, command, r.eng, r.emission)
           /\ r.emission.signal = SignalOf[command]
           /\ r.emission.success \in BOOLEAN
           /\ command = "Stop" => r.emission.success /\ r.emission.code \in codes \cup {1}
           /\ r.pending = {} /\ ~r.quits
  <1>1. /\ Begin(e, command) \in Engine /\ ServerMatches(Begin(e, command))
        /\ Begin(e, command).isRunning = e.isRunning
        /\ Begin(e, command).wasPaused = e.wasPaused
    BY BeginFacts
  <1>2. /\ Closes(Begin(e, command), command, r.eng, r.emission)
        /\ r.emission.signal = SignalOf[command]
        /\ r.emission.success \in BOOLEAN
        /\ command = "Stop" => r.emission.success /\ r.emission.code \in StopCodes(codes)
        /\ r.pending = {} /\ ~r.quits
    BY <1>1, EmitsFacts
  <1>3. Closes(e, command, r.eng, r.emission)
    BY <1>1, <1>2 DEF Closes
  <1>4. command = "Stop" => r.emission.code \in codes \cup {1}
    BY <1>2, StopCodesClosed
  <1> QED
    BY <1>2, <1>3, <1>4

\* A command comes to one of the two.
LEMMA ProcessFacts ==
    ASSUME NEW e \in Engine, ServerMatches(e), NEW command \in Commands,
           NEW codes, NEW r \in Process(e, command, codes)
    PROVE  LeavesOpen(e, command, r) \/ AnswersAtOnce(e, command, codes, r)
  <1> DEFINE f == Begin(e, command)
             answered == Emits(f, command, StopCodes(codes))
  <1>1. CASE /\ ~Calls(e, command)
             /\ r = [eng |-> f, emission |-> Silent, pending |-> {}, quits |-> FALSE]
    BY <1>1 DEF LeavesOpen
  <1>2. CASE /\ Calls(e, command)
             /\ r = [eng |-> f, emission |-> Silent, pending |-> {command}, quits |-> FALSE]
    BY <1>2 DEF LeavesOpen
  <1>3. ASSUME Calls(e, command), NEW a \in answered,
               \/ r = a
               \/ r = [a EXCEPT !.quits = TRUE] /\ command = "Start" /\ a.emission.success
        PROVE  AnswersAtOnce(e, command, codes, r)
    <2>1. /\ Closes(e, command, a.eng, a.emission)
          /\ a.emission.signal = SignalOf[command]
          /\ a.emission.success \in BOOLEAN
          /\ command = "Stop" => a.emission.success /\ a.emission.code \in codes \cup {1}
          /\ a.pending = {} /\ ~a.quits
      BY AnswerFacts
    <2>2. PICK eng, emission, pending, quits :
             a = [eng |-> eng, emission |-> emission, pending |-> pending, quits |-> quits]
      BY DEF Emits
    <2>3. /\ r.eng = a.eng /\ r.emission = a.emission /\ r.pending = a.pending
          /\ \/ r.quits = a.quits
             \/ r.quits /\ command = "Start" /\ a.emission.success
      BY <1>3, <2>2
    <2> QED
      BY <1>3, <2>1, <2>3 DEF AnswersAtOnce
  <1>4. CASE Calls(e, command) /\ r \in answered
    BY <1>3, <1>4
  <1>5. CASE /\ Calls(e, command)
             /\ r \in {[a EXCEPT !.quits = TRUE] :
                         a \in {b \in answered : command = "Start" /\ b.emission.success}}
    BY <1>3, <1>5
  <1> QED
    BY <1>1, <1>2, <1>4, <1>5 DEF Process

-----------------------------------------------------------------------------
(* Queues                                                                   *)

Holds(q, x) == \E i \in 1..Len(q) : q[i] = x

Once(q, x) == \A i, j \in 1..Len(q) : q[i] = x /\ q[j] = x => i = j

NoDuplicates(q) == \A i, j \in 1..Len(q) : q[i] = q[j] => i = j

\* Posting what is not in the queue.
LEMMA PostFacts ==
    ASSUME NEW S, NEW q \in Seq(S), NEW x \in S
    PROVE  /\ Append(q, x) \in Seq(S)
           /\ \A y : Holds(Append(q, x), y) <=> Holds(q, y) \/ y = x
           /\ NoDuplicates(q) /\ ~Holds(q, x) => NoDuplicates(Append(q, x))
  <1>1. /\ Append(q, x) \in Seq(S)
        /\ Len(q) \in Nat
        /\ Len(Append(q, x)) = Len(q) + 1
        /\ \A i \in 1..Len(q) : Append(q, x)[i] = q[i]
        /\ Append(q, x)[Len(q) + 1] = x
    BY AppendProperties, LenProperties
  <1> QED
    BY <1>1 DEF Holds, NoDuplicates

\* Taking the next one.
LEMMA TakeFacts ==
    ASSUME NEW S, NEW q \in Seq(S), q # <<>>
    PROVE  /\ Tail(q) \in Seq(S)
           /\ Holds(q, Head(q))
           /\ \A y : Holds(q, y) <=> Holds(Tail(q), y) \/ y = Head(q)
           /\ NoDuplicates(q) => NoDuplicates(Tail(q)) /\ ~Holds(Tail(q), Head(q))
  <1> DEFINE t == Tail(q)
  <1>1. /\ t \in Seq(S) /\ Len(q) \in Nat \ {0} /\ Len(t) = Len(q) - 1
        /\ \A i \in 1..Len(t) : t[i] = q[i + 1]
        /\ Head(q) = q[1]
    BY HeadTailProperties, EmptySeq
  <1> HIDE DEF t
  <1>2. \A i \in 2..Len(q) : i - 1 \in 1..Len(t) /\ q[i] = t[i - 1]
    BY <1>1
  <1>3. \A i \in 1..Len(q) : i = 1 \/ i \in 2..Len(q)
    BY <1>1
  <1>4. \A y : Holds(q, y) <=> Holds(t, y) \/ y = Head(q)
    BY <1>1, <1>2, <1>3 DEF Holds
  <1>5. NoDuplicates(q) => NoDuplicates(t) /\ ~Holds(t, Head(q))
    BY <1>1 DEF Holds, NoDuplicates
  <1> QED
    BY <1>1, <1>4, <1>5 DEF t

\* What is posted twice only if it is there already.
LEMMA OnceFacts ==
    ASSUME NEW S, NEW q \in Seq(S), NEW y
    PROVE  /\ \A x \in S : Once(q, y) /\ (y = x => ~Holds(q, y)) => Once(Append(q, x), y)
           /\ q # <<>> /\ Once(q, y) => Once(Tail(q), y)
           /\ q # <<>> /\ Once(q, y) /\ Head(q) = y => ~Holds(Tail(q), y)
  <1>1. ASSUME NEW x \in S, Once(q, y), y = x => ~Holds(q, y)
        PROVE  Once(Append(q, x), y)
    <2>1. /\ Len(q) \in Nat
          /\ Len(Append(q, x)) = Len(q) + 1
          /\ \A i \in 1..Len(q) : Append(q, x)[i] = q[i]
          /\ Append(q, x)[Len(q) + 1] = x
      BY AppendProperties, LenProperties
    <2> QED
      BY <1>1, <2>1 DEF Holds, Once
  <1>2. ASSUME q # <<>>, Once(q, y)
        PROVE  Once(Tail(q), y) /\ (Head(q) = y => ~Holds(Tail(q), y))
    <2> DEFINE t == Tail(q)
    <2>1. /\ Len(q) \in Nat \ {0} /\ Len(t) = Len(q) - 1
          /\ \A i \in 1..Len(t) : t[i] = q[i + 1]
          /\ Head(q) = q[1]
      BY <1>2, HeadTailProperties, EmptySeq
    <2> HIDE DEF t
    <2>2. Once(t, y) /\ (Head(q) = y => ~Holds(t, y))
      BY <1>2, <2>1 DEF Holds, Once
    <2> QED
      BY <2>2 DEF t
  <1> QED
    BY <1>1, <1>2
=============================================================================
