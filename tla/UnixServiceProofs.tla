-------------------------- MODULE UnixServiceProofs --------------------------
(***************************************************************************)
(* What UnixService guarantees for every set of exit codes and every       *)
(* number of signals.                                                      *)
(***************************************************************************)
EXTENDS UnixService, EngineProofs, FiniteSetTheorems, SequenceTheorems

-----------------------------------------------------------------------------
(* The inductive invariant                                                  *)

\* Before the event loop has run Start nothing has happened yet.
NothingYet ==
    phase \in {"boot", "starting"} =>
        /\ ~eng.isRunning /\ ~eng.operating
        /\ awaiting = {} /\ ~stopCalled /\ ~leaving
        /\ (phase = "boot" => exitCode = 0)

\* Only a process in its event loop can be stopped by SIGSTOP.
HaltedInLoop == halted => phase = "loop"

\* stopped() is only awaited from a service that was told to stop.
AwaitedStop == "Stop" \in awaiting => stopCalled

\* A service that leaves without having been told to failed to start.
LeavesForAReason ==
    ~stopCalled =>
        /\ leaving => exitCode = 1 /\ ~eng.isRunning /\ "Start" \notin awaiting
        /\ "Start" \in awaiting => ~eng.isRunning

IInv == /\ TypeOK
        /\ ServerMatches(eng)
        /\ OneCommandAtATime
        /\ HaltedOnlyWhenPaused
        /\ NothingYet
        /\ HaltedInLoop
        /\ AwaitedStop
        /\ LeavesForAReason

\* An order in which the kernel delivers a finite set of signals is a sequence.
LEMMA OrderIsSequence ==
    ASSUME NEW S, IsFiniteSet(S), NEW order \in SetToSeqs(S)
    PROVE  order \in Seq(S)
  <1>1. Cardinality(S) \in Nat
    BY FS_CardinalityType
  <1>2. order \in [1..Cardinality(S) -> S]
    BY DEF SetToSeqs
  <1> QED
    BY <1>1, <1>2, SeqDef

LEMMA ContinueQueue ==
    ASSUME TypeOK, NEW order \in SetToSeqs((kpend \ {"TSTP"}) \cup {"CONT"})
    PROVE  queue \o order \in Seq(Signals)
  <1> DEFINE S == (kpend \ {"TSTP"}) \cup {"CONT"}
  <1>1. S \subseteq Signals
    BY DEF TypeOK, Signals
  <1>2. IsFiniteSet(Signals)
    <2>1. Signals = (({"TERM"} \cup {"HUP"}) \cup {"TSTP"}) \cup {"CONT"}
      BY DEF Signals
    <2> QED
      BY <2>1, FS_Singleton, FS_Union
  <1>3. IsFiniteSet(S)
    BY <1>1, <1>2, FS_Subset
  <1>4. order \in Seq(S)
    BY <1>3, OrderIsSequence
  <1>5. order \in Seq(Signals)
    BY <1>1, <1>4, SeqMonotonic
  <1> QED
    BY <1>5, ConcatProperties DEF TypeOK

-----------------------------------------------------------------------------
(* Each step keeps the invariant                                            *)

LEMMA InitInv == Init => IInv
  <1> SUFFICES ASSUME Init PROVE IInv
    OBVIOUS
  <1>1. PICK active \in BOOLEAN : eng = NewEngine(active)
    BY DEF Init
  <1>2. /\ eng \in Engine /\ ServerMatches(eng)
        /\ ~eng.operating /\ ~eng.isRunning
    BY <1>1 DEF NewEngine, Engine, ServerMatches
  <1>3. queue \in Seq(Signals) /\ sent \in 0..MaxSignals /\ exitCode \in ExitCodes
    BY EmptySeq, ExitCodesAssumption, MaxSignalsAssumption DEF Init
  <1>4. TypeOK
    BY <1>2, <1>3 DEF Init, TypeOK
  <1> QED
    BY <1>2, <1>4
    DEF Init, IInv, OneCommandAtATime, HaltedOnlyWhenPaused, NothingYet,
        HaltedInLoop, AwaitedStop, LeavesForAReason

\* A Stop leaves a sound engine and marks the service as told to stop, so the
\* clauses about services that were not told to stop no longer apply.
LEMMA ProcessStopFacts ==
    ASSUME TypeOK, NEW e \in Engine, ServerMatches(e), ProcessStop(e)
    PROVE  /\ eng' \in Engine /\ ServerMatches(eng')
           /\ eng'.wasPaused = e.wasPaused
           /\ awaiting' \subseteq Commands
           /\ stopCalled' = TRUE
           /\ leaving' \in BOOLEAN /\ exitCode' \in ExitCodes
           /\ halted' = halted
  <1> DEFINE b == Begin(e, "Stop")
  <1>0. "Stop" \in Commands
    BY DEF Commands
  <1>1. b \in Engine /\ ServerMatches(b) /\ b.wasPaused = e.wasPaused
    BY <1>0, BeginFacts
  <1>2. /\ OnSvcStopped(b) \in Engine /\ ServerMatches(OnSvcStopped(b))
        /\ OnSvcStopped(b).wasPaused = e.wasPaused
    BY <1>1, StoppedFacts
  <1>3. CASE eng' = b /\ awaiting' = awaiting \cup {"Stop"} /\ UNCHANGED loopVars
    BY <1>0, <1>1, <1>3 DEF TypeOK, ProcessStop, loopVars
  <1>4. CASE \E code \in ExitCodes, result \in {"Completed", "Failed"} :
               Stopped(b, StopCode(code, result)) /\ UNCHANGED awaiting
    BY <1>2, <1>4, ExitCodesAssumption, StopCodeClosed DEF TypeOK, ProcessStop, Stopped
  <1> QED
    BY <1>3, <1>4 DEF ProcessStop

\* Reload, Pause and Resume leave a sound engine, keep isRunning, and let the
\* process halt only as a paused one.
LEMMA ProcessOtherFacts ==
    ASSUME TypeOK, ServerMatches(eng), ~halted,
           NEW code \in {"Reload", "Pause", "Resume"}, ProcessOther(code)
    PROVE  /\ eng' \in Engine /\ ServerMatches(eng')
           /\ eng'.isRunning = eng.isRunning
           /\ halted' \in BOOLEAN /\ (halted' => eng'.wasPaused)
           /\ UNCHANGED <<leaving, exitCode, stopCalled>>
           /\ \/ awaiting' = awaiting
              \/ ~eng.operating /\ eng'.operating /\ awaiting' = awaiting \cup {code}
           /\ awaiting' # {} => awaiting # {} \/ eng'.operating
           /\ awaiting' = awaiting /\ eng.operating => eng'.operating
  <1> DEFINE b == Begin(eng, code)
  <1>0. code \in Commands /\ eng \in Engine
    BY DEF Commands, TypeOK
  <1>1. /\ b \in Engine /\ ServerMatches(b) /\ b.operating
        /\ b.isRunning = eng.isRunning
    BY <1>0, BeginFacts
  <1>2. ASSUME NEW success \in BOOLEAN
        PROVE  /\ OnSvcReloaded(b, success) \in Engine
               /\ OnSvcPaused(b, success) \in Engine
               /\ OnSvcResumed(b, success) \in Engine
               /\ ServerMatches(OnSvcReloaded(b, success))
               /\ ServerMatches(OnSvcPaused(b, success))
               /\ ServerMatches(OnSvcResumed(b, success))
               /\ OnSvcReloaded(b, success).isRunning = eng.isRunning
               /\ OnSvcPaused(b, success).isRunning = eng.isRunning
               /\ success => OnSvcPaused(b, success).wasPaused
               /\ OnSvcResumed(b, success).isRunning = eng.isRunning
    BY <1>1, ReloadedFacts, PausedFacts, ResumedFacts
  <1>3. Calls(eng, code) => ~eng.operating
    BY DEF Calls, Accepts
  <1>4. CASE ~Calls(eng, code) /\ eng' = b /\ UNCHANGED <<awaiting, loopVars>>
    BY <1>1, <1>4 DEF TypeOK, ProcessOther, loopVars
  <1>5. CASE /\ Calls(eng, code) /\ eng' = b
             /\ awaiting' = awaiting \cup {code} /\ UNCHANGED loopVars
    BY <1>1, <1>3, <1>5 DEF TypeOK, ProcessOther, loopVars
  <1>6. CASE /\ Calls(eng, code) /\ UNCHANGED awaiting
             /\ \E success \in BOOLEAN :
                   \/ code = "Reload" /\ Reloaded(b, success)
                   \/ code = "Pause" /\ Paused(b, success)
                   \/ code = "Resume" /\ Resumed(b, success)
    BY <1>2, <1>3, <1>6
    DEF TypeOK, ProcessOther, Reloaded, Paused, Resumed, loopVars
  <1> QED
    BY <1>4, <1>5, <1>6 DEF ProcessOther

\* A signal that closes a pending command leaves a sound engine; without a
\* request to stop it was the only pending one, and none is left.
LEMMA UserEmitFacts ==
    ASSUME IInv, NEW code \in Commands, UserEmit(code)
    PROVE  /\ eng' \in Engine /\ ServerMatches(eng')
           /\ awaiting' = awaiting \ {code}
           /\ leaving' \in BOOLEAN /\ exitCode' \in ExitCodes
           /\ halted' \in BOOLEAN /\ (halted' => eng'.wasPaused)
           /\ ~stopCalled => awaiting' = {}
           /\ ~stopCalled /\ leaving' => /\ exitCode' = 1
                                         /\ ~eng'.isRunning
  <1> USE DEF IInv
  <1>1. /\ eng \in Engine /\ ServerMatches(eng) /\ code \in awaiting
        /\ awaiting' = awaiting \ {code} /\ ~halted
    BY DEF TypeOK, UserEmit, Awake
  <1>2. ~stopCalled => awaiting' = {} /\ code # "Stop"
    BY <1>1 DEF OneCommandAtATime, AwaitedStop
  <1>3. CASE code = "Stop" /\ \E c \in ExitCodes : Stopped(eng, c)
    <2>1. eng' = OnSvcStopped(eng) /\ leaving' = TRUE /\ exitCode' \in ExitCodes
          /\ halted' = halted
      BY <1>3 DEF Stopped
    <2>2. eng' \in Engine /\ ServerMatches(eng')
      BY <1>1, <2>1, StoppedFacts
    <2> QED
      BY <1>1, <1>2, <1>3, <2>1, <2>2 DEF TypeOK
  <1>4. CASE \E success \in BOOLEAN : code = "Start" /\ Started(eng, success)
    <2>1. PICK success \in BOOLEAN, ok \in BOOLEAN :
             /\ code = "Start"
             /\ eng' = OnSvcStarted(eng, success, ok)
             /\ IF success THEN UNCHANGED loopVars
                ELSE leaving' = TRUE /\ exitCode' = 1 /\ UNCHANGED halted
      BY <1>4 DEF Started
    <2>2. /\ eng' \in Engine /\ ServerMatches(eng')
          /\ eng'.isRunning <=> eng.isRunning \/ success
      BY <1>1, <2>1, StartedFacts
    <2>3. ~stopCalled => ~leaving /\ ~eng.isRunning
      BY <1>1, <2>1 DEF LeavesForAReason
    <2> QED
      BY <1>1, <1>2, <2>1, <2>2, <2>3, ExitCodesAssumption DEF TypeOK, loopVars
  <1>5. CASE \E success \in BOOLEAN :
               \/ code = "Reload" /\ Reloaded(eng, success)
               \/ code = "Pause" /\ Paused(eng, success)
               \/ code = "Resume" /\ Resumed(eng, success)
    <2>1. /\ eng' \in Engine /\ ServerMatches(eng')
          /\ eng'.isRunning = eng.isRunning
          /\ UNCHANGED <<leaving, exitCode>>
          /\ halted' \in BOOLEAN /\ (halted' => eng'.wasPaused)
      <3>1. PICK success \in BOOLEAN :
               \/ code = "Reload" /\ Reloaded(eng, success)
               \/ code = "Pause" /\ Paused(eng, success)
               \/ code = "Resume" /\ Resumed(eng, success)
        BY <1>5
      <3>2. CASE Reloaded(eng, success)
        BY <1>1, <3>2, ReloadedFacts DEF Reloaded, loopVars, TypeOK
      <3>3. CASE Paused(eng, success)
        BY <1>1, <3>3, PausedFacts DEF Paused
      <3>4. CASE Resumed(eng, success)
        BY <1>1, <3>4, ResumedFacts DEF Resumed, loopVars, TypeOK
      <3> QED
        BY <3>1, <3>2, <3>3, <3>4
    <2> QED
      BY <1>1, <1>2, <2>1 DEF TypeOK, LeavesForAReason
  <1> QED
    BY <1>3, <1>4, <1>5 DEF UserEmit

\* Start is handled once, on a fresh engine.
LEMMA ProcessStartFacts ==
    ASSUME IInv, phase = "starting", ProcessStart
    PROVE  /\ eng' \in Engine /\ ServerMatches(eng')
           /\ awaiting' \subseteq Commands
           /\ stopCalled' \in BOOLEAN
           /\ leaving' \in BOOLEAN /\ exitCode' \in ExitCodes
           /\ halted' = FALSE
           /\ ~stopCalled' =>
                \/ awaiting' = {"Start"} /\ eng'.operating /\ ~eng'.isRunning /\ ~leaving'
                \/ awaiting' = {} /\ (leaving' => exitCode' = 1 /\ ~eng'.isRunning)
  <1> USE DEF IInv
  <1> DEFINE b == Begin(eng, "Start")
  <1>1. /\ eng \in Engine /\ ServerMatches(eng) /\ ~eng.isRunning
        /\ awaiting = {} /\ ~stopCalled /\ ~leaving /\ ~halted
        /\ "Start" \in Commands
    BY DEF TypeOK, NothingYet, HaltedInLoop, Commands
  <1>2. /\ b \in Engine /\ ServerMatches(b) /\ b.operating /\ ~b.isRunning
    BY <1>1, BeginFacts
  <1>3. CASE /\ eng' = b /\ awaiting' = awaiting \cup {"Start"}
             /\ UNCHANGED <<loopVars, stopCalled>>
    BY <1>1, <1>2, <1>3 DEF TypeOK, loopVars
  <1>4. CASE /\ \E success \in BOOLEAN : Started(b, success)
             /\ UNCHANGED <<awaiting, stopCalled>>
    <2>1. PICK success \in BOOLEAN, ok \in BOOLEAN :
             /\ eng' = OnSvcStarted(b, success, ok)
             /\ IF success THEN UNCHANGED loopVars
                ELSE leaving' = TRUE /\ exitCode' = 1 /\ UNCHANGED halted
      BY <1>4 DEF Started
    <2>2. /\ eng' \in Engine /\ ServerMatches(eng')
          /\ eng'.isRunning <=> b.isRunning \/ success
      BY <1>2, <2>1, StartedFacts
    <2> QED
      BY <1>1, <1>2, <1>4, <2>1, <2>2, ExitCodesAssumption DEF TypeOK, loopVars
  <1>5. CASE \E ok \in BOOLEAN : ProcessStop(OnSvcStarted(b, TRUE, ok))
    <2>1. PICK ok \in BOOLEAN : ProcessStop(OnSvcStarted(b, TRUE, ok))
      BY <1>5
    <2>2. /\ OnSvcStarted(b, TRUE, ok) \in Engine
          /\ ServerMatches(OnSvcStarted(b, TRUE, ok))
      BY <1>2, StartedFacts
    <2> QED
      BY <1>1, <2>1, <2>2, ProcessStopFacts DEF TypeOK
  <1> QED
    BY <1>3, <1>4, <1>5 DEF ProcessStart

\* A Stop of an awake process, from a signal or from Service::quit().
LEMMA StopStep ==
    ASSUME IInv, Awake, ProcessStop(eng), phase' = phase,
           queue' \in Seq(Signals), UNCHANGED <<kpend, sent, lastJob>>
    PROVE  IInv'
  <1>1. eng \in Engine /\ ServerMatches(eng) /\ phase = "loop" /\ ~halted
    BY DEF IInv, TypeOK, Awake
  <1>2. /\ eng' \in Engine /\ ServerMatches(eng')
        /\ awaiting' \subseteq Commands
        /\ stopCalled' = TRUE
        /\ leaving' \in BOOLEAN /\ exitCode' \in ExitCodes
        /\ halted' = halted
    BY <1>1, ProcessStopFacts DEF IInv
  <1> QED
    BY <1>1, <1>2
    DEF IInv, TypeOK, OneCommandAtATime, HaltedOnlyWhenPaused, NothingYet,
        HaltedInLoop, AwaitedStop, LeavesForAReason

\* A Reload, Pause or Resume of an awake process.
LEMMA OtherStep ==
    ASSUME IInv, Awake, NEW code \in {"Reload", "Pause", "Resume"},
           ProcessOther(code), phase' = phase,
           queue' \in Seq(Signals), UNCHANGED <<kpend, sent, lastJob>>
    PROVE  IInv'
  <1>1. ServerMatches(eng) /\ phase = "loop" /\ ~halted
    BY DEF IInv, Awake
  <1>2. /\ eng' \in Engine /\ ServerMatches(eng')
        /\ eng'.isRunning = eng.isRunning
        /\ halted' \in BOOLEAN /\ (halted' => eng'.wasPaused)
        /\ UNCHANGED <<leaving, exitCode, stopCalled>>
        /\ \/ awaiting' = awaiting
           \/ ~eng.operating /\ eng'.operating /\ awaiting' = awaiting \cup {code}
        /\ awaiting' # {} => awaiting # {} \/ eng'.operating
        /\ awaiting' = awaiting /\ eng.operating => eng'.operating
    BY <1>1, ProcessOtherFacts DEF IInv
  <1>3. TypeOK'
    BY <1>2 DEF IInv, TypeOK, Commands
  <1>4. OneCommandAtATime'
    BY <1>2 DEF IInv, OneCommandAtATime
  <1> QED
    BY <1>1, <1>2, <1>3, <1>4
    DEF IInv, HaltedOnlyWhenPaused, NothingYet, HaltedInLoop, AwaitedStop,
        LeavesForAReason

LEMMA NextInv == IInv /\ [Next]_vars => IInv'
  <1> SUFFICES ASSUME IInv, [Next]_vars PROVE IInv'
    OBVIOUS
  <1> USE DEF loopVars, signalVars
  <1>1. CASE RunService
    BY <1>1, ExitCodesAssumption
    DEF RunService, IInv, TypeOK, OneCommandAtATime, HaltedOnlyWhenPaused,
        NothingYet, HaltedInLoop, AwaitedStop, LeavesForAReason
  <1>2. CASE HandleStart
    <2>1. /\ eng' \in Engine /\ ServerMatches(eng')
          /\ awaiting' \subseteq Commands
          /\ stopCalled' \in BOOLEAN
          /\ leaving' \in BOOLEAN /\ exitCode' \in ExitCodes
          /\ halted' = FALSE
          /\ ~stopCalled' =>
               \/ awaiting' = {"Start"} /\ eng'.operating /\ ~eng'.isRunning /\ ~leaving'
               \/ awaiting' = {} /\ (leaving' => exitCode' = 1 /\ ~eng'.isRunning)
      BY <1>2, ProcessStartFacts DEF HandleStart
    <2> QED
      BY <1>2, <2>1
      DEF HandleStart, IInv, TypeOK, OneCommandAtATime, HaltedOnlyWhenPaused,
          NothingYet, HaltedInLoop, AwaitedStop, LeavesForAReason
  <1>3. CASE HandleSignal
    <2>1. queue' \in Seq(Signals)
      BY <1>3, HeadTailProperties DEF HandleSignal, IInv, TypeOK
    <2> QED
      BY <1>3, <2>1, StopStep, OtherStep DEF HandleSignal
  <1>4. CASE LoopReturn
    BY <1>4
    DEF LoopReturn, Awake, IInv, TypeOK, OneCommandAtATime, HaltedOnlyWhenPaused,
        NothingYet, HaltedInLoop, AwaitedStop, LeavesForAReason
  <1>5. ASSUME NEW code \in Commands, UserEmit(code) PROVE IInv'
    <2>1. /\ eng' \in Engine /\ ServerMatches(eng')
          /\ awaiting' = awaiting \ {code}
          /\ leaving' \in BOOLEAN /\ exitCode' \in ExitCodes
          /\ halted' \in BOOLEAN /\ (halted' => eng'.wasPaused)
          /\ ~stopCalled => awaiting' = {}
          /\ ~stopCalled /\ leaving' => exitCode' = 1 /\ ~eng'.isRunning
      BY <1>5, UserEmitFacts
    <2> QED
      BY <1>5, <2>1
      DEF UserEmit, Awake, IInv, TypeOK, OneCommandAtATime, HaltedOnlyWhenPaused,
          NothingYet, HaltedInLoop, AwaitedStop, LeavesForAReason
  <1>6. CASE UserQuit
    BY <1>6, StopStep DEF UserQuit, IInv, TypeOK
  <1>7. CASE UserReload
    BY <1>7, OtherStep DEF UserReload, IInv, TypeOK
  <1>8. ASSUME NEW on \in BOOLEAN, UserSetTerminal(on) PROVE IInv'
    <2>1. PICK ok \in BOOLEAN : eng' = SetTerminalActive(eng, on, ok)
      BY <1>8 DEF UserSetTerminal
    <2>2. /\ eng' \in Engine /\ ServerMatches(eng')
          /\ eng'.isRunning = eng.isRunning
          /\ eng'.operating = eng.operating
          /\ eng'.wasPaused = eng.wasPaused
      BY <2>1, TerminalFacts DEF IInv, TypeOK
    <2> QED
      BY <1>8, <2>2
      DEF UserSetTerminal, Awake, IInv, TypeOK, OneCommandAtATime,
          HaltedOnlyWhenPaused, NothingYet, HaltedInLoop, AwaitedStop,
          LeavesForAReason
  <1>9. ASSUME NEW s \in Signals, Send(s) \/ SendHalted(s) PROVE IInv'
    <2>1. queue' \in Seq(Signals)
      BY <1>9, AppendProperties DEF Send, SendHalted, IInv, TypeOK
    <2>2. kpend' \subseteq Signals \ {"CONT"}
      BY <1>9 DEF Send, SendHalted, IInv, TypeOK
    <2>3. sent' \in 0..MaxSignals
      BY <1>9, MaxSignalsAssumption DEF Send, SendHalted, SendBudget, IInv, TypeOK
    <2> QED
      BY <1>9, <2>1, <2>2, <2>3
      DEF Send, SendHalted, IInv, TypeOK, OneCommandAtATime,
          HaltedOnlyWhenPaused, NothingYet, HaltedInLoop, AwaitedStop,
          LeavesForAReason
  <1>10. CASE Continue
    <2>1. queue' \in Seq(Signals)
      BY <1>10, ContinueQueue DEF Continue, IInv
    <2> QED
      BY <1>10, <2>1
      DEF Continue, IInv, TypeOK, OneCommandAtATime, HaltedOnlyWhenPaused,
          NothingYet, HaltedInLoop, AwaitedStop, LeavesForAReason
  <1>11. CASE UNCHANGED vars
    BY <1>11
    DEF vars, IInv, TypeOK, OneCommandAtATime, HaltedOnlyWhenPaused,
        NothingYet, HaltedInLoop, AwaitedStop, LeavesForAReason
  <1> QED
    BY <1>1, <1>2, <1>3, <1>4, <1>5, <1>6, <1>7, <1>8, <1>9, <1>10, <1>11
    DEF Next, Service

\* The inductive invariant holds in every reachable state, whatever the exit
\* codes and the number of signals.
THEOREM Invariance == Spec => []IInv
  BY InitInv, NextInv, PTL DEF Spec

-----------------------------------------------------------------------------
(* What follows from it                                                     *)

\* Every variable keeps its type.
THEOREM TypeCorrect == Spec => []TypeOK
  BY Invariance, PTL DEF IInv

\* The terminal server is open exactly while the service is running with its
\* terminals on, whichever of the five callers opens or closes it.
THEOREM TerminalServerFollows == Spec => []TerminalsFollowService
  <1>1. IInv => TerminalsFollowService
    BY DEF IInv, ServerMatches, TerminalsFollowService
  <1> QED
    BY <1>1, Invariance, PTL

\* A service that was not told to stop has at most one command to finish, and
\* the engine knows it.
THEOREM CommandExclusion == Spec => []OneCommandAtATime
  BY Invariance, PTL DEF IInv

\* A process stopped by SIGSTOP remembers that it was paused.
THEOREM HaltedProcessIsPaused == Spec => []HaltedOnlyWhenPaused
  BY Invariance, PTL DEF IInv

-----------------------------------------------------------------------------
(* The process lives the life ServiceLifecycle describes                    *)

LEMMA LifecycleInit == Init => Lifecycle!Init
  BY DEF Init, Lifecycle!Init, lifeState, lifeCode

\* What each kind of step may do to the mapped state.
LEMMA LifecycleStep ==
    ASSUME IInv, IInv', [Next]_vars
    PROVE  [Lifecycle!Next]_(Lifecycle!vars)
  <1> USE DEF lifeState, lifeCode, loopVars, signalVars
  <1> DEFINE Frozen == lifeState' = lifeState /\ lifeCode' = lifeCode
  <1>0. ASSUME Frozen PROVE [Lifecycle!Next]_(Lifecycle!vars)
    BY <1>0 DEF Lifecycle!vars
  <1>1. CASE RunService
    BY <1>1
    DEF RunService, IInv, NothingYet, Lifecycle!Next, Lifecycle!Boot, Lifecycle!Refuse
  <1>2. CASE HandleStart
    <2>1. /\ phase = "starting" /\ phase' = "loop"
          /\ ~stopCalled /\ ~eng.isRunning
          /\ lifeState = "starting" /\ lifeCode = 0 /\ lifeCode' = 0
      BY <1>2 DEF HandleStart, IInv, NothingYet
    <2>2. \/ lifeState' = "stopping"
          \/ lifeState' = "running"
          \/ lifeState' = "starting"
      BY <2>1
    <2> QED
      BY <2>1, <2>2
      DEF Lifecycle!vars, Lifecycle!Next, Lifecycle!Run, Lifecycle!Stop
  <1>3. ASSUME Awake, phase' = phase, ProcessStop(eng)
        PROVE  [Lifecycle!Next]_(Lifecycle!vars)
    BY <1>3 DEF Awake, ProcessStop, Lifecycle!vars, Lifecycle!Next, Lifecycle!Stop
  <1>4. ASSUME Awake, phase' = phase,
               NEW code \in {"Reload", "Pause", "Resume"}, ProcessOther(code)
        PROVE  Frozen
    BY <1>4, ProcessOtherFacts DEF IInv, Awake
  <1>5. CASE HandleSignal
    BY <1>0, <1>3, <1>4, <1>5 DEF HandleSignal
  <1>6. CASE UserQuit
    BY <1>3, <1>6 DEF UserQuit
  <1>7. CASE UserReload
    BY <1>0, <1>4, <1>7 DEF UserReload
  <1>8. CASE LoopReturn
    BY <1>8, ExitCodesAssumption
    DEF LoopReturn, Awake, IInv, TypeOK, LeavesForAReason, Lifecycle!Next,
        Lifecycle!Refuse, Lifecycle!Exit
  <1>9. ASSUME NEW code \in Commands, UserEmit(code)
        PROVE  [Lifecycle!Next]_(Lifecycle!vars)
    <2>1. phase = "loop" /\ phase' = "loop" /\ stopCalled' = stopCalled
      BY <1>9 DEF UserEmit, Awake
    <2>2. CASE stopCalled
      BY <2>1, <2>2 DEF Lifecycle!vars
    <2>3. CASE ~stopCalled /\ ~eng.isRunning
      BY <2>1, <2>3 DEF Lifecycle!vars, Lifecycle!Next, Lifecycle!Run
    <2>4. CASE ~stopCalled /\ eng.isRunning
      <3>1. code \notin {"Stop", "Start"}
        BY <1>9, <2>4 DEF UserEmit, IInv, AwaitedStop, LeavesForAReason
      <3>2. eng'.isRunning = eng.isRunning
        <4>1. PICK success \in BOOLEAN :
                 \/ code = "Reload" /\ Reloaded(eng, success)
                 \/ code = "Pause" /\ Paused(eng, success)
                 \/ code = "Resume" /\ Resumed(eng, success)
          BY <1>9, <3>1 DEF UserEmit
        <4>2. eng \in Engine
          BY DEF IInv, TypeOK
        <4> QED
          BY <4>1, <4>2 DEF Engine, Reloaded, Paused, Resumed,
             OnSvcReloaded, OnSvcPaused, OnSvcResumed
      <3> QED
        BY <2>1, <2>4, <3>2 DEF Lifecycle!vars
    <2> QED
      BY <2>2, <2>3, <2>4
  <1>10. ASSUME NEW on \in BOOLEAN, UserSetTerminal(on) PROVE Frozen
    <2>1. PICK ok \in BOOLEAN : eng' = SetTerminalActive(eng, on, ok)
      BY <1>10 DEF UserSetTerminal
    <2>2. eng'.isRunning = eng.isRunning
      BY <2>1, TerminalFacts DEF IInv, TypeOK
    <2> QED
      BY <1>10, <2>2 DEF UserSetTerminal
  <1>11. ASSUME NEW s \in Signals, Send(s) \/ SendHalted(s) PROVE Frozen
    BY <1>11 DEF Send, SendHalted
  <1>12. CASE Continue
    BY <1>0, <1>12 DEF Continue
  <1>13. CASE UNCHANGED vars
    BY <1>0, <1>13 DEF vars
  <1> QED
    BY <1>0, <1>1, <1>2, <1>5, <1>6, <1>7, <1>8, <1>9, <1>10, <1>11, <1>12,
       <1>13
    DEF Next, Service

\* Every behaviour of the process is one of the documented lifecycle: it leaves
\* the running state only through onStop, and a service that exits without
\* onStop never came up and reports EXIT_FAILURE.
THEOREM RefinesLifecycle ==
    Spec => Lifecycle!Init /\ [][Lifecycle!Next]_(Lifecycle!vars)
  BY LifecycleInit, LifecycleStep, Invariance, PTL DEF Spec
=============================================================================
