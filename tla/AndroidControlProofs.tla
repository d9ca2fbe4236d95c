------------------------ MODULE AndroidControlProofs ------------------------
(***************************************************************************)
(* What the Android service guarantees for every set of clients and every  *)
(* number of starts.                                                       *)
(***************************************************************************)
EXTENDS AndroidControl, EngineProofs

-----------------------------------------------------------------------------
(* The inductive invariant                                                  *)

\* A call is in the queue of the event loop, which never holds one twice.
Posted(call) == Holds(queue, call)

PostedOnce == NoDuplicates(queue)

\* The Qt thread lives from the creation of the Java service to its end, which
\* begins only when the natives are there.
QtLivesInJava ==
    /\ qt = "off" <=> java \in {"none", "destroyed", "crashed"}
    /\ java = "destroying" => qt \in {"ready", "loop"}

\* _startSem is held by the one callback that runs, is free otherwise, and has
\* never been released before nativeReady().
StartSemaphore ==
    /\ qt \in {"ready", "loop"} => startSem = (IF java = "callback" THEN 0 ELSE 1)
    /\ qt \in {"boot", "failed"} => startSem = 0 /\ java # "callback"
    /\ java \in {"none", "crashed"} => startSem = 0

\* Nothing has been asked of the service before its event loop runs, and what is
\* in the queue before is only the call onDestroy has made.
NothingBeforeLoop ==
    qt # "loop" /\ java # "destroyed" =>
        /\ ~eng.isRunning /\ ~startupFailed /\ ~stopCalled
        /\ awaiting = {} /\ ~Posted("Start")

\* Start is handled once: it is posted, or pending, or has been answered.
StartHandledOnce ==
    /\ Posted("Start") => ~eng.isRunning /\ ~startupFailed /\ "Start" \notin awaiting
    /\ "Start" \in awaiting => ~eng.isRunning /\ ~startupFailed
    /\ startupFailed => ~eng.isRunning

\* Nobody exits the service before onDestroy.
NoExitBefore ==
    java \notin {"destroying", "destroyed"} =>
        ~Posted("onExit") /\ ~stopCalled /\ "Stop" \notin awaiting /\ exitSem = 0

\* From onDestroy on, its call is in the queue, or the service is being stopped,
\* or _exitSem has been released, once.
ExitHandledOnce ==
    java \in {"destroying", "destroyed"} =>
        \/ /\ java = "destroying" /\ Posted("onExit") /\ exitSem = 0
           /\ ~stopCalled /\ "Stop" \notin awaiting
        \/ /\ java = "destroying" /\ ~Posted("onExit") /\ exitSem = 0
           /\ stopCalled /\ "Stop" \in awaiting
        \/ /\ ~Posted("onExit") /\ exitSem = 1
           /\ (startupFailed \/ stopCalled) /\ "Stop" \notin awaiting

IInv == /\ TypeOK
        /\ intents <= sent
        /\ ServerMatches(eng)
        /\ PostedOnce
        /\ QtLivesInJava
        /\ StartSemaphore
        /\ NothingBeforeLoop
        /\ StartHandledOnce
        /\ NoExitBefore
        /\ ExitHandledOnce

-----------------------------------------------------------------------------
(* What the service's code and the slots do                                 *)

\* What a slot leaves alone, and what it makes of an emission.
LEMMA ReactFacts ==
    ASSUME TypeOK, NEW emission, NEW quits, React(emission, quits)
    PROVE  /\ started' \in BOOLEAN
           /\ UNCHANGED <<bound, intents, java, startSem>>
           /\ emission.signal # "started" => startupFailed' = startupFailed
           /\ emission.signal = "started" /\ emission.success => startupFailed' = startupFailed
           /\ emission.signal = "started" /\ ~emission.success => startupFailed' = TRUE
           /\ exitSem' = IF emission.signal = "stopped" THEN exitSem + 1 ELSE exitSem
  <1>1. started' \in BOOLEAN /\ UNCHANGED <<bound, intents, java, startSem>>
    BY DEF TypeOK, ServiceTypeOK, React, StopSelf
  <1>2. exitSem' = IF emission.signal = "stopped" THEN exitSem + 1 ELSE exitSem
    BY DEF TypeOK, ServiceTypeOK, React
  <1> QED
    BY <1>1, <1>2 DEF TypeOK, ServiceTypeOK, React

\* What an answer to `command` leaves behind.
Answered(command) ==
    /\ eng'.isRunning <=> \/ command # "Stop" /\ eng.isRunning
                          \/ command = "Start" /\ ~startupFailed'
    /\ command # "Start" => startupFailed' = startupFailed
    /\ exitSem' = IF command = "Stop" THEN exitSem + 1 ELSE exitSem

LEMMA AnsweredFacts ==
    ASSUME TypeOK, NEW command \in Commands, ~startupFailed \/ command # "Start",
           NEW emission, emission.signal = SignalOf[command],
           emission.success \in BOOLEAN, Closes(eng, command, eng', emission),
           NEW quits, React(emission, quits)
    PROVE  Answered(command)
  <1>1. emission.signal = "started" <=> command = "Start"
    BY DEF Commands, SignalOf
  <1>2. emission.signal = "stopped" <=> command = "Stop"
    BY DEF Commands, SignalOf
  <1> QED
    BY <1>1, <1>2, ReactFacts DEF Answered, Closes, TypeOK, ServiceTypeOK

\* A command of the backend: it stays open, or is answered at once.
LEMMA IssueFacts ==
    ASSUME TypeOK, ServerMatches(eng), NEW command \in {"Start", "Stop", "Reload"},
           ~startupFailed \/ command # "Start", Issue(command)
    PROVE  /\ eng' \in Engine /\ ServerMatches(eng')
           /\ started' \in BOOLEAN
           /\ UNCHANGED <<bound, intents, java, startSem>>
           /\ stopCalled' = (stopCalled \/ command = "Stop")
           /\ \/ /\ eng'.isRunning = eng.isRunning
                 /\ \/ awaiting' = awaiting /\ command # "Stop"
                    \/ awaiting' = awaiting \cup {command}
                 /\ startupFailed' = startupFailed /\ exitSem' = exitSem
              \/ awaiting' = awaiting /\ Answered(command)
  <1>0. command \in Commands /\ eng \in Engine
    BY DEF Commands, TypeOK, ServiceTypeOK
  <1>1. PICK r \in Process(eng, command, Codes) :
           /\ eng' = r.eng
           /\ awaiting' = awaiting \cup r.pending
           /\ stopCalled' = (stopCalled \/ command = "Stop")
           /\ React(r.emission, r.quits)
    BY DEF Issue
  <1>2. started' \in BOOLEAN /\ UNCHANGED <<bound, intents, java, startSem>>
    BY <1>1, ReactFacts
  <1>3. LeavesOpen(eng, command, r) \/ AnswersAtOnce(eng, command, Codes, r)
    BY <1>0, ProcessFacts
  <1>4. CASE LeavesOpen(eng, command, r)
    <2>1. /\ eng' = Begin(eng, command)
          /\ r.emission.signal = "none"
          /\ r.pending = IF Calls(eng, command) THEN {command} ELSE {}
      BY <1>1, <1>4 DEF LeavesOpen, Silent
    <2>2. /\ eng' \in Engine /\ ServerMatches(eng')
          /\ eng'.isRunning = eng.isRunning
      BY <1>0, <2>1, BeginFacts
    <2>3. command = "Stop" => Calls(eng, command)
      BY DEF Calls, Accepts
    <2>4. \/ awaiting' = awaiting /\ command # "Stop"
          \/ awaiting' = awaiting \cup {command}
      BY <1>1, <2>1, <2>3
    <2>5. startupFailed' = startupFailed /\ exitSem' = exitSem
      BY <1>1, <2>1, ReactFacts
    <2> QED
      BY <1>1, <1>2, <2>2, <2>4, <2>5
  <1>5. CASE AnswersAtOnce(eng, command, Codes, r)
    <2>1. /\ Closes(eng, command, eng', r.emission)
          /\ r.emission.signal = SignalOf[command]
          /\ r.emission.success \in BOOLEAN
          /\ awaiting' = awaiting
      BY <1>1, <1>5 DEF AnswersAtOnce
    <2>2. Answered(command)
      BY <1>0, <1>1, <2>1, AnsweredFacts
    <2> QED
      BY <1>1, <1>2, <2>1, <2>2 DEF Closes
  <1> QED
    BY <1>3, <1>4, <1>5

\* The service's code closes what it has left open.
LEMMA UserEmitFacts ==
    ASSUME TypeOK, ServerMatches(eng), NEW command \in Commands,
           ~startupFailed \/ command # "Start", UserEmit(command)
    PROVE  /\ eng' \in Engine /\ ServerMatches(eng')
           /\ started' \in BOOLEAN
           /\ UNCHANGED <<bound, intents, java, startSem>>
           /\ Answered(command)
  <1>0. eng \in Engine
    BY DEF TypeOK, ServiceTypeOK
  <1>1. PICK r \in Emits(eng, command, Codes) :
           eng' = r.eng /\ React(r.emission, FALSE)
    BY DEF UserEmit
  <1>2. /\ Closes(eng, command, eng', r.emission)
        /\ r.emission.signal = SignalOf[command]
        /\ r.emission.success \in BOOLEAN
    BY <1>0, <1>1, EmitsFacts
  <1>3. Answered(command)
    BY <1>1, <1>2, AnsweredFacts
  <1> QED
    BY <1>1, <1>2, <1>3, ReactFacts DEF Closes

-----------------------------------------------------------------------------
(* Each step keeps the invariant                                            *)

LEMMA InitInv == Init => IInv
  <1> SUFFICES ASSUME Init PROVE IInv
    OBVIOUS
  <1>1. /\ eng \in Engine /\ ServerMatches(eng) /\ ~eng.isRunning
    BY DEF Init, ServiceInit, NewEngine, Engine, ServerMatches
  <1>2. /\ queue \in Seq({"Start", "onExit"})
        /\ \A call : ~Posted(call)
        /\ PostedOnce
    BY EmptySeq DEF Init, ServiceInit, Posted, PostedOnce, Holds, NoDuplicates
  <1>3. ServiceTypeOK
    <2>1. /\ java = "none" /\ startSem = 0 /\ exitSem = 0
          /\ bound = {} /\ intents = 0 /\ qt = "off" /\ awaiting = {}
      BY DEF Init, ServiceInit
    <2>2. /\ eng \in Engine /\ queue \in Seq({"Start", "onExit"})
          /\ started \in BOOLEAN /\ startupFailed \in BOOLEAN /\ stopCalled \in BOOLEAN
      BY <1>1, <1>2 DEF Init, ServiceInit
    <2> QED
      BY <2>1, <2>2, MaxIntentsAssumption DEF ServiceTypeOK
  <1>4. setting \in [component : {"default", "enabled", "disabled"}, manifest : BOOLEAN]
    <2>1. PICK manifest \in BOOLEAN :
             setting = [component |-> "default", manifest |-> manifest]
      BY DEF Init
    <2> QED
      BY <2>1
  <1>5. TypeOK /\ intents <= sent
    BY <1>3, <1>4, MaxIntentsAssumption DEF Init, ServiceInit, TypeOK
  <1>6. /\ QtLivesInJava /\ StartSemaphore
        /\ ~stopCalled /\ ~startupFailed /\ awaiting = {} /\ exitSem = 0
        /\ java = "none"
    BY DEF Init, ServiceInit, QtLivesInJava, StartSemaphore
  <1>7. NothingBeforeLoop /\ StartHandledOnce /\ NoExitBefore /\ ExitHandledOnce
    BY <1>1, <1>2, <1>6
    DEF NothingBeforeLoop, StartHandledOnce, NoExitBefore, ExitHandledOnce
  <1> QED
    BY <1>1, <1>2, <1>5, <1>6, <1>7 DEF IInv

\* Steps that leave the service's code, its engine and the queue alone.
Untouched == UNCHANGED <<queue, engineVars>>

LEMMA UntouchedFacts ==
    ASSUME IInv, Untouched
    PROVE  /\ eng' \in Engine /\ ServerMatches(eng') /\ eng' = eng
           /\ queue' \in Seq({"Start", "onExit"})
           /\ awaiting' \subseteq Commands /\ awaiting' = awaiting
           /\ stopCalled' \in BOOLEAN /\ stopCalled' = stopCalled
           /\ startupFailed' \in BOOLEAN /\ startupFailed' = startupFailed
           /\ PostedOnce' /\ StartHandledOnce'
           /\ Posted("Start")' = Posted("Start") /\ Posted("onExit")' = Posted("onExit")
  BY DEF IInv, TypeOK, ServiceTypeOK, Untouched, engineVars, PostedOnce, Posted,
         StartHandledOnce


\* The Java service's own steps, and Android's.
LEMMA OnStartCommandInv ==
    ASSUME IInv, OnStartCommand, UNCHANGED controlVars
    PROVE  IInv'
  <1> USE DEF IInv, androidVars, javaVars, controlVars, OnStartCommand
  <1>1. Untouched
    BY DEF Untouched
  <1>2. intents' \in 0..MaxIntents /\ intents' <= sent' /\ sent' \in 0..MaxIntents
    BY MaxIntentsAssumption DEF TypeOK, ServiceTypeOK
  <1>3. TypeOK'
    BY <1>1, <1>2, UntouchedFacts DEF TypeOK, ServiceTypeOK
  <1> QED
    BY <1>1, <1>2, <1>3, UntouchedFacts
    DEF QtLivesInJava, StartSemaphore, NothingBeforeLoop, NoExitBefore, ExitHandledOnce

LEMMA JavaInv ==
    ASSUME IInv, UNCHANGED controlVars,
           \/ Create \/ CallStartCommand \/ ReturnStart \/ ReturnDestroy
           \/ PreStartFails \/ NativeReady \/ UserQuit
    PROVE  IInv'
  <1> USE DEF IInv, androidVars, javaVars, controlVars
  <1>1. Untouched /\ sent' = sent /\ intents' = intents
    BY DEF Untouched, Create, CallStartCommand, ReturnStart, ReturnDestroy,
           PreStartFails, NativeReady, UserQuit, Destroyed
  <1>2. intents' \in 0..MaxIntents /\ intents' <= sent' /\ sent' \in 0..MaxIntents
    BY <1>1 DEF TypeOK, ServiceTypeOK
  <1>3. CASE Create
    BY <1>1, <1>2, <1>3, UntouchedFacts
    DEF Create, TypeOK, ServiceTypeOK, QtLivesInJava, StartSemaphore,
        NothingBeforeLoop, NoExitBefore, ExitHandledOnce
  <1>4. CASE CallStartCommand
    BY <1>1, <1>2, <1>4, UntouchedFacts
    DEF CallStartCommand, TypeOK, ServiceTypeOK, QtLivesInJava, StartSemaphore,
        NothingBeforeLoop, NoExitBefore, ExitHandledOnce
  <1>5. CASE ReturnStart
    BY <1>1, <1>2, <1>5, UntouchedFacts
    DEF ReturnStart, TypeOK, ServiceTypeOK, QtLivesInJava, StartSemaphore,
        NothingBeforeLoop, NoExitBefore, ExitHandledOnce
  <1>6. CASE ReturnDestroy
    BY <1>1, <1>2, <1>6, UntouchedFacts
    DEF ReturnDestroy, Destroyed, TypeOK, ServiceTypeOK, QtLivesInJava, StartSemaphore,
        NothingBeforeLoop, NoExitBefore, ExitHandledOnce
  <1>7. CASE PreStartFails
    BY <1>1, <1>2, <1>7, UntouchedFacts
    DEF PreStartFails, TypeOK, ServiceTypeOK, QtLivesInJava, StartSemaphore,
        NothingBeforeLoop, NoExitBefore, ExitHandledOnce
  <1>8. CASE NativeReady
    BY <1>1, <1>2, <1>8, UntouchedFacts
    DEF NativeReady, TypeOK, ServiceTypeOK, QtLivesInJava, StartSemaphore,
        NothingBeforeLoop, NoExitBefore, ExitHandledOnce
  <1>9. CASE UserQuit
    <2>1. started' \in BOOLEAN /\ UNCHANGED <<bound, java, startSem, exitSem, qt>>
      BY <1>9 DEF UserQuit, StopSelf
    <2> QED
      BY <1>1, <1>2, <2>1, UntouchedFacts
      DEF TypeOK, ServiceTypeOK, QtLivesInJava, StartSemaphore,
          NothingBeforeLoop, NoExitBefore, ExitHandledOnce
  <1> QED
    BY <1>3, <1>4, <1>5, <1>6, <1>7, <1>8, <1>9

\* What the controls ask Android for.
LEMMA ControlInv ==
    ASSUME IInv, \/ Start \/ Stop
                 \/ \E c \in Clients : callGenericCommand(c)
                 \/ \E on \in BOOLEAN : SetEnabled(on)
    PROVE  IInv'
  <1> USE DEF IInv, javaVars, controlVars
  <1>1. CASE StartService
    <2>1. Untouched /\ UNCHANGED <<java, startSem, exitSem, qt, bound, found, setting>>
          /\ started' = TRUE
      BY <1>1 DEF StartService, Untouched
    <2>2. intents' \in 0..MaxIntents /\ intents' <= sent' /\ sent' \in 0..MaxIntents
      BY <1>1, MaxIntentsAssumption DEF StartService, TypeOK, ServiceTypeOK
    <2>3. started' \in BOOLEAN
      BY <2>1
    <2>4. TypeOK'
      BY <2>1, <2>2, <2>3, UntouchedFacts DEF TypeOK, ServiceTypeOK
    <2> QED
      BY <2>1, <2>2, <2>4, UntouchedFacts
      DEF QtLivesInJava, StartSemaphore, NothingBeforeLoop, NoExitBefore, ExitHandledOnce
  <1>2. ASSUME \/ Stop
               \/ \E c \in Clients : Bind(c) \/ Unbind(c)
               \/ \E on \in BOOLEAN : SetEnabled(on)
        PROVE  IInv'
    <2>1. /\ Untouched /\ UNCHANGED <<java, startSem, exitSem, qt, intents, sent, found>>
          /\ started' \in BOOLEAN
          /\ bound' \subseteq Clients
          /\ setting' \in [component : {"default", "enabled", "disabled"},
                           manifest : BOOLEAN]
      <3>1. CASE Stop
        BY <3>1 DEF Stop, StopSelf, Untouched, TypeOK, ServiceTypeOK
      <3>2. ASSUME NEW c \in Clients, Bind(c) \/ Unbind(c)
            PROVE  /\ Untouched /\ UNCHANGED <<java, startSem, exitSem, qt, intents, sent>>
                   /\ UNCHANGED <<started, found, setting>>
                   /\ bound' \subseteq Clients
        BY <3>2 DEF Bind, Unbind, Untouched, TypeOK, ServiceTypeOK
      <3>3. ASSUME NEW on \in BOOLEAN, SetEnabled(on)
            PROVE  /\ Untouched /\ UNCHANGED <<java, startSem, exitSem, qt, intents, sent>>
                   /\ UNCHANGED <<started, bound, found>>
                   /\ setting' \in [component : {"default", "enabled", "disabled"},
                                    manifest : BOOLEAN]
        BY <3>3 DEF SetEnabled, Untouched, serviceVars, androidVars, TypeOK, ServiceTypeOK
      <3> QED
        BY <1>2, <3>1, <3>2, <3>3 DEF TypeOK, ServiceTypeOK
    <2>2. TypeOK'
      BY <2>1, UntouchedFacts DEF TypeOK, ServiceTypeOK
    <2> QED
      BY <2>1, <2>2, UntouchedFacts
      DEF QtLivesInJava, StartSemaphore, NothingBeforeLoop, NoExitBefore, ExitHandledOnce
  <1> QED
    BY <1>1, <1>2 DEF Start, callGenericCommand, StartWithIntent

\* Posting onExit, from onDestroy.
LEMMA OnDestroyInv ==
    ASSUME IInv, OnDestroy, UNCHANGED controlVars
    PROVE  IInv'
  <1> USE DEF IInv, androidVars, controlVars
  <1>1. CASE qt \in {"boot", "failed"}
    <2>1. Untouched /\ UNCHANGED <<started, bound, intents, startSem, exitSem, sent>>
          /\ java = "idle" /\ java' = "crashed" /\ qt' = "off"
      BY <1>1 DEF OnDestroy, Untouched
    <2> QED
      BY <1>1, <2>1, UntouchedFacts
      DEF TypeOK, ServiceTypeOK, QtLivesInJava, StartSemaphore,
          NothingBeforeLoop, NoExitBefore, ExitHandledOnce
  <1>2. CASE qt \notin {"boot", "failed"}
    <2>1. /\ UNCHANGED <<started, bound, intents, startSem, exitSem, qt, sent, engineVars>>
          /\ java = "idle" /\ java' = "destroying" /\ qt \in {"ready", "loop"}
          /\ queue' = Append(queue, "onExit")
      BY <1>2 DEF OnDestroy, QtLivesInJava, TypeOK, ServiceTypeOK
    <2>2. /\ queue' \in Seq({"Start", "onExit"})
          /\ Posted("Start")' <=> Posted("Start")
          /\ Posted("onExit")'
          /\ PostedOnce'
      BY <2>1, PostFacts
      DEF Posted, PostedOnce, TypeOK, ServiceTypeOK, NoExitBefore
    <2>3. TypeOK'
      BY <2>1, <2>2 DEF TypeOK, ServiceTypeOK, engineVars
    <2>4. /\ UNCHANGED <<eng, awaiting, stopCalled, startupFailed>>
      BY <2>1 DEF engineVars
    <2> QED
      BY <2>1, <2>2, <2>3, <2>4
      DEF QtLivesInJava, StartSemaphore, NothingBeforeLoop, StartHandledOnce,
          NoExitBefore, ExitHandledOnce
  <1> QED
    BY <1>1, <1>2

LEMMA PostStartInv ==
    ASSUME IInv, PostStart, UNCHANGED controlVars
    PROVE  IInv'
  <1> USE DEF IInv, androidVars, javaVars, controlVars
  <1>1. /\ UNCHANGED <<started, bound, intents, java, startSem, exitSem, sent>>
        /\ UNCHANGED <<eng, awaiting, stopCalled, startupFailed>>
        /\ qt = "ready" /\ qt' = "loop"
        /\ queue' = Append(queue, "Start")
    BY DEF PostStart, engineVars
  <1>2. /\ ~eng.isRunning /\ ~startupFailed /\ ~stopCalled
        /\ awaiting = {} /\ ~Posted("Start") /\ java # "destroyed"
    BY <1>1 DEF NothingBeforeLoop, QtLivesInJava
  <1>3. /\ queue' \in Seq({"Start", "onExit"})
        /\ Posted("onExit")' <=> Posted("onExit")
        /\ PostedOnce'
    BY <1>1, <1>2, PostFacts DEF Posted, PostedOnce, TypeOK, ServiceTypeOK
  <1>4. TypeOK'
    BY <1>1, <1>3 DEF TypeOK, ServiceTypeOK
  <1> QED
    BY <1>1, <1>2, <1>3, <1>4
    DEF QtLivesInJava, StartSemaphore, NothingBeforeLoop, StartHandledOnce,
        NoExitBefore, ExitHandledOnce

\* Taking the next call from the queue.
LEMMA QueueFacts ==
    ASSUME IInv, queue # <<>>, queue' = Tail(queue)
    PROVE  /\ queue' \in Seq({"Start", "onExit"})
           /\ PostedOnce'
           /\ Posted(Head(queue)) /\ ~Holds(queue', Head(queue))
           /\ \A call : call # Head(queue) => (Holds(queue', call) <=> Posted(call))
  BY TakeFacts DEF IInv, TypeOK, ServiceTypeOK, Posted, PostedOnce

LEMMA HandleStartInv ==
    ASSUME IInv, HandleStart, UNCHANGED controlVars
    PROVE  IInv'
  <1> USE DEF IInv, controlVars
  <1>1. /\ qt = "loop" /\ qt' = "loop" /\ queue # <<>> /\ Head(queue) = "Start"
        /\ queue' = Tail(queue) /\ Issue("Start") /\ sent' = sent
    BY DEF HandleStart
  <1>2. /\ queue' \in Seq({"Start", "onExit"}) /\ PostedOnce'
        /\ Posted("Start") /\ ~Posted("Start")'
        /\ Posted("onExit")' <=> Posted("onExit")
    BY <1>1, QueueFacts DEF Posted
  <1>3. ~eng.isRunning /\ ~startupFailed /\ "Start" \notin awaiting
    BY <1>2 DEF StartHandledOnce
  <1>4. /\ eng' \in Engine /\ ServerMatches(eng')
        /\ started' \in BOOLEAN
        /\ UNCHANGED <<bound, intents, java, startSem, exitSem>>
        /\ stopCalled' \in BOOLEAN /\ (stopCalled' <=> stopCalled)
        /\ startupFailed' \in BOOLEAN
        /\ \/ /\ awaiting' = awaiting \/ awaiting' = awaiting \cup {"Start"}
              /\ ~eng'.isRunning /\ ~startupFailed'
           \/ awaiting' = awaiting /\ (eng'.isRunning <=> ~startupFailed')
    <2>1. startupFailed' \in BOOLEAN
      BY <1>1 DEF Issue, React
    <2>2. stopCalled' \in BOOLEAN /\ (stopCalled' <=> stopCalled)
      BY <1>1, <1>3, IssueFacts
    <2> QED
      BY <1>1, <1>3, <2>1, <2>2, IssueFacts DEF Answered
  <1>5. TypeOK'
    BY <1>1, <1>2, <1>4 DEF TypeOK, ServiceTypeOK, Commands
  <1>6. NoExitBefore' /\ ExitHandledOnce'
    BY <1>1, <1>2, <1>3, <1>4 DEF NoExitBefore, ExitHandledOnce
  <1> QED
    BY <1>1, <1>2, <1>3, <1>4, <1>5, <1>6
    DEF QtLivesInJava, StartSemaphore, NothingBeforeLoop, StartHandledOnce

LEMMA OnExitInv ==
    ASSUME IInv, OnExit, UNCHANGED controlVars
    PROVE  IInv'
  <1> USE DEF IInv, controlVars
  <1>1. /\ qt = "loop" /\ qt' = "loop" /\ queue # <<>> /\ Head(queue) = "onExit"
        /\ queue' = Tail(queue) /\ sent' = sent
    BY DEF OnExit
  <1>2. /\ queue' \in Seq({"Start", "onExit"}) /\ PostedOnce'
        /\ Posted("onExit") /\ ~Posted("onExit")'
        /\ Posted("Start")' <=> Posted("Start")
    BY <1>1, QueueFacts DEF Posted
  <1>3. java = "destroying" /\ exitSem = 0 /\ ~stopCalled /\ "Stop" \notin awaiting
    BY <1>2 DEF NoExitBefore, ExitHandledOnce
  <1>4. CASE startupFailed
    <2>1. /\ exitSem' = 1
          /\ UNCHANGED <<started, bound, intents, java, startSem>>
          /\ UNCHANGED <<eng, awaiting, stopCalled, startupFailed>>
      BY <1>3, <1>4 DEF OnExit, androidVars, engineVars
    <2>2. TypeOK'
      BY <1>1, <1>2, <2>1 DEF TypeOK, ServiceTypeOK
    <2> QED
      BY <1>1, <1>2, <1>3, <1>4, <2>1, <2>2
      DEF QtLivesInJava, StartSemaphore, NothingBeforeLoop, StartHandledOnce,
          NoExitBefore, ExitHandledOnce
  <1>5. CASE ~startupFailed
    <2>1. Issue("Stop")
      BY <1>5 DEF OnExit
    <2>2. /\ eng' \in Engine /\ ServerMatches(eng')
          /\ started' \in BOOLEAN
          /\ UNCHANGED <<bound, intents, java, startSem>>
          /\ \/ /\ awaiting' = awaiting \cup {"Stop"} /\ exitSem' = 0
                /\ eng'.isRunning = eng.isRunning
             \/ /\ awaiting' = awaiting /\ exitSem' = 1
                /\ ~eng'.isRunning
      BY <1>3, <1>5, <2>1, IssueFacts DEF Answered
    <2>3. stopCalled' /\ stopCalled' \in BOOLEAN
      BY <2>1 DEF Issue
    <2>4. ~startupFailed' /\ startupFailed' \in BOOLEAN
      <3>1. startupFailed' \in BOOLEAN
        BY <2>1 DEF Issue, React
      <3>2. startupFailed' = startupFailed
        BY <1>5, <2>1, IssueFacts DEF Answered
      <3> QED
        BY <1>5, <3>1, <3>2
    <2>5. /\ stopCalled' \in BOOLEAN /\ startupFailed' \in BOOLEAN
          /\ exitSem' \in 0..2 /\ awaiting' \subseteq Commands
      <3>1. stopCalled' \in BOOLEAN /\ startupFailed' \in BOOLEAN
        BY <2>3, <2>4
      <3>2. exitSem' \in 0..2
        BY <2>2
      <3>3. awaiting' \subseteq Commands
        BY <2>2 DEF TypeOK, ServiceTypeOK, Commands
      <3> QED
        BY <3>1, <3>2, <3>3
    <2>6. TypeOK'
      BY <1>1, <1>2, <2>2, <2>5 DEF TypeOK, ServiceTypeOK
    <2> QED
      BY <1>1, <1>2, <1>3, <2>2, <2>3, <2>4, <2>6
      DEF QtLivesInJava, StartSemaphore, NothingBeforeLoop, StartHandledOnce,
          NoExitBefore, ExitHandledOnce
  <1> QED
    BY <1>4, <1>5

LEMMA UserReloadInv ==
    ASSUME IInv, UserReload, UNCHANGED controlVars
    PROVE  IInv'
  <1> USE DEF IInv, controlVars
  <1>1. qt = "loop" /\ UNCHANGED <<qt, queue, sent>> /\ Issue("Reload")
    BY DEF UserReload
  <1>2. /\ eng' \in Engine /\ ServerMatches(eng')
        /\ started' \in BOOLEAN
        /\ UNCHANGED <<bound, intents, java, startSem, exitSem>>
        /\ awaiting' = awaiting \/ awaiting' = awaiting \cup {"Reload"}
        /\ eng'.isRunning <=> eng.isRunning
    BY <1>1, IssueFacts DEF Answered
  <1>3. startupFailed' = startupFailed /\ (stopCalled' <=> stopCalled)
    BY <1>1, IssueFacts DEF Answered
  <1>4. startupFailed' \in BOOLEAN /\ stopCalled' \in BOOLEAN
    BY <1>1 DEF Issue, React
  <1>5. queue' \in Seq({"Start", "onExit"}) /\ PostedOnce'
        /\ (Posted("Start")' <=> Posted("Start")) /\ (Posted("onExit")' <=> Posted("onExit"))
    BY <1>1 DEF TypeOK, ServiceTypeOK, PostedOnce, Posted
  <1>6. TypeOK'
    BY <1>1, <1>2, <1>4, <1>5 DEF TypeOK, ServiceTypeOK, Commands
  <1> QED
    BY <1>1, <1>2, <1>3, <1>5, <1>6
    DEF QtLivesInJava, StartSemaphore, NothingBeforeLoop, StartHandledOnce,
        NoExitBefore, ExitHandledOnce

LEMMA UserEmitInv ==
    ASSUME IInv, NEW command \in Commands, UserEmit(command), UNCHANGED controlVars
    PROVE  IInv'
  <1> USE DEF IInv, controlVars
  <1>1. /\ qt = "loop" /\ UNCHANGED <<qt, queue, sent, stopCalled>>
        /\ command \in awaiting /\ awaiting' = awaiting \ {command}
    BY DEF UserEmit
  <1>2. command = "Start" => ~startupFailed /\ ~eng.isRunning /\ ~Posted("Start")
    BY <1>1 DEF StartHandledOnce
  <1>3. command = "Stop" => /\ java = "destroying" /\ exitSem = 0
                            /\ ~Posted("onExit") /\ stopCalled
    BY <1>1 DEF NoExitBefore, ExitHandledOnce
  <1>4. /\ eng' \in Engine /\ ServerMatches(eng')
        /\ started' \in BOOLEAN
        /\ UNCHANGED <<bound, intents, java, startSem>>
        /\ Answered(command)
    BY <1>2, UserEmitFacts
  <1>5. startupFailed' \in BOOLEAN
    BY DEF UserEmit, React
  <1>6. queue' \in Seq({"Start", "onExit"}) /\ PostedOnce'
        /\ (Posted("Start")' <=> Posted("Start")) /\ (Posted("onExit")' <=> Posted("onExit"))
    BY <1>1 DEF TypeOK, ServiceTypeOK, PostedOnce, Posted
  <1>7. exitSem' = IF command = "Stop" THEN 1 ELSE exitSem
    BY <1>3, <1>4 DEF Answered
  <1>8. TypeOK'
    BY <1>1, <1>4, <1>5, <1>6, <1>7 DEF TypeOK, ServiceTypeOK
  <1>9. StartHandledOnce'
    <2>1. CASE command = "Start"
      BY <1>1, <1>2, <1>4, <1>6, <2>1 DEF StartHandledOnce, Answered
    <2>2. CASE command # "Start"
      BY <1>1, <1>4, <1>6, <2>2 DEF StartHandledOnce, Answered
    <2> QED
      BY <2>1, <2>2
  <1>10. startupFailed => startupFailed'
    BY <1>2, <1>4 DEF Answered
  <1>11. NoExitBefore' /\ ExitHandledOnce'
    BY <1>1, <1>3, <1>4, <1>6, <1>7, <1>10 DEF NoExitBefore, ExitHandledOnce
  <1> QED
    BY <1>1, <1>4, <1>6, <1>8, <1>9, <1>11
    DEF QtLivesInJava, StartSemaphore, NothingBeforeLoop

LEMMA NextInv == IInv /\ [Next]_vars => IInv'
  <1> SUFFICES ASSUME IInv, [Next]_vars PROVE IInv'
    OBVIOUS
  <1>1. CASE JavaStep /\ UNCHANGED controlVars
    BY <1>1, JavaInv, OnStartCommandInv, OnDestroyInv DEF JavaStep
  <1>2. CASE QtStep /\ UNCHANGED controlVars
    BY <1>2, JavaInv, PostStartInv, HandleStartInv, OnExitInv DEF QtStep
  <1>3. CASE (PreStartFails \/ UserQuit) /\ UNCHANGED controlVars
    BY <1>3, JavaInv
  <1>4. CASE UserReload /\ UNCHANGED controlVars
    BY <1>4, UserReloadInv
  <1>5. CASE (\E command \in Commands : UserEmit(command)) /\ UNCHANGED controlVars
    BY <1>5, UserEmitInv
  <1>6. CASE \/ Start \/ Stop
             \/ \E c \in Clients : callGenericCommand(c)
             \/ \E on \in BOOLEAN : SetEnabled(on)
    BY <1>6, ControlInv
  <1>7. CASE UNCHANGED vars
    <2>1. /\ Untouched
          /\ UNCHANGED <<started, bound, intents, java, startSem, exitSem, qt, found,
                         setting, sent>>
      BY <1>7 DEF vars, serviceVars, controlVars, androidVars, javaVars, Untouched
    <2>2. TypeOK'
      BY <2>1, UntouchedFacts DEF IInv, TypeOK, ServiceTypeOK
    <2> QED
      BY <2>1, <2>2, UntouchedFacts
      DEF IInv, QtLivesInJava, StartSemaphore, NothingBeforeLoop, NoExitBefore,
          ExitHandledOnce
  <1> QED
    BY <1>1, <1>2, <1>3, <1>4, <1>5, <1>6, <1>7 DEF Next, ServiceNext

\* The inductive invariant holds in every reachable state, however many clients
\* bind to the service and however often it is started.
THEOREM Invariance == Spec => []IInv
  BY InitInv, NextInv, PTL DEF Spec

-----------------------------------------------------------------------------
(* What follows from it                                                     *)

\* Every variable keeps its type; the semaphores do not grow.
THEOREM TypeCorrect == Spec => []TypeOK
  <1>1. IInv => TypeOK
    BY DEF IInv
  <1> QED
    BY <1>1, Invariance, PTL

\* onStartCommand reaches the native code only after the Qt thread has
\* registered it.
THEOREM CallbackAfterNatives == Spec => []CallbackWhenReady
  <1>1. IInv => CallbackWhenReady
    BY DEF IInv, TypeOK, ServiceTypeOK, QtLivesInJava, StartSemaphore, CallbackWhenReady
  <1> QED
    BY <1>1, Invariance, PTL

\* onDestroy returns to Android only when onStop has been called and finished,
\* or the start had failed.
THEOREM DestroyedAfterStop == Spec => []DestroyedWhenStopped
  <1>1. IInv => DestroyedWhenStopped
    BY DEF IInv, ExitHandledOnce, DestroyedWhenStopped
  <1> QED
    BY <1>1, Invariance, PTL

-----------------------------------------------------------------------------
(* The process lives the life ServiceLifecycle describes                    *)

LEMMA LifecycleInit == Init => Lifecycle!Init
  BY DEF Init, ServiceInit, Lifecycle!Init, lifeState

\* The engine and the calls made of it do not change: the life only can through
\* the thread or the end of the Java service.
LEMMA LifecycleUntouched ==
    ASSUME IInv, Untouched, qt' = qt,
           java' = java \/ {java, java'} \cap {"destroyed", "crashed"} = {}
    PROVE  UNCHANGED Lifecycle!vars
  BY DEF Untouched, engineVars, Lifecycle!vars, lifeState

LEMMA LifecycleStep ==
    ASSUME IInv, IInv', [Next]_vars
    PROVE  [Lifecycle!Next]_(Lifecycle!vars)
  <1> USE DEF IInv, androidVars, javaVars, controlVars
  <1>1. CASE Create /\ UNCHANGED controlVars
    BY <1>1
    DEF Create, engineVars, QtLivesInJava, NoExitBefore, Lifecycle!vars, lifeState
  <1>2. CASE (OnStartCommand \/ CallStartCommand \/ ReturnStart) /\ UNCHANGED controlVars
    BY <1>2, LifecycleUntouched
    DEF OnStartCommand, CallStartCommand, ReturnStart, Untouched
  <1>3. CASE OnDestroy
    <2>1. /\ java = "idle" /\ ~stopCalled
          /\ UNCHANGED <<eng, stopCalled, startupFailed>>
      BY <1>3 DEF OnDestroy, engineVars, NoExitBefore
    <2>2. CASE qt \in {"boot", "failed"}
      <3>1. java' = "crashed"
        BY <1>3, <2>2 DEF OnDestroy
      <3> QED
        BY <2>1, <2>2, <3>1
        DEF lifeState, Lifecycle!vars, Lifecycle!Next, Lifecycle!Refuse
    <2>3. CASE qt \notin {"boot", "failed"}
      <3>1. java' = "destroying" /\ qt' = qt
        BY <1>3, <2>3 DEF OnDestroy
      <3> QED
        BY <2>1, <2>3, <3>1 DEF lifeState, Lifecycle!vars
    <2> QED
      BY <2>2, <2>3
  <1>4. CASE ReturnDestroy
    <2>1. /\ java = "destroying" /\ java' = "destroyed" /\ exitSem = 1
          /\ qt \in {"ready", "loop"}
          /\ UNCHANGED <<eng, awaiting, stopCalled, startupFailed>>
      BY <1>4 DEF ReturnDestroy, Destroyed, engineVars, QtLivesInJava, ExitHandledOnce
    <2>2. startupFailed \/ stopCalled
      BY <2>1 DEF ExitHandledOnce
    <2>3. qt = "loop"
      BY <2>1, <2>2 DEF NothingBeforeLoop
    <2>4. CASE stopCalled
      BY <2>1, <2>3, <2>4 DEF lifeState, Lifecycle!Next, Lifecycle!Exit
    <2>5. CASE ~stopCalled
      <3>1. startupFailed /\ ~eng.isRunning
        BY <2>2, <2>5 DEF StartHandledOnce
      <3> QED
        BY <2>1, <2>3, <2>5, <3>1 DEF lifeState, Lifecycle!Next, Lifecycle!Refuse
    <2> QED
      BY <2>4, <2>5
  <1>5. CASE PreStartFails
    BY <1>5
    DEF PreStartFails, engineVars, QtLivesInJava, NothingBeforeLoop, NoExitBefore,
        lifeState, Lifecycle!vars, Lifecycle!Next, Lifecycle!Refuse
  <1>6. CASE NativeReady
    BY <1>6 DEF NativeReady, engineVars, lifeState, Lifecycle!vars
  <1>7. CASE PostStart
    BY <1>7
    DEF PostStart, engineVars, NothingBeforeLoop, QtLivesInJava, lifeState,
        Lifecycle!vars, Lifecycle!Next, Lifecycle!Boot
  <1>8. CASE HandleStart
    <2>1. /\ qt = "loop" /\ qt' = "loop" /\ queue # <<>> /\ Head(queue) = "Start"
          /\ queue' = Tail(queue) /\ Issue("Start")
      BY <1>8 DEF HandleStart
    <2>2. ~eng.isRunning /\ ~startupFailed
      BY <2>1, QueueFacts DEF StartHandledOnce
    <2>3. java' = java /\ (stopCalled' <=> stopCalled)
      BY <2>1, <2>2, IssueFacts
    <2> QED
      BY <2>1, <2>2, <2>3
      DEF lifeState, QtLivesInJava, Lifecycle!vars, Lifecycle!Next, Lifecycle!Run
  <1>9. CASE OnExit
    <2>1. /\ qt = "loop" /\ qt' = "loop" /\ queue # <<>> /\ Head(queue) = "onExit"
      BY <1>9 DEF OnExit
    <2>2. CASE startupFailed
      BY <1>9, <2>1, <2>2 DEF OnExit, engineVars, lifeState, Lifecycle!vars
    <2>3. CASE ~startupFailed
      <3>1. Issue("Stop")
        BY <1>9, <2>3 DEF OnExit
      <3>2. stopCalled'
        BY <3>1 DEF Issue
      <3>3. java' = java
        BY <2>3, <3>1, IssueFacts
      <3> QED
        BY <2>1, <3>2, <3>3
        DEF lifeState, QtLivesInJava, Lifecycle!vars, Lifecycle!Next, Lifecycle!Stop
    <2> QED
      BY <2>2, <2>3
  <1>10. CASE UserReload
    <2>1. qt = "loop" /\ qt' = "loop" /\ Issue("Reload")
      BY <1>10 DEF UserReload
    <2>2. /\ java' = java /\ (stopCalled' <=> stopCalled)
          /\ eng'.isRunning <=> eng.isRunning
      BY <2>1, IssueFacts DEF Answered
    <2> QED
      BY <2>1, <2>2 DEF lifeState, QtLivesInJava, Lifecycle!vars
  <1>11. ASSUME NEW command \in Commands, UserEmit(command)
         PROVE  [Lifecycle!Next]_(Lifecycle!vars)
    <2>1. /\ qt = "loop" /\ qt' = "loop" /\ stopCalled' = stopCalled
          /\ command \in awaiting
      BY <1>11 DEF UserEmit
    <2>2. command = "Start" => ~startupFailed /\ ~eng.isRunning
      BY <2>1 DEF StartHandledOnce
    <2>3. java' = java /\ Answered(command)
      BY <1>11, <2>2, UserEmitFacts
    <2>4. command = "Stop" => stopCalled
      BY <2>1 DEF NoExitBefore, ExitHandledOnce
    <2> QED
      BY <2>1, <2>2, <2>3, <2>4
      DEF lifeState, QtLivesInJava, Answered, Lifecycle!vars, Lifecycle!Next,
          Lifecycle!Run
  <1>12. CASE UserQuit /\ UNCHANGED controlVars
    BY <1>12, LifecycleUntouched DEF UserQuit, Untouched
  <1>13. CASE \/ Start \/ Stop
              \/ \E c \in Clients : callGenericCommand(c)
              \/ \E on \in BOOLEAN : SetEnabled(on)
    <2>1. CASE StartService
      BY <2>1, LifecycleUntouched DEF StartService, Untouched
    <2>2. CASE Stop
      BY <2>2, LifecycleUntouched DEF Stop, Untouched
    <2>3. ASSUME NEW c \in Clients, Bind(c) \/ Unbind(c)
          PROVE  UNCHANGED Lifecycle!vars
      BY <2>3, LifecycleUntouched DEF Bind, Unbind, Untouched
    <2>4. ASSUME NEW on \in BOOLEAN, SetEnabled(on)
          PROVE  UNCHANGED Lifecycle!vars
      BY <2>4, LifecycleUntouched DEF SetEnabled, serviceVars, Untouched
    <2> QED
      BY <1>13, <2>1, <2>2, <2>3, <2>4 DEF Start, callGenericCommand, StartWithIntent
  <1>14. CASE UNCHANGED vars
    BY <1>14, LifecycleUntouched DEF vars, serviceVars, Untouched
  <1> QED
    BY <1>1, <1>2, <1>3, <1>4, <1>5, <1>6, <1>7, <1>8, <1>9, <1>10, <1>11, <1>12,
       <1>13, <1>14
    DEF Next, ServiceNext, JavaStep, QtStep

\* Every behaviour of the process is one of the documented lifecycle: it is
\* destroyed only after its onStop, or when its start was refused or had failed.
THEOREM RefinesLifecycle ==
    Spec => Lifecycle!Init /\ [][Lifecycle!Next]_(Lifecycle!vars)
  BY LifecycleInit, LifecycleStep, Invariance, PTL DEF Spec
=============================================================================
