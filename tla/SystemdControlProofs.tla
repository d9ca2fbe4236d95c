------------------------ MODULE SystemdControlProofs ------------------------
(***************************************************************************)
(* What a unit of the systemd backend guarantees for every set of exit     *)
(* codes and every number of jobs, signals and crashes.                    *)
(***************************************************************************)
EXTENDS SystemdControl, EngineProofs, FiniteSetTheorems, SequenceTheorems

-----------------------------------------------------------------------------
(* The inductive invariant                                                  *)

\* Nothing has been asked of the service before its event loop runs.
FreshUntilLoop ==
    main # "loop" =>
        /\ ~eng.isRunning /\ ~eng.operating
        /\ awaiting = {} /\ ~stopCalled /\ ~leaving

\* onStop is open only in a process that was told to stop.
StopWasCalled == "Stop" \in awaiting => stopCalled

\* In its event loop a service runs, or is starting, or is on its way out.
LoopMeansRunning == main = "loop" /\ ~leaving => eng.isRunning \/ "Start" \in awaiting

\* As long as it is starting it is not reloading, and nobody has told systemd
\* that it is ready.
StartingIsBusy ==
    "Start" \in awaiting /\ ~leaving =>
        /\ eng.operating /\ awaiting \subseteq {"Start", "Stop"}
        /\ unit.state \notin {"active", "reloading"}

\* A process that leaves though nobody has told it to has failed to start.
LeavesAsFailed == leaving /\ ~stopCalled => exitCode = 1

\* What systemd can think of a unit that has no process, or whose process has
\* not reached its event loop.
UnitFollowsMain ==
    /\ main = "off" => \/ unit.state \in {"inactive", "failed", "deactivating"}
                       \/ unit.state = "reloading" /\ helper.kind = "reload"
    /\ main \in {"boot", "starting"} => unit.state \in {"activating", "deactivating"}

\* As long as there is a helper systemd waits for it.
HelperAndUnit ==
    /\ helper.kind = "none" => helper = NoHelper
    /\ helper.kind # "none" => helper.at # "none"
    /\ helper.kind = "reload" => unit.state = "reloading"
    /\ helper.kind = "stop" => unit.state = "deactivating"
    /\ helper.at = "checking" => helper.mail = <<>>

Left == leaving \/ main = "off"

\* Nothing a stop helper has received tells of a success before the main process
\* leaves.
MailHonest ==
    helper.kind = "stop" =>
        \A i \in 1..Len(helper.mail) : helper.mail[i][2] = 0 => Left

IInv == /\ TypeOK
        /\ ServerMatches(eng)
        /\ FreshUntilLoop
        /\ StopWasCalled
        /\ LoopMeansRunning
        /\ StartingIsBusy
        /\ LeavesAsFailed
        /\ UnitFollowsMain
        /\ HelperAndUnit
        /\ MailHonest
        /\ StopHelperHonest

-----------------------------------------------------------------------------
(* What systemd makes of notifications                                      *)

\* What systemd thinks after notifications that told it of a service that is
\* ready, or did not.
Notified(u, v, ready) ==
    /\ v \in Unit
    /\ v.state = "activating" => u.state = "activating"
    /\ u.state \in {"inactive", "failed", "deactivating"} => v.state = u.state
    /\ ~ready /\ u.state \notin {"active", "reloading"} => v.state = u.state
    /\ Reloads /\ u.state = "reloading" => v.state = "reloading"

LEMMA AfterFacts ==
    ASSUME NEW u \in Unit, NEW note \in {"none", "ready", "reloading", "stopping"}
    PROVE  Notified(u, After(u, note), note = "ready")
  BY DEF Notified, After, Settle, Set, Unit

LEMMA NotifiedTwice ==
    ASSUME NEW u \in Unit, NEW v, NEW w, NEW r \in BOOLEAN, NEW s \in BOOLEAN,
           Notified(u, v, r), Notified(v, w, s)
    PROVE  Notified(u, w, r \/ s)
  BY DEF Notified, Unit

\* The end of a reload helper.
LEMMA SettleFacts ==
    ASSUME NEW u \in Unit
    PROVE  Settle(u, FALSE) \in Unit
  BY DEF Settle, Set, Unit

LEMMA SetFacts ==
    ASSUME NEW u \in Unit,
           NEW state \in {"inactive", "failed", "activating", "active", "reloading",
                          "deactivating"}
    PROVE  Set(u, state) \in Unit /\ Set(u, state).state = state
  BY DEF Set, Unit

-----------------------------------------------------------------------------
(* The helper and its mail                                                  *)

Messages == Answers \cup Others

\* A message that arrives comes last.
LEMMA MailFacts ==
    ASSUME NEW h \in Helper, NEW message \in Messages
    PROVE  /\ [h EXCEPT !.mail = Append(@, message)] \in Helper
           /\ Append(h.mail, message) \in Seq(Messages)
           /\ \A i \in 1..Len(Append(h.mail, message)) :
                 \/ Append(h.mail, message)[i] = message
                 \/ /\ i \in 1..Len(h.mail)
                    /\ Append(h.mail, message)[i] = h.mail[i]
  <1>1. h.mail \in Seq(Messages)
    BY DEF Helper, Messages
  <1>2. Append(h.mail, message) \in Seq(Messages)
    BY <1>1, AppendProperties
  <1>3. /\ Len(h.mail) \in Nat
        /\ Len(Append(h.mail, message)) = Len(h.mail) + 1
        /\ \A i \in 1..Len(h.mail) : Append(h.mail, message)[i] = h.mail[i]
        /\ Append(h.mail, message)[Len(h.mail) + 1] = message
    BY <1>1, AppendProperties, LenProperties
  <1>4. \A i \in 1..Len(h.mail) + 1 : i \in 1..Len(h.mail) \/ i = Len(h.mail) + 1
    BY <1>3
  <1>5. [h EXCEPT !.mail = Append(@, message)] \in Helper
    BY <1>2 DEF Helper, Messages
  <1> QED
    BY <1>2, <1>3, <1>4, <1>5

\* Reading takes the first.
LEMMA ReadFacts ==
    ASSUME NEW h \in Helper, h.mail # <<>>
    PROVE  /\ Head(h.mail) \in Messages
           /\ [h EXCEPT !.mail = Tail(@)] \in Helper
           /\ Tail(h.mail) \in Seq(Messages)
           /\ 1 \in 1..Len(h.mail) /\ Head(h.mail) = h.mail[1]
           /\ \A i \in 1..Len(Tail(h.mail)) :
                 i + 1 \in 1..Len(h.mail) /\ Tail(h.mail)[i] = h.mail[i + 1]
  <1>1. h.mail \in Seq(Messages)
    BY DEF Helper, Messages
  <1>2. /\ Tail(h.mail) \in Seq(Messages) /\ Head(h.mail) = h.mail[1]
        /\ Len(h.mail) \in Nat \ {0} /\ Len(Tail(h.mail)) = Len(h.mail) - 1
        /\ \A i \in 1..Len(Tail(h.mail)) : Tail(h.mail)[i] = h.mail[i + 1]
    BY <1>1, HeadTailProperties, EmptySeq
  <1>3. Head(h.mail) \in Messages
    BY <1>1, <1>2, ElementOfSeq
  <1>4. [h EXCEPT !.mail = Tail(@)] \in Helper
    BY <1>2 DEF Helper, Messages
  <1> QED
    BY <1>2, <1>3, <1>4

LEMMA MessageFacts ==
    /\ \A c \in ExitCodes : <<"answer", c>> \in Messages
    /\ <<"error", 1>> \in Messages
    /\ <<"removed", 0>> \in Messages
    /\ <<"gone", 0>> \in Messages
    /\ \A message \in Messages : message[2] \in ExitCodes
  BY ExitCodesAssumption DEF Messages, Answers, Others

\* The messages of the end of a process, in any order.
LEMMA LastMail ==
    ASSUME TypeOK, NEW last \in SetToSeqs(Farewell)
    PROVE  [helper EXCEPT !.mail = @ \o last] \in Helper
  <1> DEFINE S == Farewell
             T == {<<"removed", 0>>} \cup {<<"error", 1>>}
  <1>1. S \subseteq T
    BY DEF Farewell
  <1>2. IsFiniteSet(T)
    BY FS_Singleton, FS_Union
  <1>3. IsFiniteSet(S)
    BY <1>1, <1>2, FS_Subset
  <1>4. Cardinality(S) \in Nat
    BY <1>3, FS_CardinalityType
  <1>5. last \in [1..Cardinality(S) -> S]
    BY DEF SetToSeqs
  <1>6. last \in Seq(S)
    BY <1>4, <1>5, SeqDef
  <1>7. S \subseteq Messages
    BY <1>1, MessageFacts
  <1>8. last \in Seq(Messages)
    BY <1>6, <1>7, SeqMonotonic
  <1>9. helper \in Helper /\ helper.mail \in Seq(Messages)
    BY DEF TypeOK, ServiceTypeOK, Helper, Messages
  <1>10. helper.mail \o last \in Seq(Messages)
    BY <1>8, <1>9, ConcatProperties
  <1> QED
    BY <1>9, <1>10 DEF Helper, Messages

-----------------------------------------------------------------------------
(* What the service's code and the slots do                                 *)

WellFormed(emission) ==
    /\ emission.success \in BOOLEAN
    /\ emission.signal = "stopped" => emission.code \in ExitCodes

LEMMA NoteFacts ==
    ASSUME NEW emission
    PROVE  /\ NoteOf(emission) \in {"none", "ready"}
           /\ emission.signal = "none" => NoteOf(emission) = "none"
  BY DEF NoteOf

LEMMA CodeFacts ==
    ASSUME NEW emission, WellFormed(emission)
    PROVE  /\ CodeOf(emission) \in ExitCodes
           /\ <<"answer", CodeOf(emission)>> \in Messages
  BY ExitCodesAssumption, MessageFacts DEF CodeOf, WellFormed

\* A broadcast reaches the helper, which learns nothing of a stop but that the
\* process leaves.
LEMMA BroadcastFacts ==
    ASSUME TypeOK, HelperAndUnit, NEW emission, WellFormed(emission), Broadcast(emission)
    PROVE  /\ helper' \in Helper
           /\ helper'.kind = helper.kind /\ helper'.at = helper.at
           /\ helper'.result = helper.result
           /\ helper.at # "waiting" => helper' = helper
           /\ MailHonest /\ main # "off" /\ helper.kind = "stop" /\ ~Leaves(emission)
                 => helper' = helper
  <1>1. helper \in Helper
    BY DEF TypeOK, ServiceTypeOK
  <1>2. CASE helper.at = "waiting" /\ emission.signal = Answered[helper.kind]
    <2>1. helper' = [helper EXCEPT !.mail = Append(@, <<"answer", CodeOf(emission)>>)]
      BY <1>2 DEF Broadcast
    <2>2. helper' \in Helper
      BY <1>1, <2>1, CodeFacts, MailFacts
    <2>3. helper.kind = "stop" => emission.signal = "stopped"
      BY <1>2 DEF Answered
    <2>4. helper.kind = "stop" => Leaves(emission)
      BY <2>3 DEF Leaves
    <2> QED
      BY <1>1, <1>2, <2>1, <2>2, <2>4 DEF Helper
  <1>3. CASE ~(helper.at = "waiting" /\ emission.signal = Answered[helper.kind])
    BY <1>1, <1>3 DEF Broadcast
  <1> QED
    BY <1>2, <1>3

\* What a slot leaves behind of the loop and of the helper.
Reacts ==
    /\ leaving' \in BOOLEAN /\ halted' \in BOOLEAN /\ exitCode' \in ExitCodes
    /\ leaving => leaving'
    /\ helper' \in Helper
    /\ helper'.kind = helper.kind /\ helper'.at = helper.at
    /\ helper'.result = helper.result
    /\ helper.at # "waiting" => helper' = helper
    /\ main # "off" /\ MailHonest /\ helper.kind = "stop" /\ ~leaving'
          => helper' = helper

LEMMA ReactFacts ==
    ASSUME TypeOK, HelperAndUnit, NEW emission, WellFormed(emission),
           NEW told, React(emission, told)
    PROVE  /\ Reacts
           /\ unit' = told
           /\ leaving' <=> leaving \/ Leaves(emission)
           /\ exitCode' = IF Leaves(emission) THEN CodeOf(emission) ELSE exitCode
  <1>1. leaving' \in BOOLEAN
    BY DEF React, TypeOK, ServiceTypeOK
  <1>2. halted' \in BOOLEAN
    BY DEF React
  <1>3. exitCode' \in ExitCodes
    BY CodeFacts DEF React, TypeOK, ServiceTypeOK
  <1>4. /\ unit' = told
        /\ leaving' <=> leaving \/ Leaves(emission)
        /\ exitCode' = IF Leaves(emission) THEN CodeOf(emission) ELSE exitCode
    BY DEF React, TypeOK, ServiceTypeOK
  <1>5. Broadcast(emission)
    BY DEF React
  <1> QED
    BY <1>1, <1>2, <1>3, <1>4, <1>5, BroadcastFacts DEF Reacts

\* An emission that closes a command is of a form the helper understands, and
\* ends a start that failed or a stop.
LEMMA AnswerIsWellFormed ==
    ASSUME NEW command \in Commands, NEW emission,
           emission.signal = SignalOf[command], emission.success \in BOOLEAN,
           command = "Stop" => emission.code \in ExitCodes
    PROVE  /\ WellFormed(emission)
           /\ Leaves(emission) <=> \/ command = "Stop"
                                   \/ command = "Start" /\ ~emission.success
           /\ NoteOf(emission) = "ready" <=> \/ command = "Reload"
                                             \/ command = "Start" /\ emission.success
           /\ Leaves(emission) /\ command # "Stop" => CodeOf(emission) = 1
  BY DEF Commands, SignalOf, WellFormed, Leaves, NoteOf, CodeOf

LEMMA SilentIsWellFormed ==
    WellFormed(Silent) /\ ~Leaves(Silent) /\ NoteOf(Silent) = "none"
  BY DEF WellFormed, Silent, Leaves, NoteOf
\* The engine and what is open after a call, or after its second half.
LEMMA ResultsFacts ==
    ASSUME IInv, NEW r, r.eng \in Engine, ServerMatches(r.eng),
           r.pending \subseteq Commands, WellFormed(r.emission),
           NEW stops \in BOOLEAN, NEW told, Results(r, stops, told)
    PROVE  /\ eng' = r.eng /\ eng' \in Engine /\ ServerMatches(eng')
           /\ awaiting' = awaiting \cup r.pending /\ awaiting' \subseteq Commands
           /\ stopCalled' \in BOOLEAN /\ (stopCalled' <=> stopCalled \/ stops)
           /\ Reacts
           /\ unit' = told
           /\ leaving' <=> leaving \/ Leaves(r.emission)
           /\ exitCode' = IF Leaves(r.emission) THEN CodeOf(r.emission) ELSE exitCode
  <1>1. stopCalled' \in BOOLEAN /\ (stopCalled' <=> stopCalled \/ stops)
    BY DEF Results
  <1>2. TypeOK /\ HelperAndUnit /\ awaiting \subseteq Commands
    BY DEF IInv, TypeOK, ServiceTypeOK
  <1>3. /\ eng' = r.eng /\ React(r.emission, told)
        /\ awaiting' = awaiting \cup r.pending
    BY DEF Results
  <1>4. /\ Reacts /\ unit' = told
        /\ leaving' <=> leaving \/ Leaves(r.emission)
        /\ exitCode' = IF Leaves(r.emission) THEN CodeOf(r.emission) ELSE exitCode
    BY <1>2, <1>3, ReactFacts
  <1> QED
    BY <1>1, <1>2, <1>3, <1>4

\* What one command may come to: it is closed or open, and well-formed.
LEMMA OutcomeFacts ==
    ASSUME NEW e \in Engine, ServerMatches(e), NEW command \in Commands,
           NEW r \in Process(e, command, ExitCodes)
    PROVE  /\ r.eng \in Engine /\ ServerMatches(r.eng)
           /\ r.pending \subseteq {command}
           /\ WellFormed(r.emission)
           /\ \/ /\ LeavesOpen(e, command, r)
                 /\ r.eng.operating /\ r.eng.isRunning = e.isRunning
                 /\ NoteOf(r.emission) = "none" /\ ~Leaves(r.emission)
              \/ /\ AnswersAtOnce(e, command, ExitCodes, r)
                 /\ \/ r.eng.isRunning <=> e.isRunning \/ command = "Start"
                    \/ Leaves(r.emission)
                 /\ command = "Stop" => Leaves(r.emission)
                 /\ Leaves(r.emission) /\ command # "Stop" => CodeOf(r.emission) = 1
  <1>1. ExitCodes \cup {1} = ExitCodes
    BY ExitCodesAssumption
  <1>2. CASE LeavesOpen(e, command, r)
    <2>1. /\ r.eng = Begin(e, command) /\ r.emission = Silent
          /\ r.pending \subseteq {command}
      BY <1>2 DEF LeavesOpen
    <2>2. /\ r.eng \in Engine /\ ServerMatches(r.eng)
          /\ r.eng.isRunning = e.isRunning
          /\ r.eng.operating
      BY <2>1, BeginFacts
    <2> QED
      BY <1>2, <2>1, <2>2, SilentIsWellFormed
  <1>3. CASE AnswersAtOnce(e, command, ExitCodes, r)
    <2>1. /\ r.emission.signal = SignalOf[command]
          /\ r.emission.success \in BOOLEAN
          /\ command = "Stop" => r.emission.code \in ExitCodes
          /\ Closes(e, command, r.eng, r.emission)
          /\ r.pending = {}
      BY <1>1, <1>3 DEF AnswersAtOnce
    <2>2. /\ WellFormed(r.emission)
          /\ Leaves(r.emission) <=> \/ command = "Stop"
                                    \/ command = "Start" /\ ~r.emission.success
          /\ Leaves(r.emission) /\ command # "Stop" => CodeOf(r.emission) = 1
      BY <2>1, AnswerIsWellFormed
    <2>3. /\ r.eng \in Engine /\ ServerMatches(r.eng)
          /\ r.eng.isRunning <=> \/ command # "Stop" /\ e.isRunning
                                 \/ command = "Start" /\ r.emission.success
      BY <2>1 DEF Closes
    <2>4. \/ r.eng.isRunning <=> e.isRunning \/ command = "Start"
          \/ Leaves(r.emission)
      BY <2>2, <2>3
    <2> QED
      BY <1>3, <2>1, <2>2, <2>3, <2>4
  <1> QED
    BY <1>2, <1>3, ProcessFacts

\* What the invariant says of a service in its event loop.
LoopHolds ==
    /\ StopWasCalled
    /\ ~leaving => eng.isRunning \/ "Start" \in awaiting
    /\ StartingIsBusy
    /\ LeavesAsFailed

\* The service and what systemd makes of it after a command.
LEMMA IssueFacts ==
    ASSUME IInv, NEW command \in Commands,
           NEW first \in {"none", "stopping", "reloading"},
           main \in {"starting", "loop"}, command = "Start" <=> main = "starting",
           Issue(command, first)
    PROVE  /\ eng' \in Engine /\ ServerMatches(eng') /\ awaiting' \subseteq Commands
           /\ stopCalled' \in BOOLEAN
           /\ Reacts
           /\ LoopHolds'
           /\ \E ready \in BOOLEAN : Notified(unit, unit', ready)
  <1>0. /\ eng \in Engine /\ ServerMatches(eng) /\ unit \in Unit
        /\ awaiting \subseteq Commands
    BY DEF IInv, TypeOK, ServiceTypeOK
  <1>1. PICK r \in Process(eng, command, ExitCodes) :
           LET told == After(After(unit, first), NoteOf(r.emission))
           IN  \/ ~r.quits /\ Results(r, command = "Stop", told)
               \/ r.quits /\ \E s \in Process(r.eng, "Stop", ExitCodes) :
                                Results(s, TRUE, After(told, "stopping"))
    BY DEF Issue
  <1> DEFINE begun == After(unit, first)
             told == After(begun, NoteOf(r.emission))
             ready == NoteOf(r.emission) = "ready"
  <1>2. /\ r.eng \in Engine /\ ServerMatches(r.eng)
        /\ r.pending \subseteq {command}
        /\ WellFormed(r.emission)
        /\ \/ /\ LeavesOpen(eng, command, r)
              /\ r.eng.operating /\ r.eng.isRunning = eng.isRunning
              /\ NoteOf(r.emission) = "none" /\ ~Leaves(r.emission)
           \/ /\ AnswersAtOnce(eng, command, ExitCodes, r)
              /\ \/ r.eng.isRunning <=> eng.isRunning \/ command = "Start"
                 \/ Leaves(r.emission)
              /\ command = "Stop" => Leaves(r.emission)
              /\ Leaves(r.emission) /\ command # "Stop" => CodeOf(r.emission) = 1
    BY <1>0, OutcomeFacts
  <1>3. Notified(unit, begun, FALSE)
    BY <1>0, AfterFacts
  <1>4. begun \in Unit
    BY <1>3 DEF Notified
  <1>5. Notified(begun, told, ready) /\ ready \in BOOLEAN
    BY <1>4, NoteFacts, AfterFacts
  <1> HIDE DEF begun, told, ready
  <1>6. Notified(unit, told, ready) /\ told \in Unit
    BY <1>0, <1>3, <1>5 DEF Notified, Unit
  <1>7. CASE r.quits /\ \E s \in Process(r.eng, "Stop", ExitCodes) :
                           Results(s, TRUE, After(told, "stopping"))
    <2>1. PICK s \in Process(r.eng, "Stop", ExitCodes) :
             Results(s, TRUE, After(told, "stopping"))
      BY <1>7
    <2>2. "Stop" \in Commands
      BY DEF Commands
    <2>3. /\ s.eng \in Engine /\ ServerMatches(s.eng)
          /\ s.pending \subseteq {"Stop"} /\ WellFormed(s.emission)
          /\ s.eng.isRunning = r.eng.isRunning \/ Leaves(s.emission)
      BY <1>2, <2>2, OutcomeFacts
    <2>4. /\ eng' = s.eng /\ eng' \in Engine /\ ServerMatches(eng')
          /\ awaiting' = awaiting \cup s.pending /\ awaiting' \subseteq Commands
          /\ stopCalled' \in BOOLEAN /\ stopCalled'
          /\ Reacts
          /\ unit' = After(told, "stopping")
          /\ leaving' <=> leaving \/ Leaves(s.emission)
      BY <2>1, <2>2, <2>3, ResultsFacts
    <2>5. Notified(told, unit', FALSE)
      BY <1>6, <2>4, AfterFacts
    <2>6. Notified(unit, unit', ready \/ FALSE)
      BY <1>0, <1>5, <1>6, <2>5, NotifiedTwice
    <2>7. (ready \/ FALSE) \in BOOLEAN
      OBVIOUS
    <2>8. command = "Start" /\ r.eng.isRunning
      BY <1>2, <1>7 DEF LeavesOpen, AnswersAtOnce, Closes
    <2>9. awaiting' \subseteq {"Stop"}
      BY <2>3, <2>4, <2>8 DEF IInv, FreshUntilLoop
    <2>10. LoopHolds'
      BY <2>3, <2>4, <2>8, <2>9
      DEF LoopHolds, StopWasCalled, StartingIsBusy, LeavesAsFailed
    <2> QED
      BY <2>4, <2>6, <2>7, <2>10
  <1>8. CASE ~r.quits /\ Results(r, command = "Stop", told)
    <2>1. /\ eng' = r.eng /\ eng' \in Engine /\ ServerMatches(eng')
          /\ awaiting' = awaiting \cup r.pending /\ awaiting' \subseteq Commands
          /\ stopCalled' \in BOOLEAN /\ (stopCalled' <=> stopCalled \/ command = "Stop")
          /\ Reacts
          /\ unit' = told
          /\ leaving' <=> leaving \/ Leaves(r.emission)
          /\ exitCode' = IF Leaves(r.emission) THEN CodeOf(r.emission) ELSE exitCode
      BY <1>0, <1>2, <1>8, ResultsFacts
    <2>2. /\ StopWasCalled /\ LoopMeansRunning /\ StartingIsBusy /\ LeavesAsFailed
          /\ FreshUntilLoop /\ UnitFollowsMain
      BY DEF IInv
    <2>3. CASE /\ LeavesOpen(eng, command, r)
               /\ r.eng.operating /\ r.eng.isRunning = eng.isRunning
               /\ NoteOf(r.emission) = "none" /\ ~Leaves(r.emission)
      <3>1. /\ r.eng.operating /\ r.eng.isRunning = eng.isRunning /\ ~ready
            /\ ~Leaves(r.emission)
            /\ r.pending = IF Calls(eng, command) THEN {command} ELSE {}
        BY <2>3 DEF LeavesOpen, ready
      <3>2. StopWasCalled' /\ LeavesAsFailed'
        BY <2>1, <2>2, <3>1 DEF StopWasCalled, LeavesAsFailed
      <3>3. CASE main = "starting"
        <4>1. Calls(eng, command) /\ command = "Start" /\ awaiting = {}
          BY <2>2, <3>3 DEF FreshUntilLoop, Calls, Accepts
        <4>2. awaiting' = {"Start"}
          BY <2>1, <3>1, <4>1
        <4>3. unit'.state \notin {"active", "reloading"}
          BY <1>6, <2>1, <2>2, <3>1, <3>3 DEF UnitFollowsMain, Notified
        <4> QED
          BY <1>5, <1>6, <2>1, <3>1, <3>2, <4>2, <4>3 DEF LoopHolds, StartingIsBusy
      <3>4. CASE main = "loop"
        <4>1. ~leaving' => eng'.isRunning \/ "Start" \in awaiting'
          BY <2>1, <2>2, <3>1, <3>4 DEF LoopMeansRunning
        <4>2. StartingIsBusy'
          <5> SUFFICES ASSUME "Start" \in awaiting', ~leaving'
                       PROVE  /\ eng'.operating /\ awaiting' \subseteq {"Start", "Stop"}
                              /\ unit'.state \notin {"active", "reloading"}
            BY DEF StartingIsBusy
          <5>1. "Start" \in awaiting /\ ~leaving
            BY <2>1, <3>1, <3>4
          <5>2. /\ eng.operating /\ awaiting \subseteq {"Start", "Stop"}
                /\ unit.state \notin {"active", "reloading"}
            BY <2>2, <5>1 DEF StartingIsBusy
          <5>3. r.pending \subseteq {"Stop"}
            BY <3>1, <5>2 DEF Calls, Accepts
          <5>4. unit'.state \notin {"active", "reloading"}
            BY <1>6, <2>1, <3>1, <5>2 DEF Notified
          <5> QED
            BY <2>1, <3>1, <5>2, <5>3, <5>4
        <4> QED
          BY <1>5, <1>6, <2>1, <3>2, <4>1, <4>2 DEF LoopHolds
      <3> QED
        BY <3>3, <3>4
    <2>4. CASE /\ AnswersAtOnce(eng, command, ExitCodes, r)
               /\ \/ r.eng.isRunning <=> eng.isRunning \/ command = "Start"
                  \/ Leaves(r.emission)
               /\ command = "Stop" => Leaves(r.emission)
               /\ Leaves(r.emission) /\ command # "Stop" => CodeOf(r.emission) = 1
      <3>1. Calls(eng, command) /\ awaiting' = awaiting
        BY <2>1, <2>4 DEF AnswersAtOnce
      <3>2. StopWasCalled' /\ LeavesAsFailed'
        BY <2>1, <2>2, <2>4, <3>1 DEF StopWasCalled, LeavesAsFailed
      <3>3. ~leaving' => eng'.isRunning \/ "Start" \in awaiting'
        BY <2>1, <2>2, <2>4, <3>1 DEF LoopMeansRunning
      <3>4. "Start" \in awaiting' => leaving'
        BY <2>1, <2>2, <2>4, <3>1 DEF FreshUntilLoop, StartingIsBusy, Calls, Accepts
      <3>5. LoopHolds'
        BY <3>2, <3>3, <3>4 DEF LoopHolds, StartingIsBusy
      <3> QED
        BY <1>5, <1>6, <2>1, <3>5
    <2> QED
      BY <1>2, <2>3, <2>4
  <1> QED
    BY <1>1, <1>7, <1>8 DEF told, begun

-----------------------------------------------------------------------------
(* Each step keeps the invariant                                            *)

Events == Signals \cup {"quitCall", "reloadCall"}

\* The event loop handles something, or the service's code closes a command.
LEMMA LoopInv ==
    ASSUME IInv, main \in {"starting", "loop"}, main' = "loop",
           inbox' \subseteq Events, ignored' \in BOOLEAN, SystemdRests,
           eng' \in Engine, ServerMatches(eng'), awaiting' \subseteq Commands,
           stopCalled' \in BOOLEAN, Reacts, LoopHolds',
           NEW ready \in BOOLEAN, Notified(unit, unit', ready)
    PROVE  IInv'
  <1>1. ServiceTypeOK'
    BY DEF ServiceTypeOK, Reacts, Notified, Events
  <1>2. TypeOK'
    BY <1>1 DEF IInv, TypeOK, SystemdRests
  <1>3. FreshUntilLoop' /\ UnitFollowsMain' /\ LoopMeansRunning'
    BY DEF FreshUntilLoop, UnitFollowsMain, LoopMeansRunning, LoopHolds
  <1>4. StopWasCalled' /\ StartingIsBusy' /\ LeavesAsFailed'
    BY DEF LoopHolds
  <1>5. HelperAndUnit'
    BY DEF IInv, HelperAndUnit, Reacts, Notified, Reloads, NoHelper
  <1>6. MailHonest' /\ StopHelperHonest'
    <2>1. CASE leaving'
      BY <2>1 DEF MailHonest, StopHelperHonest, Left
    <2>2. CASE ~leaving'
      <3>1. ~leaving /\ main # "off" /\ ~Left
        BY <2>2 DEF Reacts, Left
      <3>2. helper'.kind = "stop" => helper' = helper /\ helper.kind = "stop"
        BY <2>2, <3>1 DEF Reacts, IInv
      <3>3. MailHonest'
        BY <3>1, <3>2 DEF IInv, MailHonest
      <3>4. StopHelperHonest'
        BY <3>1, <3>2 DEF IInv, StopHelperHonest
      <3> QED
        BY <3>3, <3>4
    <2> QED
      BY <2>1, <2>2
  <1> QED
    BY <1>2, <1>3, <1>4, <1>5, <1>6 DEF IInv

\* Whatever leaves the service and the process where they are.
LEMMA QuietInv ==
    ASSUME IInv, UNCHANGED <<main, engineVars, leaving, exitCode>>,
           halted' \in BOOLEAN, inbox' \subseteq Events,
           again' \in BOOLEAN, client' = client, events' \in 0..MaxEvents,
           unit' \in Unit, helper' \in Helper,
           unit'.state \in {"active", "reloading"} => unit.state \in {"active", "reloading"},
           UnitFollowsMain', HelperAndUnit', MailHonest', StopHelperHonest'
    PROVE  IInv'
  <1>1. UNCHANGED <<main, eng, awaiting, stopCalled, ignored, leaving, exitCode>>
    BY DEF engineVars
  <1>2. TypeOK'
    BY <1>1 DEF IInv, TypeOK, ServiceTypeOK, Events
  <1>3. /\ ServerMatches(eng') /\ FreshUntilLoop' /\ StopWasCalled'
        /\ LoopMeansRunning' /\ StartingIsBusy' /\ LeavesAsFailed'
    BY <1>1 DEF IInv, FreshUntilLoop, StopWasCalled, LoopMeansRunning,
                StartingIsBusy, LeavesAsFailed
  <1> QED
    BY <1>2, <1>3 DEF IInv

\* The end of the main process, whatever ends it.
LEMMA EndsInv ==
    ASSUME IInv, NEW code \in ExitCodes, Ends(code),
           again' \in BOOLEAN, client' = client, events' \in 0..MaxEvents
    PROVE  IInv'
  <1>1. TypeOK /\ HelperAndUnit /\ unit \in Unit /\ helper \in Helper
    BY DEF IInv, TypeOK, ServiceTypeOK
  <1>2. unit' \in Unit /\ unit'.state = Over(code)
    <2>1. helper.kind \in {"none", "stop", "reload"}
      BY <1>1 DEF Helper
    <2> QED
      BY <1>1, <2>1, SetFacts DEF Ends, Over, Result
  <1>3. /\ helper' \in Helper
        /\ helper'.kind = helper.kind /\ helper'.at = helper.at
        /\ helper.at # "waiting" => helper' = helper
    <2>1. CASE helper.at = "waiting"
      <3>1. PICK last \in SetToSeqs(Farewell) : helper' = [helper EXCEPT !.mail = @ \o last]
        BY <2>1 DEF Ends
      <3>2. helper' \in Helper
        BY <1>1, <3>1, LastMail
      <3> QED
        BY <1>1, <2>1, <3>1, <3>2 DEF Helper
    <2>2. CASE helper.at # "waiting"
      BY <1>1, <2>2 DEF Ends
    <2> QED
      BY <2>1, <2>2
  <1>4. eng' \in Engine /\ ServerMatches(eng') /\ ~eng'.isRunning /\ ~eng'.operating
    BY DEF Ends, NewEngine, Engine, ServerMatches
  <1>5. stopCalled' \in BOOLEAN /\ ignored' \in BOOLEAN /\ leaving' \in BOOLEAN
        /\ halted' \in BOOLEAN /\ ~stopCalled' /\ ~leaving'
    BY DEF Ends
  <1>6. main' = "off" /\ inbox' = {} /\ exitCode' = code /\ awaiting' = {}
    BY DEF Ends
  <1>7. TypeOK'
    BY <1>1, <1>2, <1>3, <1>4, <1>5, <1>6 DEF TypeOK, ServiceTypeOK
  <1>8. FreshUntilLoop' /\ StopWasCalled' /\ LoopMeansRunning' /\ StartingIsBusy'
        /\ LeavesAsFailed'
    BY <1>4, <1>5, <1>6
    DEF FreshUntilLoop, StopWasCalled, LoopMeansRunning, StartingIsBusy, LeavesAsFailed
  <1>9. UnitFollowsMain' /\ HelperAndUnit'
    <2>1. helper.kind \in {"none", "stop", "reload"}
      BY <1>1 DEF Helper
    <2> QED
      BY <1>1, <1>2, <1>3, <1>6, <2>1
      DEF UnitFollowsMain, HelperAndUnit, Over, Result, NoHelper
  <1>10. MailHonest' /\ StopHelperHonest'
    BY <1>6 DEF MailHonest, StopHelperHonest, Left
  <1> QED
    BY <1>4, <1>7, <1>8, <1>9, <1>10 DEF IInv

LEMMA InitInv == Init => IInv
  <1> SUFFICES ASSUME Init PROVE IInv
    OBVIOUS
  <1>1. /\ eng \in Engine /\ ServerMatches(eng) /\ ~eng.isRunning /\ ~eng.operating
    BY DEF Init, ServiceInit, NewEngine, Engine, ServerMatches
  <1>2. helper \in Helper /\ helper = NoHelper
    BY EmptySeq, ExitCodesAssumption DEF Init, ServiceInit, NoHelper, Helper
  <1>3. /\ stopCalled \in BOOLEAN /\ ignored \in BOOLEAN /\ leaving \in BOOLEAN
        /\ halted \in BOOLEAN /\ again \in BOOLEAN
    BY DEF Init, ServiceInit
  <1>4. /\ main = "off" /\ awaiting = {} /\ exitCode = 0 /\ inbox = {}
        /\ unit \in Unit /\ unit.state = "inactive" /\ ~stopCalled /\ ~leaving
    BY DEF Init, ServiceInit, Unit
  <1>5. events \in 0..MaxEvents
    BY MaxEventsAssumption DEF Init
  <1>6. client \in [at : Places, info : {"Unknown", "Yes", "No"}]
    BY DEF Init, Places
  <1>7. TypeOK
    BY <1>1, <1>2, <1>3, <1>4, <1>5, <1>6, ExitCodesAssumption DEF TypeOK, ServiceTypeOK
  <1>8. FreshUntilLoop /\ StopWasCalled /\ LoopMeansRunning /\ StartingIsBusy
        /\ LeavesAsFailed /\ UnitFollowsMain
    BY <1>1, <1>4 DEF FreshUntilLoop, StopWasCalled, LoopMeansRunning,
                      StartingIsBusy, LeavesAsFailed, UnitFollowsMain
  <1>9. HelperAndUnit /\ MailHonest /\ StopHelperHonest
    BY <1>2, <1>4 DEF HelperAndUnit, MailHonest, StopHelperHonest, Left, NoHelper
  <1> QED
    BY <1>1, <1>7, <1>8, <1>9 DEF IInv

LEMMA RunServiceInv ==
    ASSUME IInv, RunService, SystemdRests
    PROVE  IInv'
  <1>1. /\ main = "boot" /\ main' = "starting"
        /\ UNCHANGED <<eng, awaiting, stopCalled, ignored, leaving, exitCode, halted,
                       inbox, unit, helper, again, client, events>>
    BY DEF RunService, SystemdRests, engineVars, loopVars
  <1>2. TypeOK'
    BY <1>1 DEF IInv, TypeOK, ServiceTypeOK
  <1>3. FreshUntilLoop' /\ StopWasCalled' /\ LoopMeansRunning' /\ StartingIsBusy'
        /\ LeavesAsFailed'
        /\ UnitFollowsMain'
    BY <1>1 DEF IInv, FreshUntilLoop, StopWasCalled, LoopMeansRunning,
                StartingIsBusy, LeavesAsFailed, UnitFollowsMain
  <1>4. HelperAndUnit' /\ MailHonest' /\ StopHelperHonest'
    BY <1>1 DEF IInv, HelperAndUnit, MailHonest, StopHelperHonest, Left
  <1> QED
    BY <1>1, <1>2, <1>3, <1>4 DEF IInv

\* A command that the event loop gives to the engine.
LEMMA IssueInv ==
    ASSUME IInv, NEW command \in Commands,
           NEW first \in {"none", "stopping", "reloading"},
           main \in {"starting", "loop"}, main' = "loop",
           command = "Start" <=> main = "starting",
           Issue(command, first), inbox' \subseteq Events, SystemdRests
    PROVE  IInv'
  <1>1. ignored' \in BOOLEAN
    BY DEF Issue
  <1> QED
    BY <1>1, IssueFacts, LoopInv

LEMMA HandleStartInv ==
    ASSUME IInv, HandleStart, SystemdRests
    PROVE  IInv'
  <1>1. main = "starting" /\ main' = "loop" /\ Issue("Start", "none") /\ inbox' \subseteq Events
    BY DEF IInv, TypeOK, ServiceTypeOK, HandleStart, Events
  <1>2. "Start" \in Commands
    BY DEF Commands
  <1> QED
    BY <1>1, <1>2, IssueInv

LEMMA HandleEventInv ==
    ASSUME IInv, NEW event \in inbox, HandleEvent(event), SystemdRests
    PROVE  IInv'
  <1>1. /\ main = "loop" /\ main' = "loop" /\ inbox' \subseteq Events /\ event \in Events
    BY DEF IInv, TypeOK, ServiceTypeOK, HandleEvent, Awake, Events
  <1>2. PICK command \in Commands \ {"Start"}, first \in {"none", "stopping", "reloading"} :
           Issue(command, first)
    <2>1. {"Stop", "Reload", "Pause", "Resume"} \subseteq Commands \ {"Start"}
      BY DEF Commands
    <2>2. CASE event \in {"TERM", "quitCall"}
      BY <2>1, <2>2 DEF HandleEvent, quitService
    <2>3. CASE event \in {"HUP", "reloadCall"}
      BY <2>1, <2>3 DEF HandleEvent, reloadService
    <2>4. CASE event = "TSTP"
      BY <2>1, <2>4 DEF HandleEvent
    <2>5. CASE event = "CONT"
      BY <2>1, <2>5 DEF HandleEvent
    <2> QED
      BY <1>1, <2>2, <2>3, <2>4, <2>5 DEF Events, Signals
  <1> QED
    BY <1>1, <1>2, IssueInv

LEMMA UserEmitInv ==
    ASSUME IInv, NEW command \in Commands, UserEmit(command), SystemdRests
    PROVE  IInv'
  <1>0. /\ eng \in Engine /\ ServerMatches(eng) /\ unit \in Unit /\ TypeOK /\ HelperAndUnit
        /\ StopWasCalled /\ LoopMeansRunning /\ StartingIsBusy /\ LeavesAsFailed
        /\ awaiting \subseteq Commands /\ stopCalled \in BOOLEAN /\ inbox \subseteq Events
    BY DEF IInv, TypeOK, ServiceTypeOK, Events
  <1>1. /\ main = "loop" /\ main' = "loop" /\ command \in awaiting
        /\ awaiting' = awaiting \ {command}
        /\ inbox' = inbox /\ stopCalled' = stopCalled /\ ignored' = ignored
    BY DEF UserEmit, Awake
  <1>2. PICK r \in Emits(eng, command, ExitCodes) :
           eng' = r.eng /\ React(r.emission, After(unit, NoteOf(r.emission)))
    BY DEF UserEmit
  <1>3. /\ Closes(eng, command, eng', r.emission)
        /\ r.emission.signal = SignalOf[command]
        /\ r.emission.success \in BOOLEAN
        /\ command = "Stop" => r.emission.code \in ExitCodes
    BY <1>0, <1>2, EmitsFacts
  <1>4. /\ WellFormed(r.emission)
        /\ Leaves(r.emission) <=> \/ command = "Stop"
                                  \/ command = "Start" /\ ~r.emission.success
        /\ Leaves(r.emission) /\ command # "Stop" => CodeOf(r.emission) = 1
    BY <1>3, AnswerIsWellFormed
  <1>5. /\ Reacts /\ unit' = After(unit, NoteOf(r.emission))
        /\ leaving' <=> leaving \/ Leaves(r.emission)
        /\ exitCode' = IF Leaves(r.emission) THEN CodeOf(r.emission) ELSE exitCode
    BY <1>0, <1>2, <1>4, ReactFacts
  <1>6. PICK ready \in BOOLEAN : Notified(unit, unit', ready)
    BY <1>0, <1>5, NoteFacts, AfterFacts
  <1>7. /\ eng' \in Engine /\ ServerMatches(eng')
        /\ eng'.isRunning <=> \/ command # "Stop" /\ eng.isRunning
                              \/ command = "Start" /\ r.emission.success
    BY <1>3 DEF Closes
  <1>8. StopWasCalled' /\ LeavesAsFailed'
    BY <1>0, <1>1, <1>4, <1>5 DEF StopWasCalled, LeavesAsFailed
  <1>9. ~leaving' => eng'.isRunning \/ "Start" \in awaiting'
    BY <1>0, <1>1, <1>4, <1>5, <1>7 DEF LoopMeansRunning
  <1>10. "Start" \in awaiting' => leaving'
    BY <1>0, <1>1, <1>4, <1>5 DEF StartingIsBusy
  <1>11. LoopHolds'
    BY <1>8, <1>9, <1>10 DEF LoopHolds, StartingIsBusy
  <1>12. ignored' \in BOOLEAN
    BY <1>1 DEF IInv, TypeOK, ServiceTypeOK
  <1>13. awaiting' \subseteq Commands /\ stopCalled' \in BOOLEAN /\ inbox' \subseteq Events
    BY <1>0, <1>1
  <1> QED
    BY <1>1, <1>5, <1>6, <1>7, <1>11, <1>12, <1>13, LoopInv

LEMMA LoopReturnInv ==
    ASSUME IInv, LoopReturn \/ RunFails, SystemdRests
    PROVE  IInv'
  <1>1. again' \in BOOLEAN /\ client' = client /\ events' \in 0..MaxEvents
    BY DEF IInv, TypeOK, SystemdRests
  <1>2. 1 \in ExitCodes /\ exitCode \in ExitCodes
    BY ExitCodesAssumption DEF IInv, TypeOK, ServiceTypeOK
  <1>3. PICK code \in ExitCodes : Ends(code)
    BY <1>2 DEF LoopReturn, RunFails
  <1> QED
    BY <1>1, <1>3, EndsInv

\* The helper announces itself and calls, or finds no process.
LEMMA HelperCallsInv ==
    ASSUME IInv, HelperCalls, SystemdRests
    PROVE  IInv'
  <1>0. /\ helper \in Helper /\ unit \in Unit /\ TypeOK /\ HelperAndUnit /\ UnitFollowsMain
        /\ inbox \subseteq Events /\ events \in 0..MaxEvents /\ halted \in BOOLEAN
        /\ again \in BOOLEAN
    BY DEF IInv, TypeOK, ServiceTypeOK, Events
  <1>1. /\ helper.at = "checking" /\ helper.mail = <<>> /\ helper.kind \in {"stop", "reload"}
        /\ UNCHANGED <<main, engineVars, loopVars, again, client, events>>
    BY <1>0 DEF HelperCalls, HelperAndUnit, NoHelper, Helper, SystemdRests
  <1>2. Notified(unit, unit', FALSE)
    <2>1. PICK note \in {"stopping", "reloading"} : unit' = After(unit, note)
      BY DEF HelperCalls
    <2> QED
      BY <1>0, <2>1, AfterFacts
  <1>3. /\ helper' \in Helper /\ helper'.kind = helper.kind /\ helper'.mail = <<>>
        /\ \/ main \in {"starting", "loop"} /\ helper'.at = "waiting"
           \/ helper'.at = "done" /\ helper'.result = 1
        /\ inbox' \subseteq Events
    <2>1. CASE main \in {"starting", "loop"}
      <3>1. /\ helper' = [helper EXCEPT !.at = "waiting"]
            /\ inbox' = inbox \cup {CallOf[helper.kind]}
        BY <2>1 DEF HelperCalls
      <3>2. CallOf[helper.kind] \in Events
        BY <1>1 DEF CallOf, Events
      <3> QED
        BY <1>0, <1>1, <2>1, <3>1, <3>2 DEF Helper
    <2>2. CASE main \notin {"starting", "loop"}
      <3>1. helper' = [helper EXCEPT !.at = "done", !.result = 1] /\ inbox' = inbox
        BY <2>2 DEF HelperCalls
      <3>2. 1 \in ExitCodes
        BY ExitCodesAssumption
      <3> QED
        BY <1>0, <1>1, <3>1, <3>2 DEF Helper
    <2> QED
      BY <2>1, <2>2
  <1>4. unit' \in Unit /\ UnitFollowsMain'
    BY <1>0, <1>1, <1>2, <1>3 DEF UnitFollowsMain, Notified, Reloads
  <1>5. HelperAndUnit'
    BY <1>0, <1>1, <1>2, <1>3 DEF HelperAndUnit, Notified, Reloads, NoHelper
  <1>6. MailHonest' /\ StopHelperHonest'
    BY <1>3, EmptySeq DEF MailHonest, StopHelperHonest
  <1>7. unit'.state \in {"active", "reloading"} => unit.state \in {"active", "reloading"}
    BY <1>0, <1>2 DEF Notified, Unit
  <1> QED
    BY <1>0, <1>1, <1>3, <1>4, <1>5, <1>6, <1>7, QuietInv DEF loopVars

LEMMA CallTimesOutInv ==
    ASSUME IInv, CallTimesOut, SystemdRests
    PROVE  IInv'
  <1>0. /\ helper \in Helper /\ unit \in Unit /\ TypeOK /\ HelperAndUnit /\ UnitFollowsMain
        /\ inbox \subseteq Events /\ events \in 0..MaxEvents /\ halted \in BOOLEAN
        /\ again \in BOOLEAN /\ MailHonest /\ StopHelperHonest
    BY DEF IInv, TypeOK, ServiceTypeOK, Events
  <1>1. /\ helper.at = "waiting" /\ helper.mail = <<>>
        /\ helper' = [helper EXCEPT !.mail = Append(@, <<"error", 1>>)]
        /\ UNCHANGED <<main, engineVars, loopVars, inbox, unit, again, client, events>>
    BY DEF CallTimesOut, SystemdRests
  <1>2. /\ helper' \in Helper
        /\ \A i \in 1..Len(helper'.mail) :
              helper'.mail[i] = <<"error", 1>> \/ i \in 1..0
        /\ helper'.kind = helper.kind /\ helper'.at = helper.at
    <2>1. \A i \in 1..Len(Append(helper.mail, <<"error", 1>>)) :
              \/ Append(helper.mail, <<"error", 1>>)[i] = <<"error", 1>>
              \/ i \in 1..Len(helper.mail)
      BY <1>0, MessageFacts, MailFacts
    <2>2. helper' \in Helper
      BY <1>0, <1>1, MessageFacts, MailFacts
    <2>3. Len(helper.mail) = 0
      BY <1>1, EmptySeq
    <2> QED
      BY <1>0, <1>1, <2>1, <2>2, <2>3 DEF Helper
  <1>3. HelperAndUnit' /\ UnitFollowsMain'
    BY <1>0, <1>1, <1>2 DEF HelperAndUnit, UnitFollowsMain, NoHelper
  <1>4. MailHonest' /\ StopHelperHonest'
    BY <1>1, <1>2 DEF MailHonest, StopHelperHonest
  <1> QED
    BY <1>0, <1>1, <1>2, <1>3, <1>4, QuietInv DEF loopVars

\* It reads a message: it is done, or waits behind what has arrived.
LEMMA HelperHearsInv ==
    ASSUME IInv, HelperHears, SystemdRests
    PROVE  IInv'
  <1> DEFINE message == Head(helper.mail)
             rest == [helper EXCEPT !.mail = Tail(@)]
  <1>0. /\ helper \in Helper /\ unit \in Unit /\ TypeOK /\ HelperAndUnit /\ UnitFollowsMain
        /\ inbox \subseteq Events /\ events \in 0..MaxEvents /\ halted \in BOOLEAN
        /\ again \in BOOLEAN /\ MailHonest /\ StopHelperHonest
    BY DEF IInv, TypeOK, ServiceTypeOK, Events
  <1>1. /\ helper.at = "waiting" /\ helper.mail # <<>>
        /\ helper' = IF message[1] = "removed"
                     THEN [rest EXCEPT !.mail = Append(@, <<"gone", 0>>)]
                     ELSE [rest EXCEPT !.at = "done", !.mail = <<>>, !.result = message[2]]
        /\ UNCHANGED <<main, engineVars, loopVars, inbox, unit, again, client, events>>
    BY DEF HelperHears, SystemdRests
  <1>2. /\ message \in Messages /\ message[2] \in ExitCodes
        /\ rest \in Helper /\ rest.mail = Tail(helper.mail)
        /\ rest.kind = helper.kind /\ rest.at = helper.at
        /\ message[2] = 0 /\ helper.kind = "stop" => Left
        /\ helper.kind = "stop" => \A i \in 1..Len(rest.mail) : rest.mail[i][2] = 0 => Left
    <2>1. /\ message \in Messages /\ rest \in Helper
          /\ 1 \in 1..Len(helper.mail) /\ message = helper.mail[1]
          /\ \A i \in 1..Len(Tail(helper.mail)) :
                i + 1 \in 1..Len(helper.mail) /\ Tail(helper.mail)[i] = helper.mail[i + 1]
      BY <1>0, <1>1, ReadFacts
    <2>2. rest.mail = Tail(helper.mail) /\ rest.kind = helper.kind /\ rest.at = helper.at
      BY <1>0 DEF Helper
    <2>3. message[2] \in ExitCodes
      BY <2>1, MessageFacts
    <2>4. message[2] = 0 /\ helper.kind = "stop" => Left
      BY <1>0, <2>1 DEF MailHonest
    <2> HIDE DEF message, rest
    <2>5. helper.kind = "stop" => \A i \in 1..Len(rest.mail) : rest.mail[i][2] = 0 => Left
      BY <1>0, <2>1, <2>2 DEF MailHonest
    <2> QED
      BY <2>1, <2>2, <2>3, <2>4, <2>5
  <1>3. message[1] = "removed" => message[2] = 0
    BY <1>2 DEF Messages, Answers, Others
  <1> HIDE DEF message, rest
  <1>4. CASE message[1] = "removed"
    <2>1. helper' = [rest EXCEPT !.mail = Append(@, <<"gone", 0>>)]
      BY <1>1, <1>4
    <2>2. /\ helper' \in Helper /\ helper'.kind = helper.kind /\ helper'.at = helper.at
          /\ helper'.mail = Append(rest.mail, <<"gone", 0>>)
      BY <1>2, <2>1, MessageFacts, MailFacts DEF Helper
    <2>3. MailHonest'
      BY <1>1, <1>2, <1>3, <1>4, <2>2 DEF MailHonest, Left, loopVars
    <2>4. StopHelperHonest'
      BY <1>1, <2>2 DEF StopHelperHonest
    <2>5. HelperAndUnit' /\ UnitFollowsMain'
      BY <1>0, <1>1, <2>2 DEF HelperAndUnit, UnitFollowsMain, NoHelper
    <2> QED
      BY <1>0, <1>1, <2>2, <2>3, <2>4, <2>5, QuietInv DEF loopVars
  <1>5. CASE message[1] # "removed"
    <2>1. helper' = [rest EXCEPT !.at = "done", !.mail = <<>>, !.result = message[2]]
      BY <1>1, <1>5
    <2>2. /\ helper' \in Helper /\ helper'.kind = helper.kind /\ helper'.at = "done"
          /\ helper'.mail = <<>> /\ helper'.result = message[2]
      BY <1>2, <2>1, EmptySeq DEF Helper
    <2>3. MailHonest' /\ StopHelperHonest'
      BY <1>1, <1>2, <2>2, EmptySeq DEF MailHonest, StopHelperHonest, Left, loopVars
    <2>4. HelperAndUnit' /\ UnitFollowsMain'
      BY <1>0, <1>1, <2>2 DEF HelperAndUnit, UnitFollowsMain, NoHelper
    <2> QED
      BY <1>0, <1>1, <2>2, <2>3, <2>4, QuietInv DEF loopVars
  <1> QED
    BY <1>4, <1>5

\* systemd's own steps.
LEMMA NoHelperFacts == NoHelper \in Helper
  BY EmptySeq, ExitCodesAssumption DEF NoHelper, Helper

LEMMA BudgetFacts ==
    ASSUME TypeOK, Budget
    PROVE  events' \in 0..MaxEvents
  BY MaxEventsAssumption DEF TypeOK, Budget

LEMMA LaunchInv ==
    ASSUME IInv, Launch
    PROVE  IInv'
  <1>0. TypeOK /\ FreshUntilLoop /\ main = "off" /\ helper = NoHelper
    BY DEF IInv, Launch, Down
  <1>1. /\ main' = "boot" /\ unit' = [state |-> "activating", note |-> "none"]
        /\ again' = FALSE /\ exitCode' = 0 /\ helper' = NoHelper
        /\ UNCHANGED <<awaiting, stopCalled, ignored, inbox, leaving, halted, client>>
    BY <1>0 DEF Launch
  <1>2. events' \in 0..MaxEvents
    BY <1>0, BudgetFacts DEF Launch, TypeOK
  <1>3. eng' \in Engine /\ ServerMatches(eng') /\ ~eng'.isRunning /\ ~eng'.operating
    BY DEF Launch, NewEngine, Engine, ServerMatches
  <1>4. unit' \in Unit /\ unit'.state = "activating"
    BY <1>1 DEF Unit
  <1>5. again' \in BOOLEAN /\ exitCode' \in ExitCodes /\ helper' \in Helper
    BY <1>1, NoHelperFacts, ExitCodesAssumption
  <1>6. ServiceTypeOK'
    BY <1>0, <1>1, <1>3, <1>4, <1>5 DEF TypeOK, ServiceTypeOK
  <1>7. TypeOK'
    BY <1>0, <1>1, <1>2, <1>5, <1>6 DEF TypeOK
  <1>8. ~stopCalled' /\ ~leaving' /\ awaiting' = {}
    BY <1>0, <1>1 DEF FreshUntilLoop
  <1>9. FreshUntilLoop' /\ StopWasCalled' /\ LoopMeansRunning' /\ StartingIsBusy'
        /\ LeavesAsFailed'
        /\ UnitFollowsMain'
    BY <1>1, <1>3, <1>4, <1>8 DEF FreshUntilLoop, StopWasCalled, LoopMeansRunning,
                                  StartingIsBusy, LeavesAsFailed, UnitFollowsMain
  <1>10. HelperAndUnit' /\ MailHonest' /\ StopHelperHonest'
    BY <1>1 DEF HelperAndUnit, MailHonest, StopHelperHonest, NoHelper
  <1> QED
    BY <1>3, <1>7, <1>9, <1>10 DEF IInv

\* A unit whose main process is gone is done once its helper is.
LEMMA DownInv ==
    ASSUME IInv, main = "off",
           unit' = Set(unit, Result(exitCode)), helper' = NoHelper,
           UNCHANGED <<main, engineVars, loopVars, inbox>>,
           again' \in BOOLEAN, client' = client, events' \in 0..MaxEvents
    PROVE  IInv'
  <1>0. unit \in Unit /\ inbox \subseteq Events /\ halted \in BOOLEAN
    BY DEF IInv, TypeOK, ServiceTypeOK, Events
  <1>1. unit' \in Unit /\ unit'.state \in {"inactive", "failed"}
    BY <1>0, SetFacts DEF Result
  <1>2. UnitFollowsMain'
    BY <1>1 DEF UnitFollowsMain
  <1>3. HelperAndUnit' /\ MailHonest' /\ StopHelperHonest'
    BY DEF HelperAndUnit, MailHonest, StopHelperHonest, NoHelper
  <1>4. helper' \in Helper
    BY NoHelperFacts
  <1> QED
    BY <1>0, <1>1, <1>2, <1>3, <1>4, QuietInv DEF loopVars

\* What is left of the unit, or what is left for the process to read.
LEMMA TerminateInv ==
    ASSUME IInv, Terminate,
           again' \in BOOLEAN, client' = client, events' \in 0..MaxEvents
    PROVE  IInv'
  <1>0. /\ unit \in Unit /\ inbox \subseteq Events /\ halted \in BOOLEAN
        /\ main \in {"off", "boot", "starting", "loop"}
    BY DEF IInv, TypeOK, ServiceTypeOK, Events
  <1>1. CASE main = "boot"
    BY <1>1, EndsInv, ExitCodesAssumption DEF Terminate
  <1>2. CASE main = "off"
    <2>1. /\ unit' = Set(unit, Result(exitCode)) /\ helper' = NoHelper
          /\ UNCHANGED <<main, engineVars, loopVars, inbox>>
      BY <1>2 DEF Terminate
    <2> QED
      BY <1>0, <1>2, <2>1, DownInv
  <1>3. CASE main \in {"starting", "loop"}
    <2>1. /\ inbox' = (inbox \ {"TSTP"}) \cup {"TERM", "CONT"}
          /\ halted' = FALSE
          /\ unit' = Set(unit, "deactivating") /\ helper' = NoHelper
          /\ UNCHANGED <<main, engineVars, leaving, exitCode>>
      BY <1>3 DEF Terminate
    <2>2. halted' \in BOOLEAN /\ helper' \in Helper
      BY <2>1, NoHelperFacts
    <2>3. inbox' \subseteq Events
      BY <1>0, <2>1 DEF Events, Signals
    <2>4. unit' \in Unit /\ unit'.state = "deactivating"
      BY <1>0, <2>1, SetFacts
    <2>5. UnitFollowsMain'
      BY <2>4 DEF UnitFollowsMain
    <2>6. HelperAndUnit' /\ MailHonest' /\ StopHelperHonest'
      BY <2>1 DEF HelperAndUnit, MailHonest, StopHelperHonest, NoHelper
    <2> QED
      BY <2>1, <2>2, <2>3, <2>4, <2>5, <2>6, QuietInv
  <1> QED
    BY <1>0, <1>1, <1>2, <1>3

\* A helper is started for an active unit.
LEMMA HelperStartsInv ==
    ASSUME IInv, unit.state = "active",
           NEW kind \in {"stop", "reload"}, NEW state,
           kind = "stop" => state = "deactivating",
           kind = "reload" => state = "reloading",
           unit' = Set(unit, state),
           helper' = Starts(kind),
           UNCHANGED <<main, engineVars, loopVars, inbox>>,
           again' \in BOOLEAN, client' = client, events' \in 0..MaxEvents
    PROVE  IInv'
  <1>0. /\ unit \in Unit /\ UnitFollowsMain /\ inbox \subseteq Events /\ halted \in BOOLEAN
    BY DEF IInv, TypeOK, ServiceTypeOK, Events
  <1>1. main # "off" /\ main \notin {"boot", "starting"}
    BY <1>0 DEF UnitFollowsMain
  <1>2. unit' \in Unit /\ unit'.state = state
    BY <1>0, SetFacts
  <1>3. /\ helper' \in Helper /\ helper'.kind = kind /\ helper'.at = "checking"
        /\ helper'.mail = <<>>
    BY NoHelperFacts DEF Starts, NoHelper, Helper
  <1>4. UnitFollowsMain'
    BY <1>1 DEF UnitFollowsMain
  <1>5. HelperAndUnit'
    BY <1>1, <1>2, <1>3 DEF HelperAndUnit, NoHelper
  <1>6. MailHonest' /\ StopHelperHonest'
    BY <1>3, EmptySeq DEF MailHonest, StopHelperHonest
  <1> QED
    BY <1>0, <1>2, <1>3, <1>4, <1>5, <1>6, QuietInv DEF loopVars

LEMMA StopInv ==
    ASSUME IInv, Stop
    PROVE  IInv'
  <1>0. TypeOK /\ unit \in Unit /\ UnitFollowsMain
    BY DEF IInv, TypeOK, ServiceTypeOK
  <1>1. again' \in BOOLEAN /\ client' = client /\ events' \in 0..MaxEvents
    BY <1>0, BudgetFacts DEF Stop
  <1>2. CASE unit.state = "active"
    BY <1>1, <1>2, HelperStartsInv DEF Stop
  <1>3. CASE unit.state # "active"
    <2>1. Terminate
      BY <1>3 DEF Stop
    <2> QED
      BY <1>1, <2>1, TerminateInv
  <1> QED
    BY <1>2, <1>3

LEMMA ReloadInv ==
    ASSUME IInv, Reload
    PROVE  IInv'
  <1>1. again' \in BOOLEAN /\ client' = client /\ events' \in 0..MaxEvents
    BY BudgetFacts DEF IInv, TypeOK, Reload
  <1> QED
    BY <1>1, HelperStartsInv DEF Reload

LEMMA ReloadOverInv ==
    ASSUME IInv, helper.kind = "reload", ReloadOver, UNCHANGED <<again, client, events>>
    PROVE  IInv'
  <1>0. /\ unit \in Unit /\ unit.state = "reloading" /\ UnitFollowsMain
        /\ inbox \subseteq Events /\ halted \in BOOLEAN
        /\ again \in BOOLEAN /\ events \in 0..MaxEvents
    BY DEF IInv, TypeOK, ServiceTypeOK, HelperAndUnit, Events
  <1>1. CASE main = "off"
    BY <1>0, <1>1, DownInv DEF ReloadOver
  <1>2. CASE main # "off"
    <2>1. /\ helper' = NoHelper /\ unit' = Settle(unit, FALSE)
          /\ UNCHANGED <<main, engineVars, loopVars, inbox>>
      BY <1>2 DEF ReloadOver
    <2>2. unit' \in Unit
      BY <1>0, <2>1, SettleFacts
    <2>3. UnitFollowsMain'
      BY <1>0, <1>2, <2>1 DEF UnitFollowsMain
    <2>4. HelperAndUnit' /\ MailHonest' /\ StopHelperHonest'
      BY <2>1 DEF HelperAndUnit, MailHonest, StopHelperHonest, NoHelper
    <2> QED
      BY <1>0, <2>1, <2>2, <2>3, <2>4, NoHelperFacts, QuietInv DEF loopVars
  <1> QED
    BY <1>1, <1>2

LEMMA HelperEndedInv ==
    ASSUME IInv, HelperEnded \/ ReloadTimesOut
    PROVE  IInv'
  <1>1. again' \in BOOLEAN /\ client' = client /\ events' \in 0..MaxEvents
    BY DEF IInv, TypeOK, HelperEnded, ReloadTimesOut
  <1>2. CASE helper.kind = "reload"
    BY <1>2, ReloadOverInv DEF HelperEnded, ReloadTimesOut
  <1>3. CASE helper.kind # "reload"
    BY <1>1, <1>3, TerminateInv DEF HelperEnded, ReloadTimesOut
  <1> QED
    BY <1>2, <1>3

LEMMA SignalInv ==
    ASSUME IInv, NEW s \in Signals, Signal(s)
    PROVE  IInv'
  <1>0. TypeOK /\ unit \in Unit /\ helper \in Helper
    BY DEF IInv, TypeOK, ServiceTypeOK
  <1>1. again' \in BOOLEAN /\ client' = client /\ events' \in 0..MaxEvents
    BY <1>0, BudgetFacts DEF Signal, TypeOK
  <1>2. halted' \in BOOLEAN
    BY DEF Signal
  <1>3. inbox' \subseteq Events
    BY <1>0 DEF Signal, TypeOK, ServiceTypeOK, Events
  <1>4. UNCHANGED <<main, engineVars, leaving, exitCode, unit, helper>>
    BY DEF Signal
  <1>5. UnitFollowsMain' /\ HelperAndUnit' /\ MailHonest' /\ StopHelperHonest'
    BY <1>4 DEF IInv, UnitFollowsMain, HelperAndUnit, MailHonest, StopHelperHonest, Left
  <1> QED
    BY <1>0, <1>1, <1>2, <1>3, <1>4, <1>5, QuietInv

LEMMA ProcessDiesInv ==
    ASSUME IInv, WatchdogExpires \/ Crash
    PROVE  IInv'
  <1>1. Ends(1) /\ client' = client
    BY DEF WatchdogExpires, Crash
  <1>2. again' \in BOOLEAN
    BY DEF WatchdogExpires, Crash
  <1>3. events' \in 0..MaxEvents
    BY BudgetFacts DEF IInv, TypeOK, WatchdogExpires, Crash
  <1> QED
    BY <1>1, <1>2, <1>3, EndsInv, ExitCodesAssumption

\* The terminal client looks at the unit and at the service, and changes neither.
LEMMA ClientStays ==
    ASSUME IInv, UNCHANGED <<serviceVars, events>>, again' \in BOOLEAN,
           client' \in [at : Places, info : {"Unknown", "Yes", "No"}]
    PROVE  IInv'
  <1>1. UNCHANGED <<main, eng, awaiting, stopCalled, ignored, leaving, exitCode, halted,
                    inbox, unit, helper, events>>
    BY DEF serviceVars, engineVars, loopVars
  <1>2. TypeOK'
    BY <1>1 DEF IInv, TypeOK, ServiceTypeOK
  <1>3. FreshUntilLoop' /\ StopWasCalled' /\ LoopMeansRunning' /\ StartingIsBusy'
        /\ LeavesAsFailed'
        /\ UnitFollowsMain' /\ ServerMatches(eng')
    BY <1>1 DEF IInv, FreshUntilLoop, StopWasCalled, LoopMeansRunning,
                StartingIsBusy, LeavesAsFailed, UnitFollowsMain
  <1>4. HelperAndUnit' /\ MailHonest' /\ StopHelperHonest'
    BY <1>1 DEF IInv, HelperAndUnit, MailHonest, StopHelperHonest, Left
  <1> QED
    BY <1>2, <1>3, <1>4 DEF IInv

\* status() leaves one of its three answers in _svcInfo.
LEMMA StatusFacts ==
    ASSUME NEW info \in {"Unknown", "Yes", "No"}, NEW answer \in Status(info)
    PROVE  answer[2] \in {"Unknown", "Yes", "No"}
  <1>1. CASE answer = <<"Unknown", info>>
    BY <1>1
  <1>2. CASE answer = <<Reported[unit.state], info>>
    BY <1>2
  <1>3. ASSUME NEW known \in IF info = "Unknown" THEN Exists ELSE {info},
               answer = <<IF known = "Yes" THEN "Stopped" ELSE "Unknown", known>>
        PROVE  answer[2] \in {"Unknown", "Yes", "No"}
    BY <1>3 DEF Exists
  <1> QED
    BY <1>1, <1>2, <1>3 DEF Status

LEMMA ClientInv ==
    ASSUME IInv, ClientStep
    PROVE  IInv'
  <1> DEFINE ClientType == [at : Places, info : {"Unknown", "Yes", "No"}]
  <1>0. client \in ClientType /\ again \in BOOLEAN
    BY DEF IInv, TypeOK
  <1>1. UNCHANGED <<serviceVars, events>>
    BY DEF ClientStep, Exec, Ask, RunSystemctl, Started, Connect, Client
  <1>2. again' \in BOOLEAN
    BY <1>0 DEF ClientStep, Exec, Ask, RunSystemctl, Started, Connect
  <1>3. client' \in ClientType
    <2>0. \A place \in Places, info \in {"Unknown", "Yes", "No"} : At(place, info) \in ClientType
      BY DEF At
    <2>1. CASE Exec
      BY <2>0, <2>1 DEF Exec, ClientExec, Places
    <2>2. CASE Ask
      <3>1. PICK answer \in Status(client.info) :
               client' = CASE client.at = "ask" ->
                            At(IF answer[1] = "Stopped" THEN "start" ELSE "check", answer[2])
                      [] client.at = "check" -> At("confirm", answer[2])
                      [] client.at = "confirm" ->
                            At(IF answer[1] = "Running" THEN "connect" ELSE "failed", "Unknown")
        BY <2>2 DEF Ask
      <3>2. answer[2] \in {"Unknown", "Yes", "No"}
        BY <1>0, <3>1, StatusFacts
      <3>3. client.at \in {"ask", "check", "confirm"}
        BY <2>2 DEF Ask, Client
      <3> QED
        BY <2>0, <3>1, <3>2, <3>3 DEF Places
    <2>3. CASE RunSystemctl
      BY <1>0, <2>3 DEF RunSystemctl, Places
    <2>4. CASE Started
      BY <1>0, <2>4 DEF Started, Places
    <2>5. CASE Connect
      BY <1>0, <2>5 DEF Connect, Places
    <2> QED
      BY <2>1, <2>2, <2>3, <2>4, <2>5 DEF ClientStep
  <1> QED
    BY <1>1, <1>2, <1>3, ClientStays

LEMMA NextInv ==
    ASSUME IInv, [Next]_vars
    PROVE  IInv'
  <1>1. CASE RunService /\ SystemdRests
    BY <1>1, RunServiceInv
  <1>2. CASE HandleStart /\ SystemdRests
    BY <1>2, HandleStartInv
  <1>3. CASE (LoopReturn \/ RunFails) /\ SystemdRests
    BY <1>3, LoopReturnInv
  <1>4. CASE (\E event \in inbox : HandleEvent(event)) /\ SystemdRests
    BY <1>4, HandleEventInv
  <1>5. CASE HelperCalls /\ SystemdRests
    BY <1>5, HelperCallsInv
  <1>6. CASE CallTimesOut /\ SystemdRests
    BY <1>6, CallTimesOutInv
  <1>7. CASE HelperHears /\ SystemdRests
    BY <1>7, HelperHearsInv
  <1>8. CASE (\E command \in Commands : UserEmit(command)) /\ SystemdRests
    BY <1>8, UserEmitInv
  <1>9. CASE Launch
    BY <1>9, LaunchInv
  <1>10. CASE Stop
    BY <1>10, StopInv
  <1>11. CASE Reload
    BY <1>11, ReloadInv
  <1>12. CASE HelperEnded \/ ReloadTimesOut
    BY <1>12, HelperEndedInv
  <1>13. CASE WatchdogExpires \/ Crash
    BY <1>13, ProcessDiesInv
  <1>14. CASE \E s \in Signals : Signal(s)
    BY <1>14, SignalInv
  <1>15. CASE ClientStep
    BY <1>15, ClientInv
  <1>16. CASE UNCHANGED vars
    <2>1. again' \in BOOLEAN /\ client' \in [at : Places, info : {"Unknown", "Yes", "No"}]
      BY <1>16 DEF vars, IInv, TypeOK
    <2> QED
      BY <1>16, <2>1, ClientStays DEF vars
  <1> QED
    BY <1>1, <1>2, <1>3, <1>4, <1>5, <1>6, <1>7, <1>8, <1>9, <1>10, <1>11, <1>12, <1>13,
       <1>14, <1>15, <1>16 DEF Next, ServiceNext, MainStep, HelperStep

-----------------------------------------------------------------------------
(* The theorems                                                             *)

\* Every reachable state of the unit satisfies the inductive invariant.
THEOREM Invariance == Spec => []IInv
  <1>1. Init => IInv
    BY InitInv
  <1>2. IInv /\ [Next]_vars => IInv'
    BY NextInv
  <1> QED
    BY <1>1, <1>2, PTL DEF Spec

\* Every variable keeps its type: in particular every exit code the main process
\* or a helper ends with is one of the service's own, or a failure.
THEOREM TypeCorrect == Spec => []TypeOK
  <1>1. IInv => TypeOK
    BY DEF IInv
  <1> QED
    BY <1>1, Invariance, PTL

\* A unit systemd shows as active has a process in its event loop whose service
\* runs, or which is leaving: because it was told to, or after a start that failed,
\* and then systemd will see it fail.
THEOREM ReadyIsTrue == Spec => []ActiveMeansRunning
  <1>1. IInv => ActiveMeansRunning
    <2> SUFFICES ASSUME IInv, unit.state = "active"
                 PROVE  main = "loop" /\ (Runs \/ (leaving /\ (stopCalled \/ exitCode = 1)))
      BY DEF ActiveMeansRunning
    <2>1. main \in {"off", "boot", "starting", "loop"} /\ ServerMatches(eng)
      BY DEF IInv, TypeOK, ServiceTypeOK
    <2>2. main = "loop"
      BY <2>1 DEF IInv, UnitFollowsMain
    <2>3. CASE leaving
      BY <2>2, <2>3 DEF IInv, LeavesAsFailed
    <2>4. CASE ~leaving
      <3>1. eng.isRunning
        BY <2>2, <2>4 DEF IInv, LoopMeansRunning, StartingIsBusy
      <3> QED
        BY <2>1, <2>2, <3>1 DEF ServerMatches, Runs
    <2> QED
      BY <2>3, <2>4
  <1> QED
    BY <1>1, Invariance, PTL

\* The process that runs ExecStop= ends with success only if the main process is
\* leaving or gone, whatever overtakes what on the bus.
THEOREM StopReportsTrue == Spec => []StopHelperHonest
  <1>1. IInv => StopHelperHonest
    BY DEF IInv
  <1> QED
    BY <1>1, Invariance, PTL
=============================================================================
