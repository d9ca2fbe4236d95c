------------------------ MODULE WindowsControlProofs ------------------------
(***************************************************************************)
(* What the Windows backend and its control guarantee for every set of     *)
(* exit codes, every set of callers and every number of calls.             *)
(***************************************************************************)
EXTENDS WindowsControl, EngineProofs

-----------------------------------------------------------------------------
(* The inductive invariant                                                  *)

\* A command is in the queue of the event loop.
Queued(command) == Holds(queue, command)

\* The arguments are passed on before the main thread takes them, and it takes
\* them only if the dispatcher did not fail.
HandOver ==
    /\ main = "off" => ctl = "dispatch" /\ ~failure
    /\ main = "woken" => failure \/ ctl \notin {"dispatch", "registered", "failed"}
    /\ main \in {"boot", "prepared", "loop", "timer", "returned"} =>
          ~failure /\ ctl \notin {"dispatch", "registered", "failed"}
    /\ main = "ended" =>
          /\ failure <=> exitCode # 0
          /\ ctl \notin {"dispatch", "registered", "failed"}

\* Nothing has been asked of the service before its event loop runs.
NothingBeforeLoop ==
    main \notin {"loop", "timer", "returned", "ended", "dead"} =>
        ~eng.isRunning /\ ~stopCalled /\ ~leaving /\ awaiting = {}

TimerRuns == TimerExists => opTimer

\* What the service waits for was really begun, and is all it was given unless
\* it is being stopped.
OpenCommand ==
    /\ "Stop" \in awaiting => stopCalled
    /\ ~stopCalled => \/ awaiting = {}
                      \/ \E c \in Commands : awaiting = {c} /\ eng.operating
    /\ ~stopCalled /\ "Pause" \in awaiting => ~eng.wasPaused
    /\ ~stopCalled /\ "Resume" \in awaiting => eng.wasPaused

\* The states from which on the manager lets a service be paused.
Up == {RUNNING, PAUSED, PAUSE_PENDING, CONTINUE_PENDING}

\* A service is paused and resumed only after it has come up.
RunningFirst ==
    ~eng.isRunning /\ ~stopCalled =>
        /\ status \notin Up /\ seen \notin Up /\ handler \notin {"PAUSE", "CONTINUE"}
        /\ ~Queued("Pause") /\ ~Queued("Resume")
        /\ "Pause" \notin awaiting /\ "Resume" \notin awaiting
        /\ ~eng.wasPaused

\* Start is handled once: it has still to be posted, or is in the queue, or has
\* been given to the service, or was answered.
StartOnce ==
    /\ Once(queue, "Start")
    /\ Queued("Start") => ctl = "done" /\ "Start" \notin awaiting
    /\ "Start" \in awaiting => ctl = "done"
    /\ ctl # "done" \/ Queued("Start") \/ "Start" \in awaiting
          => ~eng.isRunning \/ stopCalled

\* The event loop is left after a stop, or after a start that has failed.
LeftHonestly ==
    /\ main \in {"returned", "ended"} => leaving
    /\ leaving /\ ~stopCalled =>
          /\ ~eng.isRunning /\ exitCode = 1
          /\ ctl = "done" /\ ~Queued("Start") /\ "Start" \notin awaiting

\* A state of the manager, compared with the engine's.
True(s) == ~stopCalled => /\ s = RUNNING => eng.isRunning /\ ~eng.wasPaused
                          /\ s = PAUSED => eng.wasPaused

\* What the timer has read is still so when it reports it.
SeenTrue == True(seen) /\ (main # "timer" => seen = STOPPED)

FinalReport ==
    /\ main = "ended" => status = STOPPED \/ "overtaken" \in slips
    /\ main = "dead" => /\ status = STOPPED
                        /\ (failure <=> exitCode # 0) \/ "overtaken" \in slips

\* A caller that is about to write was told what its operation asks for.
AskedFirst ==
    \A c \in Callers :
        /\ caller[c].at = "auto?" =>
              caller[c].op = "enableAutostart" /\ caller[c].saw # "disabled"
        /\ caller[c].at = "write" =>
              caller[c].saw = "disabled" <=> caller[c].op = "enable"

IInv == /\ TypeOK
        /\ ServerMatches(eng)
        /\ HandOver
        /\ NothingBeforeLoop
        /\ TimerRuns
        /\ OpenCommand
        /\ RunningFirst
        /\ StartOnce
        /\ LeftHonestly
        /\ ReportedStateTrue
        /\ SeenTrue
        /\ FinalReport
        /\ AskedFirst

-----------------------------------------------------------------------------
(* Steps that ask nothing of the service                                    *)

Late == {"loop", "timer", "returned", "ended", "dead"}

\* The threads hand over and report, but neither the queue nor the engine moves.
Quiet ==
    /\ UNCHANGED <<queue, eng, awaiting, stopCalled, leaving, callerVars>>
    /\ ctl' = "done" <=> ctl = "done"
    /\ exitCode' = exitCode \/ exitCode' = 1
    /\ main' \notin Late => main \notin Late
    /\ main' \in {"returned", "ended"} => leaving
    /\ handler' \in {"PAUSE", "CONTINUE"} => handler' = handler \/ status \in Up
    /\ status' \in Up => \/ status' = status \/ status' = seen
                         \/ /\ handler \in {"PAUSE", "CONTINUE"}
                            /\ status' \notin {RUNNING, PAUSED}
    /\ \/ seen' = STOPPED
       \/ main' = "timer" /\ (seen' = seen \/ seen' = status)

\* The variables such a step may move, with their types.
StepTypeOK ==
    /\ main \in Mains
    /\ ctl \in Ctls
    /\ handler \in Controls \cup {"idle"}
    /\ announced \in BOOLEAN
    /\ status \in 1..7 /\ seen \in 1..7
    /\ failure \in BOOLEAN
    /\ opTimer \in BOOLEAN
    /\ exitCode \in ExitCodes
    /\ slips \subseteq {"wake", "ignored", "overtaken"}
    /\ calls \in 0..MaxCalls

LEMMA QuietInv ==
    ASSUME IInv, Quiet, StepTypeOK', HandOver', TimerRuns', FinalReport'
    PROVE  IInv'
  <1>1. TypeOK'
    BY DEF IInv, TypeOK, ServiceTypeOK, StepTypeOK, Quiet, callerVars
  <1>2. UNCHANGED <<queue, eng, awaiting, stopCalled, leaving>>
    BY DEF Quiet
  <1>3. \A command : Queued(command)' <=> Queued(command)
    BY <1>2 DEF Queued
  <1>4. NothingBeforeLoop' /\ OpenCommand' /\ ServerMatches(eng')
    BY <1>2 DEF IInv, Quiet, NothingBeforeLoop, OpenCommand, Late
  <1>5. RunningFirst'
    BY <1>2, <1>3 DEF IInv, Quiet, RunningFirst, Up, RUNNING, PAUSED, STOPPED,
                      PAUSE_PENDING, CONTINUE_PENDING
  <1>6. StartOnce' /\ LeftHonestly'
    BY <1>2, <1>3 DEF IInv, Quiet, StartOnce, LeftHonestly
  <1>7. ReportedStateTrue'
    BY <1>2 DEF IInv, Quiet, ReportedStateTrue, SeenTrue, True, Up
  <1>8. SeenTrue'
    BY <1>2 DEF IInv, Quiet, ReportedStateTrue, SeenTrue, True, STOPPED, RUNNING, PAUSED
  <1>9. AskedFirst'
    BY DEF IInv, Quiet, AskedFirst, callerVars
  <1> QED
    BY <1>1, <1>4, <1>5, <1>6, <1>7, <1>8, <1>9 DEF IInv

\* What an invariant state gives to the steps below.
Basics == StepTypeOK /\ HandOver /\ TimerRuns /\ FinalReport /\ SeenTrue /\ LeftHonestly

LEMMA BasicFacts == IInv => Basics
  BY DEF IInv, Basics, TypeOK, ServiceTypeOK, StepTypeOK

\* Every state has a pending flag, so that the timer runs whatever is reported.
LEMMA SetStatusFacts ==
    ASSUME Basics, NEW s \in 1..7, SetStatus(s)
    PROVE  /\ status' = s
           /\ opTimer' \in BOOLEAN
           /\ TimerExists => opTimer'
           /\ slips' \subseteq {"wake", "ignored", "overtaken"}
           /\ slips \subseteq slips'
           /\ main = "ended" => "overtaken" \in slips'
  <1>1. HasPendingFlag(s)
    BY DEF HasPendingFlag
  <1>2. opTimer' \in BOOLEAN
    BY DEF SetStatus, HasPendingFlag, Basics, StepTypeOK
  <1>3. TimerExists => opTimer'
    BY <1>1 DEF SetStatus, Basics, TimerRuns
  <1> QED
    BY <1>2, <1>3 DEF SetStatus, Basics, StepTypeOK

Resting == UNCHANGED <<callerVars, calls>>

\* Each of them step by step.  What a step does to the types, to the hand-over, to
\* the timer and to the final report has one leaf each.
Stepped == Quiet /\ StepTypeOK' /\ HandOver' /\ TimerRuns' /\ FinalReport'

Numbered == /\ STOPPED = 1 /\ START_PENDING = 2 /\ STOP_PENDING = 3 /\ RUNNING = 4
            /\ CONTINUE_PENDING = 5 /\ PAUSE_PENDING = 6 /\ PAUSED = 7

LEMMA Numbers == Numbered
  BY DEF Numbered, STOPPED, START_PENDING, STOP_PENDING, RUNNING, CONTINUE_PENDING,
         PAUSE_PENDING, PAUSED

\* The control thread.
LEMMA CtlInv ==
    ASSUME IInv, Resting,
           DispatcherFails \/ Register \/ PassArguments \/ AwaitMain \/ AnnounceStart
    PROVE  IInv'
  <1> SUFFICES Stepped
    BY QuietInv DEF Stepped
  <1>0. Basics /\ Numbered
    BY BasicFacts, Numbers
  <1> USE DEF startVars, handlerVars, statusVars, engineVars, callerVars, Resting
  <1>1. CASE DispatcherFails
    <2>1. StepTypeOK'
      BY <1>0, <1>1, ExitCodesAssumption
      DEF DispatcherFails, Alive, Notify, Basics, StepTypeOK, Mains, Ctls,
          Numbered
    <2>2. Quiet
      BY <1>0, <1>1
      DEF DispatcherFails, Notify, Alive, Basics, StepTypeOK, Quiet, Late, SeenTrue,
          LeftHonestly, Up, Numbered
    <2>3. HandOver' /\ FinalReport'
      BY <1>0, <1>1
      DEF DispatcherFails, Alive, Notify, Basics, StepTypeOK, Mains, Ctls,
          HandOver, FinalReport
    <2>4. TimerRuns'
      BY <1>0, <1>1
      DEF DispatcherFails, Alive, Notify, Basics, StepTypeOK, Mains, TimerRuns,
          TimerExists
    <2> QED
      BY <2>1, <2>2, <2>3, <2>4 DEF Stepped
  <1>2. CASE Register
    <2>1. StepTypeOK'
      BY <1>0, <1>2, ExitCodesAssumption
      DEF Register, Alive, Notify, Basics, StepTypeOK, Mains, Ctls, Numbered
    <2>2. Quiet
      BY <1>0, <1>2
      DEF Register, Notify, Alive, Basics, StepTypeOK, Quiet, Late, SeenTrue,
          LeftHonestly, Up, Numbered
    <2>3. HandOver' /\ FinalReport'
      BY <1>0, <1>2
      DEF Register, Alive, Notify, Basics, StepTypeOK, Mains, Ctls, HandOver,
          FinalReport
    <2>4. TimerRuns'
      BY <1>0, <1>2
      DEF Register, Alive, Notify, Basics, StepTypeOK, Mains, TimerRuns,
          TimerExists
    <2> QED
      BY <2>1, <2>2, <2>3, <2>4 DEF Stepped
  <1>3. CASE PassArguments
    <2>1. StepTypeOK'
      BY <1>0, <1>3, ExitCodesAssumption
      DEF PassArguments, Alive, Notify, Basics, StepTypeOK, Mains, Ctls,
          Numbered
    <2>2. Quiet
      BY <1>0, <1>3
      DEF PassArguments, Notify, Alive, Basics, StepTypeOK, Quiet, Late, SeenTrue,
          LeftHonestly, Up, Numbered
    <2>3. HandOver' /\ FinalReport'
      BY <1>0, <1>3
      DEF PassArguments, Alive, Notify, Basics, StepTypeOK, Mains, Ctls,
          HandOver, FinalReport
    <2>4. TimerRuns'
      BY <1>0, <1>3
      DEF PassArguments, Alive, Notify, Basics, StepTypeOK, Mains, TimerRuns,
          TimerExists
    <2> QED
      BY <2>1, <2>2, <2>3, <2>4 DEF Stepped
  <1>4. CASE AwaitMain
    <2>1. StepTypeOK'
      BY <1>0, <1>4, ExitCodesAssumption
      DEF AwaitMain, Alive, Notify, Basics, StepTypeOK, Mains, Ctls, Numbered
    <2>2. Quiet
      BY <1>0, <1>4
      DEF AwaitMain, Notify, Alive, Basics, StepTypeOK, Quiet, Late, SeenTrue,
          LeftHonestly, Up, Numbered
    <2>3. HandOver' /\ FinalReport'
      BY <1>0, <1>4
      DEF AwaitMain, Alive, Notify, Basics, StepTypeOK, Mains, Ctls, HandOver,
          FinalReport
    <2>4. TimerRuns'
      BY <1>0, <1>4
      DEF AwaitMain, Alive, Notify, Basics, StepTypeOK, Mains, TimerRuns,
          TimerExists
    <2> QED
      BY <2>1, <2>2, <2>3, <2>4 DEF Stepped
  <1>5. CASE AnnounceStart
    <2>1. /\ status' = START_PENDING
          /\ opTimer' \in BOOLEAN
          /\ TimerExists => opTimer'
          /\ slips' \subseteq {"wake", "ignored", "overtaken"}
          /\ slips \subseteq slips'
          /\ main = "ended" => "overtaken" \in slips'
      BY <1>0, <1>5, SetStatusFacts DEF AnnounceStart, Basics, StepTypeOK, Numbered
    <2>2. StepTypeOK'
      BY <1>0, <1>5, <2>1, ExitCodesAssumption
      DEF AnnounceStart, Alive, Notify, Basics, StepTypeOK, Mains, Ctls,
          Numbered
    <2>3. Quiet
      BY <1>0, <1>5, <2>1
      DEF AnnounceStart, Notify, Alive, Basics, StepTypeOK, Quiet, Late, SeenTrue,
          LeftHonestly, Up, Numbered
    <2>4. HandOver' /\ FinalReport'
      BY <1>0, <1>5, <2>1
      DEF AnnounceStart, Alive, Notify, Basics, StepTypeOK, Mains, Ctls,
          HandOver, FinalReport
    <2>5. TimerRuns'
      BY <1>0, <1>5, <2>1
      DEF AnnounceStart, Alive, Notify, Basics, StepTypeOK, Mains, TimerRuns,
          TimerExists
    <2> QED
      BY <2>2, <2>3, <2>4, <2>5 DEF Stepped
  <1> QED
    BY <1>1, <1>2, <1>3, <1>4, <1>5

\* The main thread, up to its event loop.
LEMMA StartInv ==
    ASSUME IInv, Resting,
           AwaitArguments \/ GiveUp \/ TakeArguments \/ PreStartFails \/ Prepare \/ WakeControl
    PROVE  IInv'
  <1> SUFFICES Stepped
    BY QuietInv DEF Stepped
  <1>0. Basics /\ Numbered
    BY BasicFacts, Numbers
  <1> USE DEF startVars, handlerVars, statusVars, engineVars, callerVars, Resting
  <1>1. CASE AwaitArguments
    <2>1. StepTypeOK'
      BY <1>0, <1>1, ExitCodesAssumption
      DEF AwaitArguments, Alive, Notify, Basics, StepTypeOK, Mains, Ctls,
          Numbered
    <2>2. Quiet
      BY <1>0, <1>1
      DEF AwaitArguments, Notify, Alive, Basics, StepTypeOK, Quiet, Late, SeenTrue,
          LeftHonestly, Up, Numbered
    <2>3. HandOver' /\ FinalReport'
      BY <1>0, <1>1
      DEF AwaitArguments, Alive, Notify, Basics, StepTypeOK, Mains, Ctls,
          HandOver, FinalReport
    <2>4. TimerRuns'
      BY <1>0, <1>1
      DEF AwaitArguments, Alive, Notify, Basics, StepTypeOK, Mains, TimerRuns,
          TimerExists
    <2> QED
      BY <2>1, <2>2, <2>3, <2>4 DEF Stepped
  <1>2. CASE GiveUp
    <2>1. StepTypeOK'
      BY <1>0, <1>2, ExitCodesAssumption
      DEF GiveUp, Alive, Notify, Basics, StepTypeOK, Mains, Ctls, Numbered
    <2>2. Quiet
      BY <1>0, <1>2
      DEF GiveUp, Notify, Alive, Basics, StepTypeOK, Quiet, Late, SeenTrue,
          LeftHonestly, Up, Numbered
    <2>3. HandOver' /\ FinalReport'
      BY <1>0, <1>2
      DEF GiveUp, Alive, Notify, Basics, StepTypeOK, Mains, Ctls, HandOver,
          FinalReport
    <2>4. TimerRuns'
      BY <1>0, <1>2
      DEF GiveUp, Alive, Notify, Basics, StepTypeOK, Mains, TimerRuns,
          TimerExists
    <2> QED
      BY <2>1, <2>2, <2>3, <2>4 DEF Stepped
  <1>3. CASE TakeArguments
    <2>1. /\ status' = START_PENDING
          /\ opTimer' \in BOOLEAN
          /\ TimerExists => opTimer'
          /\ slips' \subseteq {"wake", "ignored", "overtaken"}
          /\ slips \subseteq slips'
          /\ main = "ended" => "overtaken" \in slips'
      BY <1>0, <1>3, SetStatusFacts DEF TakeArguments, Basics, StepTypeOK, Numbered
    <2>2. StepTypeOK'
      BY <1>0, <1>3, <2>1, ExitCodesAssumption
      DEF TakeArguments, Alive, Notify, Basics, StepTypeOK, Mains, Ctls,
          Numbered
    <2>3. Quiet
      BY <1>0, <1>3, <2>1
      DEF TakeArguments, Notify, Alive, Basics, StepTypeOK, Quiet, Late, SeenTrue,
          LeftHonestly, Up, Numbered
    <2>4. HandOver' /\ FinalReport'
      BY <1>0, <1>3, <2>1
      DEF TakeArguments, Alive, Notify, Basics, StepTypeOK, Mains, Ctls,
          HandOver, FinalReport
    <2>5. TimerRuns'
      BY <1>0, <1>3, <2>1
      DEF TakeArguments, Alive, Notify, Basics, StepTypeOK, Mains, TimerRuns,
          TimerExists
    <2> QED
      BY <2>2, <2>3, <2>4, <2>5 DEF Stepped
  <1>4. CASE PreStartFails
    <2>1. StepTypeOK'
      BY <1>0, <1>4, ExitCodesAssumption
      DEF PreStartFails, Alive, Notify, Basics, StepTypeOK, Mains, Ctls,
          Numbered
    <2>2. Quiet
      BY <1>0, <1>4
      DEF PreStartFails, Notify, Alive, Basics, StepTypeOK, Quiet, Late, SeenTrue,
          LeftHonestly, Up, Numbered
    <2>3. HandOver' /\ FinalReport'
      BY <1>0, <1>4
      DEF PreStartFails, Alive, Notify, Basics, StepTypeOK, Mains, Ctls,
          HandOver, FinalReport
    <2>4. TimerRuns'
      BY <1>0, <1>4
      DEF PreStartFails, Alive, Notify, Basics, StepTypeOK, Mains, TimerRuns,
          TimerExists
    <2> QED
      BY <2>1, <2>2, <2>3, <2>4 DEF Stepped
  <1>5. CASE Prepare
    <2>1. StepTypeOK'
      BY <1>0, <1>5, ExitCodesAssumption
      DEF Prepare, Alive, Notify, Basics, StepTypeOK, Mains, Ctls, Numbered
    <2>2. Quiet
      BY <1>0, <1>5
      DEF Prepare, Notify, Alive, Basics, StepTypeOK, Quiet, Late, SeenTrue,
          LeftHonestly, Up, Numbered
    <2>3. HandOver' /\ FinalReport'
      BY <1>0, <1>5
      DEF Prepare, Alive, Notify, Basics, StepTypeOK, Mains, Ctls, HandOver,
          FinalReport
    <2>4. TimerRuns'
      BY <1>0, <1>5
      DEF Prepare, Alive, Notify, Basics, StepTypeOK, Mains, TimerRuns,
          TimerExists
    <2> QED
      BY <2>1, <2>2, <2>3, <2>4 DEF Stepped
  <1>6. CASE WakeControl
    <2>1. StepTypeOK'
      BY <1>0, <1>6, ExitCodesAssumption
      DEF WakeControl, Alive, Notify, Basics, StepTypeOK, Mains, Ctls, Numbered
    <2>2. Quiet
      BY <1>0, <1>6
      DEF WakeControl, Notify, Alive, Basics, StepTypeOK, Quiet, Late, SeenTrue,
          LeftHonestly, Up, Numbered
    <2>3. HandOver' /\ FinalReport'
      BY <1>0, <1>6
      DEF WakeControl, Alive, Notify, Basics, StepTypeOK, Mains, Ctls, HandOver,
          FinalReport
    <2>4. TimerRuns'
      BY <1>0, <1>6
      DEF WakeControl, Alive, Notify, Basics, StepTypeOK, Mains, TimerRuns,
          TimerExists
    <2> QED
      BY <2>1, <2>2, <2>3, <2>4 DEF Stepped
  <1> QED
    BY <1>1, <1>2, <1>3, <1>4, <1>5, <1>6

\* The timer, and the way from the event loop to the end of the process.
LEMMA EndInv ==
    ASSUME IInv, Resting,
           TimerReads \/ TimerReports \/ LoopReturn \/ ReportStopped \/ ProcessEnds
    PROVE  IInv'
  <1> SUFFICES Stepped
    BY QuietInv DEF Stepped
  <1>0. Basics /\ Numbered
    BY BasicFacts, Numbers
  <1> USE DEF startVars, handlerVars, statusVars, engineVars, callerVars, Resting
  <1>1. CASE TimerReads
    <2>1. StepTypeOK'
      BY <1>0, <1>1, ExitCodesAssumption
      DEF TimerReads, Alive, Notify, Basics, StepTypeOK, Mains, Ctls, Numbered
    <2>2. Quiet
      BY <1>0, <1>1
      DEF TimerReads, Notify, Alive, Basics, StepTypeOK, Quiet, Late, SeenTrue,
          LeftHonestly, Up, Numbered
    <2>3. HandOver' /\ FinalReport'
      BY <1>0, <1>1
      DEF TimerReads, Alive, Notify, Basics, StepTypeOK, Mains, Ctls, HandOver,
          FinalReport
    <2>4. TimerRuns'
      BY <1>0, <1>1
      DEF TimerReads, Alive, Notify, Basics, StepTypeOK, Mains, TimerRuns,
          TimerExists
    <2> QED
      BY <2>1, <2>2, <2>3, <2>4 DEF Stepped
  <1>2. CASE TimerReports
    <2>1. /\ status' = seen
          /\ opTimer' \in BOOLEAN
          /\ TimerExists => opTimer'
          /\ slips' \subseteq {"wake", "ignored", "overtaken"}
          /\ slips \subseteq slips'
          /\ main = "ended" => "overtaken" \in slips'
      BY <1>0, <1>2, SetStatusFacts DEF TimerReports, Basics, StepTypeOK, Numbered
    <2>2. StepTypeOK'
      BY <1>0, <1>2, <2>1, ExitCodesAssumption
      DEF TimerReports, Alive, Notify, Basics, StepTypeOK, Mains, Ctls, Numbered
    <2>3. Quiet
      BY <1>0, <1>2, <2>1
      DEF TimerReports, Quiet, Late, SeenTrue, LeftHonestly, Up, Numbered
    <2>4. HandOver' /\ FinalReport'
      BY <1>0, <1>2, <2>1
      DEF TimerReports, Alive, Notify, Basics, StepTypeOK, Mains, Ctls,
          HandOver, FinalReport
    <2>5. TimerRuns'
      BY <1>0, <1>2, <2>1
      DEF TimerReports, Alive, Notify, Basics, StepTypeOK, Mains, TimerRuns,
          TimerExists
    <2> QED
      BY <2>2, <2>3, <2>4, <2>5 DEF Stepped
  <1>3. CASE LoopReturn
    <2>1. StepTypeOK'
      BY <1>0, <1>3, ExitCodesAssumption
      DEF LoopReturn, Alive, Notify, Basics, StepTypeOK, Mains, Ctls, Numbered
    <2>2. Quiet
      BY <1>0, <1>3
      DEF LoopReturn, Notify, Alive, Basics, StepTypeOK, Quiet, Late, SeenTrue,
          LeftHonestly, Up, Numbered
    <2>3. HandOver' /\ FinalReport'
      BY <1>0, <1>3
      DEF LoopReturn, Alive, Notify, Basics, StepTypeOK, Mains, Ctls, HandOver,
          FinalReport
    <2>4. TimerRuns'
      BY <1>0, <1>3
      DEF LoopReturn, Alive, Notify, Basics, StepTypeOK, Mains, TimerRuns,
          TimerExists
    <2> QED
      BY <2>1, <2>2, <2>3, <2>4 DEF Stepped
  <1>4. CASE ReportStopped
    <2>1. /\ status' = STOPPED
          /\ opTimer' \in BOOLEAN
          /\ TimerExists => opTimer'
          /\ slips' \subseteq {"wake", "ignored", "overtaken"}
          /\ slips \subseteq slips'
          /\ main = "ended" => "overtaken" \in slips'
      BY <1>0, <1>4, SetStatusFacts DEF ReportStopped, Basics, StepTypeOK, Numbered
    <2>2. StepTypeOK'
      BY <1>0, <1>4, <2>1, ExitCodesAssumption
      DEF ReportStopped, Alive, Notify, Basics, StepTypeOK, Mains, Ctls,
          Numbered
    <2>3. Quiet
      BY <1>0, <1>4, <2>1
      DEF ReportStopped, Notify, Alive, Basics, StepTypeOK, Quiet, Late, SeenTrue,
          LeftHonestly, Up, Numbered
    <2>4. HandOver' /\ FinalReport'
      BY <1>0, <1>4, <2>1
      DEF ReportStopped, Alive, Notify, Basics, StepTypeOK, Mains, Ctls,
          HandOver, FinalReport
    <2>5. TimerRuns'
      BY <1>0, <1>4, <2>1
      DEF ReportStopped, Alive, Notify, Basics, StepTypeOK, Mains, TimerRuns,
          TimerExists
    <2> QED
      BY <2>2, <2>3, <2>4, <2>5 DEF Stepped
  <1>5. CASE ProcessEnds
    <2>1. StepTypeOK'
      BY <1>0, <1>5, ExitCodesAssumption
      DEF ProcessEnds, Alive, Notify, Basics, StepTypeOK, Mains, Ctls, Numbered
    <2>2. Quiet
      BY <1>0, <1>5
      DEF ProcessEnds, Notify, Alive, Basics, StepTypeOK, Quiet, Late, SeenTrue,
          LeftHonestly, Up, Numbered
    <2>3. HandOver' /\ FinalReport'
      BY <1>0, <1>5
      DEF ProcessEnds, Alive, Notify, Basics, StepTypeOK, Mains, Ctls, HandOver,
          FinalReport
    <2>4. TimerRuns'
      BY <1>0, <1>5
      DEF ProcessEnds, Alive, Notify, Basics, StepTypeOK, Mains, TimerRuns,
          TimerExists
    <2> QED
      BY <2>1, <2>2, <2>3, <2>4 DEF Stepped
  <1> QED
    BY <1>1, <1>2, <1>3, <1>4, <1>5
\* The handler's thread reports what it has been asked for, before it posts it.
LEMMA HandlerAnnouncesInv ==
    ASSUME IInv, Resting, HandlerAnnounces
    PROVE  IInv'
  <1> SUFFICES Stepped
    BY QuietInv DEF Stepped
  <1> USE DEF startVars, engineVars, callerVars, Resting
  <1>0. Basics /\ Numbered
    BY BasicFacts, Numbers
  <1>1. /\ handler \in Controls /\ Alive
        /\ handler' = handler /\ announced' = TRUE
        /\ SetStatus(Announce[handler])
        /\ UNCHANGED <<main, ctl, queue, failure, seen, eng, awaiting, stopCalled,
                       leaving, exitCode, startType, caller, calls>>
    BY <1>0 DEF HandlerAnnounces, Basics, StepTypeOK
  <1>2. /\ Announce[handler] \in {STOP_PENDING, PAUSE_PENDING, CONTINUE_PENDING}
        /\ Announce[handler] # STOP_PENDING => handler \in {"PAUSE", "CONTINUE"}
    BY <1>1 DEF Announce, Controls
  <1>3. Announce[handler] \in 1..7
    BY <1>0, <1>2 DEF Numbered
  <1>4. /\ status' = Announce[handler]
        /\ opTimer' \in BOOLEAN
        /\ TimerExists => opTimer'
        /\ slips' \subseteq {"wake", "ignored", "overtaken"}
        /\ slips \subseteq slips'
        /\ main = "ended" => "overtaken" \in slips'
    BY <1>0, <1>1, <1>3, SetStatusFacts
  <1>5. announced' \in BOOLEAN
    BY <1>1
  <1>6. StepTypeOK'
    BY <1>0, <1>1, <1>3, <1>4, <1>5 DEF Basics, StepTypeOK
  <1>7. Quiet
    BY <1>0, <1>1, <1>2, <1>4 DEF Basics, Quiet, SeenTrue, LeftHonestly, Up, Numbered
  <1>8. HandOver' /\ FinalReport'
    BY <1>0, <1>1, <1>4 DEF Basics, HandOver, FinalReport, Alive
  <1>9. TimerRuns'
    BY <1>1, <1>4 DEF TimerRuns, TimerExists
  <1> QED
    BY <1>6, <1>7, <1>8, <1>9 DEF Stepped

\* The manager sends a control code, or starts the process.
LEMMA ControlInv ==
    ASSUME IInv, NEW code \in Controls, Control(code),
           code \in {"PAUSE", "CONTINUE"} => status \in Up,
           UNCHANGED callerVars, calls' \in 0..MaxCalls
    PROVE  IInv'
  <1> SUFFICES Stepped
    BY QuietInv DEF Stepped
  <1> USE DEF startVars, statusVars, engineVars, callerVars
  <1>0. Basics
    BY BasicFacts
  <1>1. /\ handler' = code /\ announced' = FALSE
        /\ UNCHANGED <<main, ctl, queue, status, opTimer, slips, failure, seen, eng,
                       awaiting, stopCalled, leaving, exitCode, startType, caller>>
    BY DEF Control
  <1>2. announced' \in BOOLEAN
    BY <1>1
  <1>3. StepTypeOK'
    BY <1>0, <1>1, <1>2 DEF Basics, StepTypeOK
  <1>4. Quiet
    BY <1>0, <1>1 DEF Basics, Quiet, SeenTrue, LeftHonestly
  <1>5. HandOver' /\ FinalReport' /\ TimerRuns'
    BY <1>0, <1>1 DEF Basics, HandOver, FinalReport, TimerRuns, TimerExists
  <1> QED
    BY <1>3, <1>4, <1>5 DEF Stepped

LEMMA LaunchInv ==
    ASSUME IInv, Launch, UNCHANGED callerVars, calls' \in 0..MaxCalls
    PROVE  IInv'
  <1> SUFFICES Stepped
    BY QuietInv DEF Stepped
  <1> USE DEF handlerVars, statusVars, engineVars, callerVars
  <1>0. Basics /\ Numbered
    BY BasicFacts, Numbers
  <1>1. /\ main = "off" /\ main' = "spawn" /\ status' = START_PENDING
        /\ UNCHANGED <<ctl, handler, announced, queue, opTimer, slips, failure, seen, eng,
                       awaiting, stopCalled, leaving, exitCode, startType, caller>>
    BY DEF Launch
  <1>2. StepTypeOK'
    BY <1>0, <1>1 DEF Basics, StepTypeOK, Mains, Numbered
  <1>3. Quiet
    BY <1>0, <1>1 DEF Basics, Quiet, SeenTrue, Late, Up, Numbered
  <1>4. HandOver' /\ FinalReport' /\ TimerRuns'
    BY <1>0, <1>1 DEF Basics, HandOver, FinalReport, TimerRuns, TimerExists
  <1> QED
    BY <1>2, <1>3, <1>4 DEF Stepped

LEMMA ManagerInv ==
    ASSUME IInv, Start \/ SystemStarts \/ SystemStops \/ \E code \in Controls : Send(code)
    PROVE  IInv'
  <1>1. calls' \in 0..MaxCalls /\ UNCHANGED callerVars
    <2>1. calls \in 0..MaxCalls
      BY DEF IInv, TypeOK
    <2> QED
      BY <2>1, MaxCallsAssumption DEF Start, SystemStarts, SystemStops, Send, Budget
  <1>2. CASE Start \/ SystemStarts
    BY <1>1, <1>2, LaunchInv DEF Start, SystemStarts
  <1>3. CASE SystemStops
    BY <1>1, <1>3, ControlInv DEF SystemStops, Shutdown, Controls
  <1>4. CASE \E code \in Controls : Send(code)
    BY <1>1, <1>4, ControlInv DEF Send, AcceptsControls, Up
  <1> QED
    BY <1>2, <1>3, <1>4

-----------------------------------------------------------------------------
(* Steps that post a command                                                *)

LEMMA PostInv ==
    ASSUME IInv, NEW command \in Commands, queue' = Append(queue, command),
           UNCHANGED <<main, seen, eng, awaiting, stopCalled, leaving, exitCode, callerVars>>,
           StepTypeOK', HandOver', TimerRuns', FinalReport',
           status' = status \/ status' \notin Up,
           handler' \in {"PAUSE", "CONTINUE"} => handler' = handler,
           command \in {"Pause", "Resume"} => handler \in {"PAUSE", "CONTINUE"},
           IF command = "Start" THEN ctl # "done" /\ ctl' = "done" ELSE ctl' = ctl
    PROVE  IInv'
  <1>0. queue \in Seq(Commands)
    BY DEF IInv, TypeOK, ServiceTypeOK
  <1>1. /\ queue' \in Seq(Commands)
        /\ \A c : Queued(c)' <=> Queued(c) \/ c = command
    BY <1>0, PostFacts DEF Queued
  <1>2. Once(queue', "Start")
    <2>1. command = "Start" => ~Queued("Start")
      BY DEF IInv, StartOnce
    <2> QED
      BY <1>0, <2>1, OnceFacts DEF IInv, StartOnce, Queued
  <1>3. TypeOK'
    BY <1>1 DEF IInv, TypeOK, ServiceTypeOK, StepTypeOK, callerVars
  <1>4. NothingBeforeLoop' /\ OpenCommand' /\ ServerMatches(eng')
    BY DEF IInv, NothingBeforeLoop, OpenCommand
  <1>5. RunningFirst'
    BY <1>1 DEF IInv, RunningFirst, Up
  <1>6. StartOnce'
    BY <1>1, <1>2 DEF IInv, StartOnce
  <1>7. LeftHonestly'
    BY <1>1 DEF IInv, LeftHonestly
  <1>8. ReportedStateTrue'
    BY DEF IInv, ReportedStateTrue, Up
  <1>9. SeenTrue'
    BY DEF IInv, SeenTrue, True
  <1>10. AskedFirst'
    BY DEF IInv, AskedFirst, callerVars
  <1> QED
    BY <1>3, <1>4, <1>5, <1>6, <1>7, <1>8, <1>9, <1>10 DEF IInv

LEMMA PosterInv ==
    ASSUME IInv, Resting, PostStart \/ HandlerPosts \/ UserQuit
    PROVE  IInv'
  <1> USE DEF startVars, handlerVars, statusVars, engineVars, callerVars, Resting
  <1>0. Basics /\ Numbered /\ {"Start", "Stop", "Pause", "Resume"} \subseteq Commands
    BY BasicFacts, Numbers DEF Commands
  <1>1. CASE PostStart
    <2>1. /\ ctl = "starting" /\ ctl' = "done" /\ queue' = Append(queue, "Start")
          /\ UNCHANGED <<main, handler, announced, status, opTimer, slips, failure, seen,
                         eng, awaiting, stopCalled, leaving, exitCode, startType, caller,
                         calls>>
      BY <1>1 DEF PostStart
    <2>2. StepTypeOK' /\ HandOver' /\ TimerRuns' /\ FinalReport'
      BY <1>0, <2>1
      DEF Basics, StepTypeOK, Ctls, HandOver, TimerRuns, TimerExists, FinalReport
    <2> QED
      BY <1>0, <2>1, <2>2, PostInv
  <1>2. CASE HandlerPosts
    <2>1. /\ handler \in Controls /\ handler' = "idle" /\ announced' = FALSE
          /\ queue' = Append(queue, CommandOf[handler])
          /\ UNCHANGED <<main, ctl, status, opTimer, slips, failure, seen, eng, awaiting,
                         stopCalled, leaving, exitCode, startType, caller, calls>>
      BY <1>0, <1>2 DEF HandlerPosts, Basics, StepTypeOK
    <2>2. /\ CommandOf[handler] \in Commands /\ CommandOf[handler] # "Start"
          /\ CommandOf[handler] \in {"Pause", "Resume"} => handler \in {"PAUSE", "CONTINUE"}
      BY <2>1 DEF CommandOf, Controls, Commands
    <2>3. announced' \in BOOLEAN
      BY <2>1
    <2>4. StepTypeOK' /\ HandOver' /\ TimerRuns' /\ FinalReport'
      BY <1>0, <2>1, <2>3
      DEF Basics, StepTypeOK, HandOver, TimerRuns, TimerExists, FinalReport
    <2> QED
      BY <2>1, <2>2, <2>4, PostInv
  <1>3. CASE UserQuit
    <2>1. /\ main = "loop" /\ queue' = Append(queue, "Stop") /\ SetStatus(STOP_PENDING)
          /\ UNCHANGED <<main, ctl, handler, announced, failure, seen, eng, awaiting,
                         stopCalled, leaving, exitCode, startType, caller, calls>>
      BY <1>3 DEF UserQuit
    <2>2. /\ status' = STOP_PENDING
          /\ opTimer' \in BOOLEAN
          /\ TimerExists => opTimer'
          /\ slips' \subseteq {"wake", "ignored", "overtaken"}
      BY <1>0, <2>1, SetStatusFacts DEF Numbered
    <2>3. StepTypeOK' /\ HandOver' /\ TimerRuns' /\ FinalReport'
      BY <1>0, <2>1, <2>2
      DEF Basics, StepTypeOK, HandOver, TimerRuns, TimerExists, FinalReport, Numbered
    <2>4. status' \notin Up
      BY <1>0, <2>2 DEF Up, Numbered
    <2> QED
      BY <1>0, <2>1, <2>3, <2>4, PostInv
  <1> QED
    BY <1>1, <1>2, <1>3

-----------------------------------------------------------------------------
(* Steps of the engine                                                      *)

\* What the invariant asks of a step of the event loop.
LEMMA LoopInv ==
    ASSUME IInv, main = "loop",
           UNCHANGED <<startVars, handlerVars, failure, seen, callerVars, calls>>,
           queue' \in Seq(Commands), eng' \in Engine, ServerMatches(eng'),
           awaiting' \subseteq Commands,
           stopCalled' \in BOOLEAN, leaving' \in BOOLEAN, exitCode' \in ExitCodes,
           status' \in 1..7, opTimer' \in BOOLEAN, opTimer',
           slips' \subseteq {"wake", "ignored", "overtaken"},
           OpenCommand', RunningFirst', StartOnce', LeftHonestly', ReportedStateTrue'
    PROVE  IInv'
  <1>0. Numbered
    BY Numbers
  <1>1. UNCHANGED <<main, ctl, handler, announced, failure, seen, startType, caller, calls>>
    BY DEF startVars, handlerVars, callerVars
  <1>2. TypeOK'
    BY <1>1 DEF IInv, TypeOK, ServiceTypeOK
  <1>3. HandOver' /\ NothingBeforeLoop' /\ FinalReport'
    BY <1>1 DEF IInv, HandOver, NothingBeforeLoop, FinalReport
  <1>4. TimerRuns'
    BY DEF TimerRuns
  <1>5. SeenTrue'
    BY <1>0, <1>1 DEF IInv, SeenTrue, True, Numbered
  <1>6. AskedFirst'
    BY <1>1 DEF IInv, AskedFirst
  <1> QED
    BY <1>2, <1>3, <1>4, <1>5, <1>6 DEF IInv

\* The slots of the backend: what is reported, and what leaves the event loop.
LEMMA SlotReports ==
    ASSUME Basics, main = "loop", NEW command \in Commands, NEW emission,
           emission.signal = SignalOf[command], emission.success \in BOOLEAN,
           React(emission)
    PROVE  /\ status' \in 1..7 /\ opTimer'
           /\ opTimer' \in BOOLEAN
           /\ slips' \subseteq {"wake", "ignored", "overtaken"}
           /\ command \in {"Stop", "Reload"} => status' = status
           /\ command = "Start" /\ emission.success => status' = RUNNING
           /\ command = "Start" /\ ~emission.success => status' = STOP_PENDING
           /\ command = "Pause" /\ emission.success => status' = PAUSED
           /\ command = "Pause" /\ ~emission.success => status' = RUNNING
           /\ command = "Resume" /\ emission.success => status' = RUNNING
           /\ command = "Resume" /\ ~emission.success => status' = PAUSED
  <1>0. Numbered /\ TimerExists
    BY Numbers DEF TimerExists
  <1>1. CASE command \in {"Stop", "Reload"}
    <2>1. UNCHANGED statusVars
      BY <1>1 DEF React, SignalOf
    <2> QED
      BY <1>0, <1>1, <2>1 DEF statusVars, Basics, StepTypeOK, TimerRuns
  <1> DEFINE s == CASE command = "Start" /\ emission.success    -> RUNNING
                    [] command = "Start" /\ ~emission.success   -> STOP_PENDING
                    [] command = "Pause" /\ emission.success    -> PAUSED
                    [] command = "Pause" /\ ~emission.success   -> RUNNING
                    [] command = "Resume" /\ emission.success   -> RUNNING
                    [] command = "Resume" /\ ~emission.success  -> PAUSED
  <1>2. CASE command \in {"Start", "Pause", "Resume"}
    <2>1. SetStatus(s)
      <3>1. CASE command = "Start"
        BY <3>1 DEF React, SignalOf, OnStarted
      <3>2. CASE command = "Pause"
        BY <3>2 DEF React, SignalOf, OnPaused
      <3>3. CASE command = "Resume"
        BY <3>3 DEF React, SignalOf, OnResumed
      <3> QED
        BY <1>2, <3>1, <3>2, <3>3
    <2>2. s \in 1..7
      BY <1>0, <1>2 DEF Numbered
    <2>3. /\ status' = s
          /\ opTimer' \in BOOLEAN
          /\ TimerExists => opTimer'
          /\ slips' \subseteq {"wake", "ignored", "overtaken"}
      BY <2>1, <2>2, SetStatusFacts
    <2> QED
      BY <1>0, <1>2, <2>2, <2>3
  <1> QED
    BY <1>1, <1>2 DEF Commands

LEMMA LeaveFacts ==
    ASSUME leaving \in BOOLEAN, exitCode \in ExitCodes, NEW command \in Commands, NEW emission,
           emission.signal = SignalOf[command], emission.success \in BOOLEAN,
           command = "Stop" => emission.code \in ExitCodes,
           Leave(emission)
    PROVE  /\ leaving' \in BOOLEAN
           /\ leaving' <=> \/ leaving \/ command = "Stop"
                           \/ command = "Start" /\ ~emission.success
           /\ exitCode' \in ExitCodes
           /\ command = "Start" /\ ~emission.success => exitCode' = 1
           /\ command # "Stop" /\ ~(command = "Start" /\ ~emission.success)
                 => exitCode' = exitCode
  <1>1. /\ emission.signal = "started" <=> command = "Start"
        /\ emission.signal = "stopped" <=> command = "Stop"
    BY DEF Commands, SignalOf
  <1>2. leaving' \in BOOLEAN
    BY DEF Leave
  <1>3. leaving' <=> \/ leaving \/ command = "Stop"
                     \/ command = "Start" /\ ~emission.success
    BY <1>1 DEF Leave
  <1>4. /\ exitCode' \in ExitCodes
        /\ command = "Start" /\ ~emission.success => exitCode' = 1
        /\ command # "Stop" /\ ~(command = "Start" /\ ~emission.success)
              => exitCode' = exitCode
    BY <1>1, ExitCodesAssumption DEF Leave
  <1> QED
    BY <1>2, <1>3, <1>4

\* A command that the engine had every reason to close is closed.
Due(command) ==
    /\ command = "Stop" => stopCalled'
    /\ command = "Start" => /\ ctl = "done" /\ ~Queued("Start")' /\ "Start" \notin awaiting'
                            /\ (~eng.isRunning /\ ~leaving) \/ stopCalled
    /\ command \in {"Pause", "Resume"} => eng.isRunning \/ stopCalled
    /\ command = "Pause" => ~eng.wasPaused \/ stopCalled
    /\ command = "Resume" => eng.wasPaused \/ stopCalled

LEMMA AnswerInv ==
    ASSUME IInv, main = "loop",
           UNCHANGED <<startVars, handlerVars, failure, seen, callerVars, calls>>,
           NEW command \in Commands, Due(command),
           stopCalled' \in BOOLEAN, stopCalled => stopCalled',
           awaiting' \subseteq awaiting, ~stopCalled' => awaiting' = {},
           queue' \in Seq(Commands), Once(queue', "Start"),
           \A c \in Commands : Queued(c)' => Queued(c) \/ c = "Stop",
           NEW emission, emission.signal = SignalOf[command], emission.success \in BOOLEAN,
           command = "Stop" => emission.code \in ExitCodes,
           Closes(eng, command, eng', emission), Leave(emission),
           \/ React(emission)
           \/ /\ command = "Start" /\ emission.success
              /\ status' = STOP_PENDING
              /\ opTimer' = HasPendingFlag(STOP_PENDING) /\ slips' = slips
    PROVE  IInv'
  <1>0. /\ Basics /\ Numbered
        /\ awaiting \subseteq Commands
        /\ leaving \in BOOLEAN
        /\ exitCode \in ExitCodes
    BY BasicFacts, Numbers DEF IInv, TypeOK, ServiceTypeOK
  <1>1. /\ leaving' \in BOOLEAN
        /\ leaving' <=> \/ leaving \/ command = "Stop"
                        \/ command = "Start" /\ ~emission.success
        /\ exitCode' \in ExitCodes
        /\ command = "Start" /\ ~emission.success => exitCode' = 1
        /\ command # "Stop" /\ ~(command = "Start" /\ ~emission.success)
              => exitCode' = exitCode
    BY <1>0, LeaveFacts
  <1>2. /\ status' \in 1..7 /\ opTimer'
        /\ opTimer' \in BOOLEAN
        /\ slips' \subseteq {"wake", "ignored", "overtaken"}
        /\ command \in {"Stop", "Reload"} => status' = status
        /\ command = "Start" /\ emission.success => status' \in {RUNNING, STOP_PENDING}
        /\ command = "Start" /\ ~emission.success => status' = STOP_PENDING
        /\ command = "Pause" /\ emission.success => status' = PAUSED
        /\ command = "Pause" /\ ~emission.success => status' = RUNNING
        /\ command = "Resume" /\ emission.success => status' = RUNNING
        /\ command = "Resume" /\ ~emission.success => status' = PAUSED
    <2>1. CASE React(emission)
      BY <1>0, <2>1, SlotReports
    <2>2. CASE /\ command = "Start" /\ emission.success
               /\ status' = STOP_PENDING
               /\ opTimer' = HasPendingFlag(STOP_PENDING) /\ slips' = slips
      <3>1. opTimer' \in BOOLEAN
        BY <2>2 DEF HasPendingFlag
      <3>2. HasPendingFlag(STOP_PENDING)
        BY <1>0 DEF HasPendingFlag, Numbered
      <3>3. opTimer'
        BY <2>2, <3>2
      <3> QED
        BY <1>0, <2>2, <3>1, <3>3 DEF Basics, StepTypeOK, Numbered
    <2> QED
      BY <2>1, <2>2
  <1>3. /\ eng' \in Engine /\ ServerMatches(eng')
        /\ eng'.isRunning <=> \/ command # "Stop" /\ eng.isRunning
                              \/ command = "Start" /\ emission.success
        /\ eng'.wasPaused <=> \/ ~(command = "Resume" /\ emission.success) /\ eng.wasPaused
                              \/ command = "Pause" /\ emission.success
    BY DEF Closes
  <1>4. RunningFirst /\ StartOnce /\ LeftHonestly /\ OpenCommand /\ ReportedStateTrue
    BY DEF IInv
  <1>5. UNCHANGED <<main, ctl, handler, seen>>
    BY DEF startVars, handlerVars
  <1>6. "Start" \in Commands /\ "Pause" \in Commands /\ "Resume" \in Commands
    BY DEF Commands
  <1>7. OpenCommand'
    BY <1>4 DEF OpenCommand
  <1>8. RunningFirst'
    BY <1>0, <1>2, <1>3, <1>4, <1>5, <1>6 DEF RunningFirst, Due, Up, Commands, Numbered
  <1>9. StartOnce'
    BY <1>3, <1>4, <1>5, <1>6 DEF StartOnce, Due
  <1>10. LeftHonestly'
    BY <1>1, <1>3, <1>4, <1>5, <1>6 DEF LeftHonestly, Due
  <1>11. ReportedStateTrue'
    BY <1>0, <1>2, <1>3, <1>4, <1>5, <1>6
    DEF ReportedStateTrue, RunningFirst, Due, Numbered, Commands
  <1> QED
    BY <1>0, <1>1, <1>2, <1>3, <1>7, <1>8, <1>9, <1>10, <1>11, LoopInv

\* A command that is refused or skipped, or that the service leaves open.
LEMMA OpenInv ==
    ASSUME IInv, main = "loop",
           UNCHANGED <<startVars, handlerVars, failure, seen, callerVars, calls>>,
           UNCHANGED <<leaving, exitCode, status, opTimer>>,
           slips' \subseteq {"wake", "ignored", "overtaken"},
           NEW command \in Commands,
           command \in {"Start", "Pause", "Resume"} => Queued(command),
           command = "Start" => ~Queued("Start")',
           eng' = Begin(eng, command),
           awaiting' = awaiting \cup (IF Calls(eng, command) THEN {command} ELSE {}),
           stopCalled' \in BOOLEAN, stopCalled' <=> stopCalled \/ command = "Stop",
           queue' \in Seq(Commands), Once(queue', "Start"),
           \A c \in Commands : Queued(c)' => Queued(c)
    PROVE  IInv'
  <1>0. /\ TimerExists /\ TimerRuns /\ awaiting \subseteq Commands
        /\ eng \in Engine /\ ServerMatches(eng)
        /\ status \in 1..7
        /\ opTimer \in BOOLEAN
        /\ leaving \in BOOLEAN
        /\ exitCode \in ExitCodes
    BY DEF IInv, TypeOK, ServiceTypeOK, TimerExists
  <1>1. /\ eng' \in Engine /\ ServerMatches(eng') /\ eng'.operating
        /\ eng'.isRunning = eng.isRunning /\ eng'.wasPaused = eng.wasPaused
    BY <1>0, BeginFacts
  <1>2. awaiting' \subseteq Commands
    BY <1>0
  <1>3. leaving' \in BOOLEAN
    BY <1>0
  <1>4. opTimer' \in BOOLEAN /\ opTimer'
    BY <1>0 DEF TimerRuns
  <1>5. RunningFirst /\ StartOnce /\ LeftHonestly /\ OpenCommand /\ ReportedStateTrue
    BY DEF IInv
  <1>6. UNCHANGED <<main, ctl, handler, seen>>
    BY DEF startVars, handlerVars
  <1>7. "Start" \in Commands /\ "Pause" \in Commands /\ "Resume" \in Commands
    BY DEF Commands
  <1>8. ~stopCalled' => \/ awaiting' = awaiting
                        \/ awaiting = {} /\ awaiting' = {command} /\ Calls(eng, command)
    BY <1>5 DEF OpenCommand, Calls, Accepts
  <1>9. OpenCommand'
    <2>1. "Stop" \in awaiting' => stopCalled'
      BY <1>5 DEF OpenCommand
    <2> QED
      BY <1>1, <1>5, <1>8, <2>1 DEF OpenCommand, Calls
  <1>10. RunningFirst'
    BY <1>1, <1>5, <1>6, <1>7, <1>8 DEF RunningFirst
  <1>11. StartOnce'
    <2>1. "Start" \in awaiting' => ctl = "done" /\ ~Queued("Start")'
      BY <1>5, <1>7 DEF StartOnce
    <2> QED
      BY <1>1, <1>5, <1>6, <1>7, <2>1 DEF StartOnce
  <1>12. LeftHonestly'
    BY <1>1, <1>5, <1>6, <1>7 DEF LeftHonestly
  <1>13. ReportedStateTrue'
    BY <1>1, <1>5 DEF ReportedStateTrue
  <1> QED
    BY <1>0, <1>1, <1>2, <1>3, <1>4, <1>9, <1>10, <1>11, <1>12, <1>13, LoopInv

LEMMA HandleCommandInv ==
    ASSUME IInv, Resting, HandleCommand
    PROVE  IInv'
  <1> DEFINE command == Head(queue)
  <1>0. /\ queue \in Seq(Commands) /\ queue # <<>> /\ main = "loop"
        /\ eng \in Engine /\ ServerMatches(eng) /\ awaiting \subseteq Commands
        /\ Basics /\ Numbered
        /\ RunningFirst /\ StartOnce /\ LeftHonestly /\ OpenCommand
    BY BasicFacts, Numbers DEF IInv, TypeOK, ServiceTypeOK, HandleCommand
  <1>1. UNCHANGED <<startVars, handlerVars, failure, seen, callerVars, calls>>
    BY DEF HandleCommand, Resting
  <1>2. PICK r \in Process(eng, command, ExitCodes) :
           /\ eng' = r.eng
           /\ awaiting' = awaiting \cup r.pending
           /\ stopCalled' = (stopCalled \/ command = "Stop")
           /\ Leave(r.emission)
           /\ IF r.quits
              THEN /\ status' = STOP_PENDING /\ opTimer' = HasPendingFlag(STOP_PENDING)
                   /\ queue' = Append(Tail(queue), "Stop")
                   /\ UNCHANGED slips
              ELSE /\ queue' = Tail(queue)
                   /\ IF Calls(eng, command) THEN React(r.emission)
                      ELSE slips' = slips \cup {"ignored"} /\ UNCHANGED <<status, opTimer>>
    BY DEF HandleCommand
  <1>3. /\ Tail(queue) \in Seq(Commands) /\ Queued(command)
        /\ \A y : Queued(y) <=> Holds(Tail(queue), y) \/ y = command
    BY <1>0, TakeFacts DEF Queued
  <1>4. /\ Once(Tail(queue), "Start")
        /\ command = "Start" => ~Holds(Tail(queue), "Start")
    BY <1>0, OnceFacts DEF StartOnce
  <1>5. command \in Commands /\ "Stop" \in Commands /\ "Start" # "Stop"
    <2>1. Head(queue) = queue[1] /\ 1 \in 1..Len(queue)
      BY <1>0, HeadTailProperties, EmptySeq, LenProperties
    <2> QED
      BY <1>0, <2>1, ElementOfSeq DEF Commands
  <1> HIDE DEF command
  <1>6. stopCalled' \in BOOLEAN /\ (stopCalled' <=> stopCalled \/ command = "Stop")
    BY <1>2
  <1>7. queue' = Tail(queue) \/ queue' = Append(Tail(queue), "Stop")
    BY <1>2
  <1>8. /\ queue' \in Seq(Commands) /\ Once(queue', "Start")
        /\ \A y : Queued(y)' => Holds(Tail(queue), y) \/ y = "Stop"
    <2>1. CASE queue' = Tail(queue)
      BY <1>3, <1>4, <2>1 DEF Queued
    <2>2. CASE queue' = Append(Tail(queue), "Stop")
      <3>1. /\ Append(Tail(queue), "Stop") \in Seq(Commands)
            /\ \A y : Holds(Append(Tail(queue), "Stop"), y)
                      <=> Holds(Tail(queue), y) \/ y = "Stop"
        BY <1>3, <1>5, PostFacts
      <3>2. Once(Append(Tail(queue), "Stop"), "Start")
        BY <1>3, <1>4, <1>5, OnceFacts
      <3> QED
        BY <2>2, <3>1, <3>2 DEF Queued
    <2> QED
      BY <1>7, <2>1, <2>2
  <1>9. LeavesOpen(eng, command, r) \/ AnswersAtOnce(eng, command, ExitCodes, r)
    BY <1>0, <1>2, <1>5, ProcessFacts
  <1>10. CASE LeavesOpen(eng, command, r)
    <2>1. /\ eng' = Begin(eng, command) /\ ~r.quits
          /\ awaiting' = awaiting \cup (IF Calls(eng, command) THEN {command} ELSE {})
          /\ r.emission = Silent
      BY <1>2, <1>10 DEF LeavesOpen
    <2>2. UNCHANGED <<leaving, exitCode>>
      BY <1>2, <2>1 DEF Leave, Silent
    <2>3. queue' = Tail(queue)
      BY <1>2, <2>1
    <2>4. /\ UNCHANGED <<status, opTimer>>
          /\ slips' \subseteq {"wake", "ignored", "overtaken"}
      BY <1>0, <1>2, <2>1 DEF React, Silent, statusVars, Basics, StepTypeOK
    <2>5. \A y : Queued(y)' => Queued(y) /\ (command = "Start" => y # "Start")
      BY <1>3, <1>4, <2>3 DEF Queued
    <2> QED
      BY <1>0, <1>1, <1>3, <1>5, <1>6, <1>8, <2>1, <2>2, <2>4, <2>5, OpenInv
  <1>11. CASE AnswersAtOnce(eng, command, ExitCodes, r)
    <2>1. /\ Calls(eng, command) /\ awaiting' = awaiting
          /\ Closes(eng, command, eng', r.emission)
          /\ r.emission.signal = SignalOf[command]
          /\ r.emission.success \in BOOLEAN
          /\ command = "Stop" => r.emission.code \in ExitCodes \cup {1}
          /\ r.quits => command = "Start" /\ r.emission.success
      BY <1>2, <1>11 DEF AnswersAtOnce
    <2>2. command = "Stop" => r.emission.code \in ExitCodes
      BY <2>1, ExitCodesAssumption
    <2>3. ~stopCalled' => awaiting' = {}
      BY <1>0, <1>6, <2>1 DEF OpenCommand, Calls, Accepts
    <2>4. Due(command)
      BY <1>0, <1>3, <1>4, <1>5, <1>6, <1>8, <2>1
      DEF Due, StartOnce, LeftHonestly, RunningFirst, Calls
    <2>5. \/ React(r.emission)
          \/ /\ command = "Start" /\ r.emission.success
             /\ status' = STOP_PENDING
             /\ opTimer' = HasPendingFlag(STOP_PENDING) /\ slips' = slips
      BY <1>2, <2>1
    <2>6. \A c \in Commands : Queued(c)' => Queued(c) \/ c = "Stop"
      BY <1>3, <1>8
    <2> QED
      BY <1>0, <1>1, <1>2, <1>5, <1>6, <1>8, <2>1, <2>2, <2>3, <2>4, <2>5, <2>6, AnswerInv
  <1> QED
    BY <1>9, <1>10, <1>11

LEMMA UserEmitInv ==
    ASSUME IInv, Resting, NEW command \in Commands, UserEmit(command)
    PROVE  IInv'
  <1>0. /\ queue \in Seq(Commands) /\ main = "loop" /\ command \in awaiting
        /\ eng \in Engine /\ ServerMatches(eng) /\ stopCalled \in BOOLEAN
        /\ RunningFirst /\ StartOnce /\ LeftHonestly /\ OpenCommand
    BY DEF IInv, TypeOK, ServiceTypeOK, UserEmit
  <1>1. /\ UNCHANGED <<startVars, handlerVars, failure, seen, callerVars, calls>>
        /\ queue' = queue /\ stopCalled' = stopCalled
        /\ awaiting' = awaiting \ {command}
    BY DEF UserEmit, Resting
  <1>2. PICK r \in Emits(eng, command, ExitCodes) :
           eng' = r.eng /\ Leave(r.emission) /\ React(r.emission)
    BY DEF UserEmit
  <1>3. /\ Closes(eng, command, eng', r.emission)
        /\ r.emission.signal = SignalOf[command]
        /\ r.emission.success \in BOOLEAN
        /\ command = "Stop" => r.emission.code \in ExitCodes
    BY <1>0, <1>2, EmitsFacts
  <1>4. stopCalled' \in BOOLEAN /\ queue' \in Seq(Commands) /\ Once(queue', "Start")
    BY <1>0, <1>1 DEF StartOnce
  <1>5. \A c : Queued(c)' <=> Queued(c)
    BY <1>1 DEF Queued
  <1>6. ~stopCalled' => awaiting' = {}
    BY <1>0, <1>1 DEF OpenCommand
  <1>7. Due(command)
    BY <1>0, <1>1, <1>5 DEF Due, StartOnce, LeftHonestly, RunningFirst, OpenCommand
  <1> QED
    BY <1>0, <1>1, <1>2, <1>3, <1>4, <1>5, <1>6, <1>7, AnswerInv

\* The service reloads itself; nothing is reported to the manager.
LEMMA UserReloadInv ==
    ASSUME IInv, Resting, UserReload
    PROVE  IInv'
  <1>0. /\ queue \in Seq(Commands) /\ main = "loop" /\ TimerRuns
        /\ eng \in Engine /\ ServerMatches(eng) /\ awaiting \subseteq Commands
        /\ stopCalled \in BOOLEAN
        /\ RunningFirst /\ StartOnce /\ LeftHonestly /\ OpenCommand /\ ReportedStateTrue
        /\ Basics /\ "Reload" \in Commands
    BY BasicFacts DEF IInv, TypeOK, ServiceTypeOK, UserReload, Commands
  <1>1. /\ UNCHANGED <<startVars, handlerVars, failure, seen, callerVars, calls>>
        /\ UNCHANGED <<queue, status, opTimer, slips, stopCalled, leaving, exitCode>>
    BY DEF UserReload, Resting, statusVars
  <1>2. PICK r \in Process(eng, "Reload", ExitCodes) :
           eng' = r.eng /\ awaiting' = awaiting \cup r.pending
    BY DEF UserReload
  <1>3. LeavesOpen(eng, "Reload", r) \/ AnswersAtOnce(eng, "Reload", ExitCodes, r)
    BY <1>0, <1>2, ProcessFacts
  <1>4. stopCalled' \in BOOLEAN /\ queue' \in Seq(Commands) /\ Once(queue', "Start")
    BY <1>0, <1>1 DEF StartOnce
  <1>5. \A c : Queued(c)' <=> Queued(c)
    BY <1>1 DEF Queued
  <1>6. slips' \subseteq {"wake", "ignored", "overtaken"}
    BY <1>0, <1>1 DEF Basics, StepTypeOK
  <1>7. CASE LeavesOpen(eng, "Reload", r)
    <2>1. /\ eng' = Begin(eng, "Reload")
          /\ awaiting' = awaiting \cup (IF Calls(eng, "Reload") THEN {"Reload"} ELSE {})
      BY <1>2, <1>7 DEF LeavesOpen
    <2>2. stopCalled' <=> stopCalled \/ "Reload" = "Stop"
      BY <1>1
    <2> QED
      BY <1>0, <1>1, <1>4, <1>5, <1>6, <2>1, <2>2, OpenInv
  <1>8. CASE AnswersAtOnce(eng, "Reload", ExitCodes, r)
    <2>1. /\ Calls(eng, "Reload") /\ awaiting' = awaiting
          /\ Closes(eng, "Reload", eng', r.emission)
          /\ r.emission.signal = SignalOf["Reload"]
          /\ r.emission.success \in BOOLEAN
      BY <1>2, <1>8 DEF AnswersAtOnce
    <2>2. r.emission.signal = "reloaded"
      BY <2>1 DEF SignalOf
    <2>3. Leave(r.emission) /\ React(r.emission)
      BY <1>1, <2>2 DEF Leave, React, statusVars
    <2>4. ~stopCalled' => awaiting' = {}
      BY <1>0, <1>1, <2>1 DEF OpenCommand, Calls, Accepts
    <2>5. Due("Reload")
      BY DEF Due
    <2>6. stopCalled => stopCalled'
      BY <1>1
    <2>7. \A c \in Commands : Queued(c)' => Queued(c) \/ c = "Stop"
      BY <1>5
    <2> QED
      BY <1>0, <1>1, <1>4, <2>1, <2>3, <2>4, <2>5, <2>6, <2>7, AnswerInv
  <1> QED
    BY <1>3, <1>7, <1>8

-----------------------------------------------------------------------------
(* The callers, and every step                                              *)

\* A caller changes the configuration and nothing of the service.
LEMMA ServiceStays ==
    ASSUME IInv, UNCHANGED serviceVars,
           startType' \in StartTypes, caller' \in [Callers -> Call], calls' \in 0..MaxCalls,
           AskedFirst'
    PROVE  IInv'
  <1>1. UNCHANGED <<main, ctl, handler, announced, queue, status, opTimer, slips, failure,
                    seen, eng, awaiting, stopCalled, leaving, exitCode>>
    BY DEF serviceVars, startVars, handlerVars, statusVars, engineVars
  <1>2. TypeOK'
    BY <1>1 DEF IInv, TypeOK, ServiceTypeOK
  <1>3. \A c : Queued(c)' <=> Queued(c)
    BY <1>1 DEF Queued
  <1>4. /\ ServerMatches(eng') /\ HandOver' /\ NothingBeforeLoop' /\ OpenCommand'
        /\ FinalReport' /\ TimerRuns'
    BY <1>1 DEF IInv, HandOver, NothingBeforeLoop, OpenCommand, FinalReport, TimerRuns,
                TimerExists
  <1>5. RunningFirst' /\ StartOnce' /\ LeftHonestly'
    BY <1>1, <1>3 DEF IInv, RunningFirst, StartOnce, LeftHonestly
  <1>6. ReportedStateTrue' /\ SeenTrue'
    BY <1>1 DEF IInv, ReportedStateTrue, SeenTrue, True
  <1> QED
    BY <1>2, <1>4, <1>5, <1>6 DEF IInv

\* One call goes on, the others stay.
LEMMA BecomeFacts ==
    ASSUME IInv, NEW c \in Callers, NEW call \in Call, Become(c, call)
    PROVE  /\ caller' \in [Callers -> Call]
           /\ caller'[c] = IF call.at = "idle" THEN Idle ELSE call
           /\ \A d \in Callers \ {c} : caller'[d] = caller[d]
           /\ (/\ call.at = "auto?" => call.op = "enableAutostart" /\ call.saw # "disabled"
               /\ call.at = "write" => (call.saw = "disabled" <=> call.op = "enable"))
                 => AskedFirst'
  <1>1. caller \in [Callers -> Call] /\ AskedFirst
    BY DEF IInv, TypeOK
  <1>2. Idle \in Call
    BY DEF Idle, Call, Configuring
  <1>3. /\ caller' \in [Callers -> Call]
        /\ caller'[c] = IF call.at = "idle" THEN Idle ELSE call
        /\ \A d \in Callers \ {c} : caller'[d] = caller[d]
    BY <1>1, <1>2 DEF Become
  <1>4. ASSUME /\ call.at = "auto?" => call.op = "enableAutostart" /\ call.saw # "disabled"
               /\ call.at = "write" => (call.saw = "disabled" <=> call.op = "enable")
        PROVE  AskedFirst'
    <2>1. Idle.at = "idle"
      BY DEF Idle
    <2> QED
      BY <1>1, <1>3, <1>4, <2>1 DEF AskedFirst
  <1> QED
    BY <1>3, <1>4

LEMMA ConfigureInv ==
    ASSUME IInv, NEW c \in Callers, NEW o \in Configuring, Configure(c, o)
    PROVE  IInv'
  <1> DEFINE call == [at |-> "enabled?", op |-> o, saw |-> "unknown"]
  <1>1. call \in Call
    BY DEF Call
  <1>2. UNCHANGED <<serviceVars, startType>> /\ Become(c, call)
    BY DEF Configure
  <1>3. calls' \in 0..MaxCalls /\ startType' \in StartTypes
    BY <1>2, MaxCallsAssumption DEF IInv, TypeOK, Configure, Budget
  <1>4. caller' \in [Callers -> Call] /\ AskedFirst'
    BY <1>1, <1>2, BecomeFacts
  <1> QED
    BY <1>2, <1>3, <1>4, ServiceStays

LEMMA AskEnabledInv ==
    ASSUME IInv, NEW c \in Callers, AskEnabled(c)
    PROVE  IInv'
  <1>0. caller[c] \in Call /\ startType \in StartTypes /\ calls \in 0..MaxCalls
    BY DEF IInv, TypeOK
  <1>1. PICK read \in {startType, "unknown"} :
           Become(c, [caller[c] EXCEPT !.at = NextStep(caller[c].op, read), !.saw = read])
    BY DEF AskEnabled
  <1>2. UNCHANGED <<serviceVars, startType, calls>>
    BY DEF AskEnabled
  <1> DEFINE call == [caller[c] EXCEPT !.at = NextStep(caller[c].op, read), !.saw = read]
  <1>3. /\ call \in Call /\ call.op = caller[c].op /\ call.saw = read
        /\ call.at = NextStep(call.op, read)
    <2>1. NextStep(caller[c].op, read) \in {"idle", "auto?", "write"}
      BY <1>0 DEF NextStep, Call, Configuring
    <2> QED
      BY <1>0, <2>1 DEF Call, StartTypes
  <1>4. Become(c, call)
    BY <1>1
  <1> HIDE DEF call
  <1>5. /\ call.at = "auto?" => call.op = "enableAutostart" /\ call.saw # "disabled"
        /\ call.at = "write" => (call.saw = "disabled" <=> call.op = "enable")
    BY <1>0, <1>3 DEF NextStep, IsEnabled, Call, Configuring
  <1>6. caller' \in [Callers -> Call] /\ AskedFirst'
    BY <1>3, <1>4, <1>5, BecomeFacts
  <1> QED
    BY <1>0, <1>2, <1>6, ServiceStays

LEMMA AskAutostartInv ==
    ASSUME IInv, NEW c \in Callers, AskAutostart(c)
    PROVE  IInv'
  <1>0. /\ caller[c] \in Call /\ startType \in StartTypes /\ calls \in 0..MaxCalls
        /\ caller[c].op = "enableAutostart" /\ caller[c].saw # "disabled"
    BY DEF IInv, TypeOK, AskedFirst, AskAutostart
  <1>1. PICK at \in {"idle", "write"} : Become(c, [caller[c] EXCEPT !.at = at])
    BY DEF AskAutostart
  <1>2. UNCHANGED <<serviceVars, startType, calls>>
    BY DEF AskAutostart
  <1> DEFINE call == [caller[c] EXCEPT !.at = at]
  <1>3. /\ call \in Call /\ call.op = "enableAutostart" /\ call.saw # "disabled"
        /\ call.at = at
    BY <1>0 DEF Call
  <1>4. Become(c, call)
    BY <1>1
  <1> HIDE DEF call
  <1>5. caller' \in [Callers -> Call] /\ AskedFirst'
    BY <1>3, <1>4, BecomeFacts
  <1> QED
    BY <1>0, <1>2, <1>5, ServiceStays

LEMMA WriteInv ==
    ASSUME IInv, NEW c \in Callers, Write(c)
    PROVE  IInv'
  <1>0. caller[c] \in Call /\ startType \in StartTypes /\ calls \in 0..MaxCalls
    BY DEF IInv, TypeOK
  <1>1. startType' \in StartTypes
    BY <1>0 DEF Write, Written, Call, Configuring, StartTypes
  <1>2. UNCHANGED <<serviceVars, calls>> /\ Become(c, Idle)
    BY DEF Write
  <1>3. Idle \in Call /\ Idle.at = "idle"
    BY DEF Idle, Call, Configuring
  <1>4. caller' \in [Callers -> Call] /\ AskedFirst'
    BY <1>2, <1>3, BecomeFacts
  <1> QED
    BY <1>0, <1>1, <1>2, <1>4, ServiceStays

LEMMA InitInv == Init => IInv
  <1> SUFFICES ASSUME Init PROVE IInv
    OBVIOUS
  <1>0. Numbered
    BY Numbers
  <1>1. /\ eng \in Engine /\ ServerMatches(eng) /\ ~eng.isRunning /\ ~eng.wasPaused
    BY DEF Init, ServiceInit, NewEngine, Engine, ServerMatches
  <1>2. queue \in Seq(Commands) /\ (\A c : ~Queued(c)) /\ Once(queue, "Start")
    BY EmptySeq DEF Init, ServiceInit, Queued, Holds, Once
  <1>3. /\ announced \in BOOLEAN /\ failure \in BOOLEAN /\ opTimer \in BOOLEAN
        /\ stopCalled \in BOOLEAN /\ leaving \in BOOLEAN
        /\ ~stopCalled /\ ~leaving /\ ~failure
    BY DEF Init, ServiceInit
  <1>4. /\ main = "off" /\ ctl = "dispatch" /\ handler = "idle"
        /\ status = STOPPED /\ seen = STOPPED /\ awaiting = {} /\ exitCode = 0 /\ slips = {}
    BY DEF Init, ServiceInit
  <1>5. ServiceTypeOK
    BY <1>0, <1>1, <1>2, <1>3, <1>4, ExitCodesAssumption
    DEF ServiceTypeOK, Mains, Ctls, Numbered
  <1>6. caller \in [Callers -> Call] /\ \A c \in Callers : caller[c].at = "idle"
    <2>1. Idle \in Call /\ Idle.at = "idle"
      BY DEF Idle, Call, Configuring
    <2> QED
      BY <2>1 DEF Init
  <1>7. startType \in StartTypes /\ calls \in 0..MaxCalls
    BY MaxCallsAssumption DEF Init, StartTypes
  <1>8. TypeOK /\ AskedFirst
    BY <1>5, <1>6, <1>7 DEF TypeOK, AskedFirst
  <1>9. HandOver /\ NothingBeforeLoop /\ FinalReport /\ OpenCommand /\ TimerRuns
    BY <1>1, <1>3, <1>4
    DEF HandOver, NothingBeforeLoop, FinalReport, OpenCommand, TimerRuns, TimerExists
  <1>10. RunningFirst /\ ReportedStateTrue /\ SeenTrue
    BY <1>0, <1>1, <1>2, <1>4
    DEF RunningFirst, ReportedStateTrue, SeenTrue, True, Up, Numbered
  <1>11. StartOnce /\ LeftHonestly
    BY <1>1, <1>2, <1>3, <1>4 DEF StartOnce, LeftHonestly
  <1> QED
    BY <1>1, <1>8, <1>9, <1>10, <1>11 DEF IInv

LEMMA NextInv == IInv /\ [Next]_vars => IInv'
  <1> SUFFICES ASSUME IInv, [Next]_vars PROVE IInv'
    OBVIOUS
  <1>1. CASE (DispatcherFails \/ CtlStep) /\ Resting
    BY <1>1, CtlInv, PosterInv DEF CtlStep
  <1>2. CASE (HandlerStep \/ UserQuit) /\ Resting
    BY <1>2, HandlerAnnouncesInv, PosterInv DEF HandlerStep
  <1>3. CASE (MainStep \/ GiveUp \/ PreStartFails \/ TimerReads) /\ Resting
    BY <1>3, StartInv, HandleCommandInv, EndInv DEF MainStep
  <1>4. CASE UserReload /\ Resting
    BY <1>4, UserReloadInv
  <1>5. CASE (\E command \in Commands : UserEmit(command)) /\ Resting
    BY <1>5, UserEmitInv
  <1>6. CASE Start \/ SystemStarts \/ SystemStops \/ \E code \in Controls : Send(code)
    BY <1>6, ManagerInv
  <1>7. CASE \E c \in Callers : CallerStep(c) \/ \E o \in Configuring : Configure(c, o)
    BY <1>7, ConfigureInv, AskEnabledInv, AskAutostartInv, WriteInv DEF CallerStep
  <1>8. CASE UNCHANGED vars
    <2>1. UNCHANGED <<serviceVars, startType, caller, calls>>
      BY <1>8 DEF vars, callerVars
    <2>2. /\ startType' \in StartTypes /\ caller' \in [Callers -> Call]
          /\ calls' \in 0..MaxCalls
          /\ AskedFirst'
      BY <2>1 DEF IInv, TypeOK, AskedFirst
    <2> QED
      BY <2>1, <2>2, ServiceStays
  <1> QED
    BY <1>1, <1>2, <1>3, <1>4, <1>5, <1>6, <1>7, <1>8 DEF Next, ServiceNext, Resting

-----------------------------------------------------------------------------
(* The theorems                                                             *)

\* Every reachable state of the process and its callers satisfies the inductive
\* invariant.
THEOREM Invariance == Spec => []IInv
  <1>1. Init => IInv
    BY InitInv
  <1>2. IInv /\ [Next]_vars => IInv'
    BY NextInv
  <1> QED
    BY <1>1, <1>2, PTL DEF Spec

\* Every variable keeps its type: in particular the state the manager is shown is
\* one of its seven, and the exit code one of the service's own or a failure.
THEOREM TypeCorrect == Spec => []TypeOK
  <1>1. IInv => TypeOK
    BY DEF IInv
  <1> QED
    BY <1>1, Invariance, PTL

\* Until it is told to stop, a service the manager shows as running does run and
\* is not paused, and one it shows as paused is: no answer, no ignored command
\* and no report of the operation timer comes late enough to say otherwise.
THEOREM ReportedStateIsTrue == Spec => []ReportedStateTrue
  <1>1. IInv => ReportedStateTrue
    BY DEF IInv
  <1> QED
    BY <1>1, Invariance, PTL

\* The manager hears of a pending service as long as its event loop runs.
THEOREM HeartbeatRuns == Spec => []HeartbeatWhilePending
  <1>1. IInv => HeartbeatWhilePending
    BY DEF IInv, TimerRuns, TimerExists, HeartbeatWhilePending
  <1> QED
    BY <1>1, Invariance, PTL

\* The end of the process is reported as what it was, unless a control code came
\* between the final report and the end.
THEOREM EndIsReported == Spec => []EndReported
  <1>1. IInv => EndReported
    BY DEF IInv, FinalReport, EndReported, StatusReported
  <1> QED
    BY <1>1, Invariance, PTL

-----------------------------------------------------------------------------
(* What callers do to the configuration                                     *)

\* Only the last step of a call changes what is configured.
LEMMA OnlyWriteConfigures ==
    ASSUME [Next]_vars, startType' # startType
    PROVE  \E c \in Callers : Write(c)
  BY DEF Next, vars, callerVars, Start, SystemStarts, Send, SystemStops, CallerStep,
         Configure, AskEnabled, AskAutostart

\* A caller that writes does what it was asked to do, and had reason to.
LEMMA WriteRespects ==
    ASSUME IInv, NEW c \in Callers, Write(c)
    PROVE  /\ startType = "disabled" /\ startType' # "disabled" => Writes(c, "enable")
           /\ startType = "auto" /\ startType' = "demand" => Writes(c, "disableAutostart")
  <1>1. /\ caller[c] \in Call /\ caller[c].at = "write"
        /\ caller[c].saw = "disabled" <=> caller[c].op = "enable"
    BY DEF IInv, TypeOK, AskedFirst, Write
  <1>2. caller'[c] = Idle
    <2>1. Idle \in Call /\ Idle.at = "idle" /\ Become(c, Idle)
      BY DEF Write, Idle, Call, Configuring
    <2> QED
      BY <2>1, BecomeFacts
  <1>3. startType' = startType \/ startType' = Written[caller[c].op]
    BY DEF Write
  <1>4. caller[c].op \in Configuring
    BY <1>1 DEF Call
  <1>5. startType = "disabled" => Writes(c, "enable")
    BY <1>1, <1>2 DEF Writes
  <1>6. startType = "auto" /\ startType' = "demand" => Writes(c, "disableAutostart")
    BY <1>1, <1>2, <1>3, <1>4 DEF Writes, Written, Configuring
  <1> QED
    BY <1>5, <1>6

\* A disabled service is enabled by setEnabled(true) alone, and autostart taken
\* away by disableAutostart() alone, unless the writing caller's question failed
\* or was overtaken by another caller's change.
THEOREM ConfigurationRespected == Spec => StartTypeRespected
  <1>1. ASSUME IInv, [Next]_vars
        PROVE  [/\ startType = "disabled" /\ startType' # "disabled" =>
                        \E c \in Callers : Writes(c, "enable")
                /\ startType = "auto" /\ startType' = "demand" =>
                        \E c \in Callers : Writes(c, "disableAutostart")]_vars
    <2>1. CASE startType' = startType
      BY <2>1
    <2>2. CASE startType' # startType
      BY <1>1, <2>2, OnlyWriteConfigures, WriteRespects
    <2> QED
      BY <2>1, <2>2
  <1> QED
    BY <1>1, Invariance, PTL DEF Spec, StartTypeRespected

-----------------------------------------------------------------------------
(* The documented lifecycle                                                 *)

LEMMA LifecycleInit == Init => Lifecycle!Init
  BY DEF Init, ServiceInit, Lifecycle!Init, lifeState

\* The engine and the calls made of it do not change, nor does the main thread
\* cross one of the borders the lifecycle knows.
Unmoved ==
    /\ UNCHANGED <<eng, stopCalled>>
    /\ main' = main \/ {main, main'} \cap Late = {}
                    \/ {main, main'} \subseteq Late \ {"dead"}
    /\ exitCode' = exitCode \/ main # "dead"

LEMMA LifecycleUnmoved ==
    ASSUME Unmoved
    PROVE  UNCHANGED Lifecycle!vars
  BY DEF Unmoved, Late, Lifecycle!vars, lifeState

\* A command starts or stops the service, or leaves it running or not.
LEMMA CommandRuns ==
    ASSUME NEW e \in Engine, ServerMatches(e), NEW command \in Commands \ {"Stop"},
           NEW r \in Process(e, command, ExitCodes) \cup Emits(e, command, ExitCodes)
    PROVE  /\ e.isRunning => r.eng.isRunning
           /\ r.eng.isRunning => e.isRunning \/ command = "Start"
  <1>1. CASE r.eng = Begin(e, command)
    BY <1>1, BeginFacts
  <1>2. ASSUME NEW emission, Closes(e, command, r.eng, emission)
        PROVE  /\ e.isRunning => r.eng.isRunning
               /\ r.eng.isRunning => e.isRunning \/ command = "Start"
    BY <1>2 DEF Closes
  <1>3. CASE r \in Process(e, command, ExitCodes)
    <2>1. LeavesOpen(e, command, r) \/ AnswersAtOnce(e, command, ExitCodes, r)
      BY <1>3, ProcessFacts
    <2> QED
      BY <1>1, <1>2, <2>1 DEF LeavesOpen, AnswersAtOnce
  <1>4. CASE r \in Emits(e, command, ExitCodes)
    BY <1>2, <1>4, EmitsFacts
  <1> QED
    BY <1>3, <1>4

LEMMA LifecycleStep ==
    ASSUME IInv, IInv', [Next]_vars
    PROVE  [Lifecycle!Next]_(Lifecycle!vars)
  <1> USE DEF engineVars, startVars
  <1>0. /\ NothingBeforeLoop /\ LeftHonestly /\ OpenCommand
        /\ eng \in Engine /\ ServerMatches(eng) /\ queue \in Seq(Commands)
        /\ stopCalled \in BOOLEAN /\ exitCode \in ExitCodes
    BY DEF IInv, TypeOK, ServiceTypeOK
  <1>1. CASE \/ DispatcherFails \/ PassArguments \/ AwaitArguments \/ TakeArguments
             \/ Prepare \/ Launch
    BY <1>1, LifecycleUnmoved
    DEF DispatcherFails, PassArguments, AwaitArguments, TakeArguments, Prepare, Launch,
        Alive, Notify, Unmoved, Late
  <1>2. CASE \/ Register \/ AwaitMain \/ AnnounceStart \/ PostStart
             \/ HandlerStep \/ UserQuit \/ \E code \in Controls : Control(code)
    BY <1>2, LifecycleUnmoved
    DEF Register, AwaitMain, AnnounceStart, PostStart, HandlerStep, HandlerAnnounces,
        HandlerPosts, UserQuit, Control, Unmoved
  <1>3. CASE TimerReads \/ TimerReports \/ LoopReturn \/ ReportStopped
    BY <1>3, LifecycleUnmoved
    DEF TimerReads, TimerReports, LoopReturn, ReportStopped, Unmoved, Late
  <1>4. CASE GiveUp \/ PreStartFails
    BY <1>4 DEF GiveUp, PreStartFails, lifeState, Lifecycle!Next, Lifecycle!Refuse
  <1>5. CASE WakeControl
    BY <1>0, <1>5
    DEF WakeControl, NothingBeforeLoop, lifeState, Lifecycle!Next, Lifecycle!Boot
  <1>6. CASE HandleCommand
    <2> DEFINE command == Head(queue)
    <2>1. PICK r \in Process(eng, command, ExitCodes) :
             eng' = r.eng /\ stopCalled' = (stopCalled \/ command = "Stop")
      BY <1>6 DEF HandleCommand
    <2>2. command \in Commands
      BY <1>0, <1>6, HeadTailProperties DEF HandleCommand
    <2>3. main = "loop" /\ main' = "loop"
      BY <1>6 DEF HandleCommand
    <2> HIDE DEF command
    <2>4. stopCalled' <=> stopCalled \/ command = "Stop"
      BY <2>1
    <2>5. CASE stopCalled'
      BY <2>3, <2>4, <2>5 DEF lifeState, Lifecycle!vars, Lifecycle!Next, Lifecycle!Stop
    <2>6. CASE ~stopCalled'
      <3>1. eng.isRunning => eng'.isRunning
        BY <1>0, <2>1, <2>2, <2>4, <2>6, CommandRuns
      <3> QED
        BY <2>3, <2>4, <2>6, <3>1
        DEF lifeState, Lifecycle!vars, Lifecycle!Next, Lifecycle!Run
    <2> QED
      BY <2>5, <2>6
  <1>7. ASSUME NEW command \in Commands, UserEmit(command)
        PROVE  [Lifecycle!Next]_(Lifecycle!vars)
    <2>1. /\ main = "loop" /\ main' = "loop" /\ stopCalled' = stopCalled
          /\ command = "Stop" => stopCalled
      BY <1>0, <1>7 DEF UserEmit, OpenCommand
    <2>2. CASE stopCalled
      BY <2>1, <2>2 DEF lifeState, Lifecycle!vars
    <2>3. CASE ~stopCalled
      <3>1. eng.isRunning => eng'.isRunning
        BY <1>0, <1>7, <2>1, <2>3, CommandRuns DEF UserEmit
      <3> QED
        BY <2>1, <2>3, <3>1 DEF lifeState, Lifecycle!vars, Lifecycle!Next, Lifecycle!Run
    <2> QED
      BY <2>2, <2>3
  <1>8. CASE UserReload
    <2>1. main = "loop" /\ main' = "loop" /\ stopCalled' = stopCalled
      BY <1>8 DEF UserReload
    <2>2. eng'.isRunning <=> eng.isRunning
      <3>1. "Reload" \in Commands \ {"Stop"}
        BY DEF Commands
      <3> QED
        BY <1>0, <1>8, <3>1, CommandRuns DEF UserReload
    <2> QED
      BY <2>1, <2>2 DEF lifeState, Lifecycle!vars
  <1>9. CASE ProcessEnds
    <2>1. /\ main = "ended" /\ main' = "dead" /\ leaving
          /\ UNCHANGED <<eng, stopCalled, exitCode>>
      BY <1>0, <1>9 DEF ProcessEnds, LeftHonestly
    <2>2. CASE stopCalled
      BY <1>0, <2>1, <2>2 DEF lifeState, Lifecycle!Next, Lifecycle!Exit
    <2>3. CASE ~stopCalled
      <3>1. ~eng.isRunning /\ exitCode = 1
        BY <1>0, <2>1, <2>3 DEF LeftHonestly
      <3> QED
        BY <2>1, <2>3, <3>1 DEF lifeState, Lifecycle!Next, Lifecycle!Refuse
    <2> QED
      BY <2>2, <2>3
  <1>10. CASE UNCHANGED serviceVars
    BY <1>10, LifecycleUnmoved DEF serviceVars, Unmoved
  <1>11. CASE ServiceNext
    BY <1>1, <1>2, <1>3, <1>4, <1>5, <1>6, <1>7, <1>8, <1>9, <1>11
    DEF ServiceNext, MainStep, CtlStep
  <1>12. CASE Start \/ SystemStarts \/ SystemStops \/ \E code \in Controls : Send(code)
    BY <1>1, <1>2, <1>12 DEF Start, SystemStarts, SystemStops, Send, Shutdown, Controls
  <1> QED
    BY <1>10, <1>11, <1>12
    DEF Next, vars, CallerStep, Configure, AskEnabled, AskAutostart, Write

\* Every behaviour of the process is one of the documented lifecycle, whatever
\* the three threads do to each other.
THEOREM RefinesLifecycle ==
    Spec => Lifecycle!Init /\ [][Lifecycle!Next]_(Lifecycle!vars)
  BY LifecycleInit, LifecycleStep, Invariance, PTL DEF Spec
=============================================================================
