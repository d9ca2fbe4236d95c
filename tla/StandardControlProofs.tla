------------------------ MODULE StandardControlProofs ------------------------
(***************************************************************************)
(* The lock file keeps services apart for any number of service processes, *)
(* controls and calls, with crashes anywhere.                              *)
(***************************************************************************)
EXTENDS StandardControl, TLAPS

-----------------------------------------------------------------------------
(* The inductive invariant                                                  *)

\* Whoever is past tryLock is the process whose pid is in the file.
HoldersOwn ==
    /\ \A s \in Services : svc[s] \in Holding => lock = s
    /\ \A c \in Controls : pc[c] = "hold" => lock = c

\* A process that has not asked for the lock is not in the file.
FreshDoNotOwn == \A s \in Services : svc[s] \in {"none", "booting"} => lock # s

IInv == TypeOK /\ HoldersOwn /\ FreshDoNotOwn /\ LockIsMeant

LEMMA InitInv == Init => IInv
  <1> SUFFICES ASSUME Init PROVE IInv
    OBVIOUS
  <1>1. TypeOK
    <2>1. calls \in 0..MaxCalls
      BY MaxCallsAssumption DEF Init
    <2> QED
      BY <2>1 DEF Init, TypeOK, SvcStates, PcStates, Operations
  <1>2. HoldersOwn /\ FreshDoNotOwn /\ LockIsMeant
    BY ProcessAssumption
    DEF Init, HoldersOwn, FreshDoNotOwn, LockIsMeant, Alive, Holding
  <1> QED
    BY <1>1, <1>2 DEF IInv

\* The steps of a service process.
LEMMA ServiceInv ==
    ASSUME IInv, NEW s \in Services, ServiceStep(s)
    PROVE  IInv'
  <1> USE ProcessAssumption DEF IInv, TypeOK, HoldersOwn, FreshDoNotOwn,
      LockIsMeant, Alive, Become, SvcStates, Holding, controlVars
  <1>1. CASE PreStartFails(s)
    BY <1>1 DEF PreStartFails
  <1>2. CASE TakeLock(s)
    BY <1>2 DEF TakeLock, LockFree
  <1>3. CASE EnterLoop(s)
    BY <1>3 DEF EnterLoop
  <1>4. CASE QuitItself(s)
    BY <1>4 DEF QuitItself
  <1>5. CASE AboutToQuit(s)
    BY <1>5 DEF AboutToQuit
  <1>6. CASE Exit(s)
    BY <1>6 DEF Exit
  <1>7. CASE Crash(s)
    BY <1>7 DEF Crash
  <1> QED
    BY <1>1, <1>2, <1>3, <1>4, <1>5, <1>6, <1>7 DEF ServiceStep

\* The steps of a control.
LEMMA ControlInv ==
    ASSUME IInv, NEW c \in Controls,
           ControlStep(c) \/ Poll(c) \/ \E o \in Operations : Call(c, o)
    PROVE  IInv'
  <1> USE ProcessAssumption DEF IInv, TypeOK, HoldersOwn, FreshDoNotOwn,
      LockIsMeant, Alive, Goto, PcStates, Operations, Holding
  <1>1. ASSUME NEW o \in Operations, Call(c, o) PROVE IInv'
    BY <1>1, MaxCallsAssumption DEF Call
  <1>2. CASE Poll(c)
    BY <1>2 DEF Poll
  <1>3. CASE Ask(c)
    <2>1. CASE AskFails(c)
      BY <1>3, <2>1 DEF Ask, AskFails, LockFree
    <2>2. CASE AskSucceeds(c)
      BY <1>3, <2>2 DEF Ask, AskSucceeds, LockFree
    <2> QED
      BY <1>3, <2>1, <2>2 DEF Ask
  <1>4. CASE AnswerStopped(c)
    BY <1>4 DEF AnswerStopped
  <1>5. CASE Spawn(c)
    BY <1>5 DEF Spawn, Become, SvcStates
  <1>6. CASE GetPid(c)
    BY <1>6 DEF GetPid
  <1>7. CASE Kill(c)
    BY <1>7 DEF Kill, AfterTerm, SvcStates
  <1> QED
    BY <1>1, <1>2, <1>3, <1>4, <1>5, <1>6, <1>7 DEF ControlStep

LEMMA NextInv == IInv /\ [Next]_vars => IInv'
  <1> SUFFICES ASSUME IInv, [Next]_vars PROVE IInv'
    OBVIOUS
  <1>1. CASE UNCHANGED vars
    BY <1>1 DEF vars, IInv, TypeOK, HoldersOwn, FreshDoNotOwn, LockIsMeant, Alive
  <1> QED
    BY <1>1, ServiceInv, ControlInv DEF Next

THEOREM Invariance == Spec => []IInv
  BY InitInv, NextInv, PTL DEF Spec

-----------------------------------------------------------------------------
(* What follows from it                                                     *)

\* Every variable keeps its type, and no control signals pid -1.
THEOREM TypeCorrect == Spec => []TypeOK
  BY Invariance, PTL DEF IInv

\* At most one process of the service is past the lock, with any number of
\* launches, controls and crashes.
THEOREM MutualExclusion == Spec => []OneInstance
  <1>1. IInv => OneInstance
    BY DEF IInv, HoldersOwn, OneInstance
  <1> QED
    BY <1>1, Invariance, PTL

\* No live process leaves its pid in the lock file without a use for it.
THEOREM LockNotLeaked == Spec => []LockIsMeant
  BY Invariance, PTL DEF IInv

-----------------------------------------------------------------------------
(* The lock file implements SingleInstance                                  *)

active == {s \in Services : svc[s] \in Holding}

LEMMA InstanceInit == Init => Instance!Init
  BY DEF Init, Instance!Init, Holding

\* A change of one process's state enters it, removes it, or changes nothing.
LEMMA InstanceStep ==
    ASSUME IInv, IInv', [Next]_vars
    PROVE  [Instance!Next]_active
  <1> USE DEF active
  <1>1. \A s, t \in active : s = t
    BY DEF IInv, HoldersOwn
  <1>2. \A s, t \in active' : s = t
    BY DEF IInv, HoldersOwn
  <1>3. \/ svc' = svc
        \/ \E s \in Services, state \in SvcStates : svc' = [svc EXCEPT ![s] = state]
    <2>1. ASSUME NEW s \in Services, ServiceStep(s)
          PROVE  \E state \in SvcStates : svc' = [svc EXCEPT ![s] = state]
      BY <2>1 DEF ServiceStep, PreStartFails, TakeLock, EnterLoop, QuitItself,
         AboutToQuit, Exit, Crash, Become, SvcStates
    <2>2. ASSUME NEW c \in Controls,
                 ControlStep(c) \/ Poll(c) \/ \E o \in Operations : Call(c, o)
          PROVE  <1>3
      <3>1. CASE Kill(c)
        <4>1. ASSUME NEW t \in Services
              PROVE  AfterTerm(svc[t]) \in SvcStates
          BY DEF AfterTerm, SvcStates, IInv, TypeOK
        <4> QED
          BY <3>1, <4>1 DEF Kill
      <3>2. CASE Spawn(c)
        BY <3>2 DEF Spawn, Become, SvcStates
      <3> QED
        BY <2>2, <3>1, <3>2
        DEF ControlStep, Poll, Call, Ask, AnswerStopped, GetPid
    <2> QED
      BY <2>1, <2>2 DEF Next, vars
  <1>4. CASE svc' = svc
    BY <1>4
  <1>5. ASSUME NEW s \in Services, NEW state \in SvcStates,
               svc' = [svc EXCEPT ![s] = state]
        PROVE  [Instance!Next]_active
    <2>1. \A t \in Services \ {s} : t \in active' <=> t \in active
      BY <1>5 DEF IInv, TypeOK
    <2>2. CASE s \in active /\ s \notin active'
      <3>1. active = {s} /\ active' = {}
        BY <1>1, <1>2, <2>1, <2>2
      <3> QED
        BY <3>1 DEF Instance!Next, Instance!Leave
    <2>3. CASE s \notin active /\ s \in active'
      <3>1. active = {} /\ active' = {s}
        BY <1>1, <1>2, <2>1, <2>3
      <3> QED
        BY <3>1 DEF Instance!Next, Instance!Enter
    <2>4. CASE (s \in active) <=> (s \in active')
      <3>1. active' = active
        BY <2>1, <2>4
      <3> QED
        BY <3>1
    <2> QED
      BY <2>2, <2>3, <2>4
  <1> QED
    BY <1>3, <1>4, <1>5

\* The lock file implements the single instance: one process enters after the
\* one before it has left or died, whatever the controls do.
THEOREM RefinesSingleInstance == Spec => ImplementsSingleInstance
  <1>1. Spec => Instance!Init /\ [][Instance!Next]_active
    BY InstanceInit, InstanceStep, Invariance, PTL DEF Spec
  <1> QED
    BY <1>1, PTL DEF ImplementsSingleInstance, Instance!Spec, active
=============================================================================
