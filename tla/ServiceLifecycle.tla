-------------------------- MODULE ServiceLifecycle --------------------------
(***************************************************************************)
(* What the documentation promises of one run of a service (Service::exec, *)
(* onStart and onStop in src/doc/service.dox), as seen from outside:       *)
(*                                                                         *)
(*    off --> starting --> running --> stopping --> exited                 *)
(*     |         |  \________________/               ^                     *)
(*     |_________|___________________________________|  (start refused or  *)
(*                                                       failed)           *)
(*                                                                         *)
(* A running service never leaves but through onStop; a service that never *)
(* came up reports a failure; a service that is stopping does exit.        *)
(***************************************************************************)
EXTENDS Naturals

CONSTANT ExitCodes   \* the exit codes a service may choose

VARIABLES state, code

vars == <<state, code>>

States == {"off", "starting", "running", "stopping", "exited"}

TypeOK == state \in States /\ code \in ExitCodes

Init == state = "off" /\ code = 0

\* The backend's own set-up succeeds, and onStart is due.
Boot == state = "off" /\ state' = "starting" /\ UNCHANGED code

\* onStart has completed.
Run == state = "starting" /\ state' = "running" /\ UNCHANGED code

\* onStop is called; a service can be told to stop before it has come up.
Stop == state \in {"starting", "running"} /\ state' = "stopping" /\ UNCHANGED code

\* preStart, the instance lock or onStart refused.
Refuse == state \in {"off", "starting"} /\ state' = "exited" /\ code' = 1

\* The service has stopped, with the code it chose.
Exit == state = "stopping" /\ state' = "exited" /\ code' \in ExitCodes

Next == Boot \/ Run \/ Stop \/ Refuse \/ Exit

Spec == Init /\ [][Next]_vars /\ WF_vars(Exit)
=============================================================================
