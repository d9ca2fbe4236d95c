--------------------------- MODULE SingleInstance ---------------------------
(***************************************************************************)
(* What the standard backend promises with its lock file: "Ensures only 1  *)
(* instance is running by using a lockfile" (src/doc/backends.dox:12).     *)
(* An instance enters only when none is in, and the next one only after it *)
(* has left, by itself or by dying.                                        *)
(***************************************************************************)
CONSTANT Process   \* processes of the service

VARIABLE active    \* those that are past the lock

TypeOK == active \subseteq Process

Init == active = {}

Enter(p) == active = {} /\ active' = {p}

Leave(p) == active = {p} /\ active' = {}

Next == \E p \in Process : Enter(p) \/ Leave(p)

Spec == Init /\ [][Next]_active
=============================================================================
