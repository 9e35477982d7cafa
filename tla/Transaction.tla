---------------------------- MODULE Transaction ----------------------------
(***************************************************************************)
(* What the header of batch_operations.lua offers the caller of a batch:   *)
(* seen from outside, a batch is ONE step of the world.  It is kept, or it *)
(* is refused or undone and has changed nothing, or - when an operation    *)
(* without an inverse ran - it is only partly undone.  A call of the game  *)
(* that raises ends it without an answer, with whatever was done so far.   *)
(***************************************************************************)
CONSTANT Worlds

VARIABLES world, outcome

vars == <<world, outcome>>

Init == world \in Worlds /\ outcome = "none"

End(how) == outcome = "none" /\ outcome' = how

Keep   == End("kept")    /\ world' \in Worlds
Patch  == End("partly")  /\ world' \in Worlds
Abort  == End("aborted") /\ world' \in Worlds
Undo   == End("undone")  /\ UNCHANGED world
Refuse == End("refused") /\ UNCHANGED world

Next == Keep \/ Patch \/ Abort \/ Undo \/ Refuse

Spec == Init /\ [][Next]_vars
=============================================================================
