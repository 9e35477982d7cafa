----------------------------- MODULE ServiceStartMC -----------------------------
(* The two packages of Trenni's container, in the script's order. *)
EXTENDS ServiceStart

MCPackages == <<"contracts", "trenni">>
================================================================================
