------------------------- MODULE BatchOperationsMC -------------------------
(* An inventory with room for Capacity items of any kind.                  *)
EXTENDS BatchOperations, TLC

CONSTANT Capacity

MCFits == {inv \in [Names -> 0..Capacity] : MapThenSumSet(LAMBDA n : inv[n], Names) <= Capacity}

MCSymmetry == Permutations(Names) \cup Permutations(Places)
=============================================================================
