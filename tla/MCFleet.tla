------------------------------ MODULE MCFleet ------------------------------
(* Fleet on instances small enough for TLC.                                *)
EXTENDS FleetRefinement, TLC

Symmetry == Permutations(Servers) \cup Permutations(Players)

=============================================================================
