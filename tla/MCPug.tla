------------------------------- MODULE MCPug -------------------------------
(* Pug for TLC.  Nothing in the code tells one player from another, so the *)
(* safety runs take them as symmetric.                                     *)
EXTENDS PugRefinement, TLC

PlayerSymmetry == Permutations(Players)

=============================================================================
