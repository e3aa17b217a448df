------------------------------- MODULE MCBans -------------------------------
(* Bans on instances small enough for TLC.                                 *)
EXTENDS BansRefinement, TLC

=============================================================================
