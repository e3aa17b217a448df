---------------------------- MODULE MCRconStream ----------------------------
(* RconStream on instances small enough for TLC.                           *)
EXTENDS RconRefinement, TLC

=============================================================================
