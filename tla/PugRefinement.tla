--------------------------- MODULE PugRefinement ---------------------------
(* Pug implements PugLifecycle.                                            *)
EXTENDS Pug

PhaseNames ==
  [n \in States |->
     CASE n = GATHERING_PLAYERS -> "gathering"
       [] n = MAP_VOTING -> "voting"
       [] n = MAPVOTE_COMPLETED -> "chosen"
       [] n = TEAMS_SHUFFLED -> "shuffled"
       [] n = GAME_STARTED -> "playing"
       [] n = REPLACEMENT_REQUIRED -> "waiting"
       [] n = GAME_OVER -> "over"]

(* A pug is none when no manager has it; while it waits for a replacement  *)
(* its phase is the state that was left.                                   *)
Lifecycle ==
  INSTANCE PugLifecycle WITH
    phase <- IF listed THEN PhaseNames[Phase(pug)] ELSE "none",
    waiting <- listed /\ pug.state = REPLACEMENT_REQUIRED

(* Whatever players, log lines, deadlines and calls that raise do, clients *)
(* see the phases in their order: teams are made once and only by a pug    *)
(* that is not waiting, only later phases than gathering wait, and a pug   *)
(* that waited goes on where it was or starts its game.                    *)
ImplementsLifecycle == Lifecycle!Spec

=============================================================================
