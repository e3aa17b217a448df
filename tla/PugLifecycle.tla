---------------------------- MODULE PugLifecycle ----------------------------
(***************************************************************************)
(* What the API promises of one pug to the clients that poll it: the phases*)
(* it goes through, whether it waits for a replacement, and nothing of how *)
(* that comes about.  The states are those of entities/Pug.py, except that *)
(* waiting is kept apart from the phase the pug goes back to afterwards.   *)
(***************************************************************************)
VARIABLES
  phase,    \* "none" before create_pug and after _end_pug
  waiting   \* REPLACEMENT_REQUIRED

vars == <<phase, waiting>>

BeforeGame == {"gathering", "voting", "chosen", "shuffled"}
Phases == BeforeGame \cup {"playing", "over"}

Init == phase = "none" /\ waiting = FALSE

Open == phase = "none" /\ phase' = "gathering" /\ waiting' = FALSE

(* The last place is taken: there is a vote, unless the map was forced.    *)
Fill ==
  /\ phase = "gathering"
  /\ phase' \in {"voting", "chosen"}
  /\ waiting' = FALSE

(* The map is settled and teams are made; those who are not on the server  *)
(* may be missed at once.                                                  *)
MakeTeams ==
  /\ phase \in {"voting", "chosen"}
  /\ ~waiting
  /\ phase' = "shuffled"
  /\ waiting' \in BOOLEAN

(* A place is empty, and it is taken again.                                *)
Await ==
  /\ phase \in Phases \ {"gathering"}
  /\ waiting' = TRUE
  /\ UNCHANGED phase

Resume ==
  /\ waiting
  /\ waiting' = FALSE
  /\ UNCHANGED phase

(* The game may start in any earlier phase, and a match may be over in any.*)
Start ==
  /\ phase \in BeforeGame
  /\ phase' = "playing"
  /\ waiting' = FALSE

Finish ==
  /\ phase \in Phases
  /\ phase' = "over"
  /\ waiting' = FALSE

End ==
  /\ phase \in Phases
  /\ phase' = "none"
  /\ waiting' = FALSE

Next == Open \/ Fill \/ MakeTeams \/ Await \/ Resume \/ Start \/ Finish \/ End

Spec == Init /\ [][Next]_vars

=============================================================================
