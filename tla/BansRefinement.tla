--------------------------- MODULE BansRefinement ---------------------------
(* Bans implements BanRegistry.                                            *)
EXTENDS Bans

(* What counts is what is held or, when the daemon is not up, what it would*)
(* load.                                                                   *)
Held == IF up THEN bans ELSE Active
BanOf(i) == IF up THEN mem[i] ELSE rows[i]

Banned == {BanOf(i).who : i \in Held}

(* The moments at which check_bans would leave the ban b alone.            *)
TermOf(b) == {t \in 0 .. MaxTime : ~b.expired /\ (b.duration = 0 \/ t <= b.start + b.duration)}

Terms == [p \in Players |-> UNION {TermOf(BanOf(i)) : i \in {j \in Held : BanOf(j).who = p}}]

(* The players whose ban the table tells differently, rounding apart.      *)
Unsure == {mem[i].who : i \in {j \in bans : rows[j] \notin AsStored(mem[j])}}

Registry ==
  INSTANCE BanRegistry WITH
    Moments <- 0 .. MaxTime, banned <- Banned, term <- Terms, unsure <- Unsure

(* Whatever flush raises and whenever the daemon dies, nobody slips in who *)
(* is banned, and nobody is let in before his time unless somebody lifted  *)
(* the ban, or changed it and the daemon died.                             *)
ImplementsBanRegistry == Registry!Spec

=============================================================================
