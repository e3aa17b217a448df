--------------------------- MODULE FleetRefinement ---------------------------
(* Fleet implements ServerPool.                                            *)
EXTENDS Fleet

StateOf(q) == IF IsUp THEN obj[q].state ELSE row[q].state

(* The pugs that have a server: those in the lists of the managers or, when*)
(* the daemon is not up, those that it would load.                         *)
Held == {q \in Pugs : StateOf(q) \in {"open", "over", "reopened"} /\ home[q] \notin hurt}

Lease == [q \in Pugs |-> IF q \in Held THEN home[q] ELSE Nowhere]

Pool ==
  INSTANCE ServerPool WITH
    made <- {q \in Pugs : owner[q] # Nobody},
    server <- Lease,
    over <- {q \in Held : StateOf(q) # "open"},
    broken <- hurt

(* Through every crash, shutdown, half-written flush and restart, servers  *)
(* are lent as if the pool was never down: to one pug at a time, once to   *)
(* each, and taken only from a pug that ended or whose game was over.      *)
ImplementsServerPool == Pool!Spec

=============================================================================
