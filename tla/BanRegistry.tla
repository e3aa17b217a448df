----------------------------- MODULE BanRegistry -----------------------------
(***************************************************************************)
(* What the ban manager promises, with nothing of objects and rows: who is *)
(* banned stays out until his term is over or somebody lifts his ban, and  *)
(* no crash changes that.  The term of a ban that was given once is not cut*)
(* short by a crash, which may add a moment to it; that of one that was    *)
(* changed since may be.                                                   *)
(***************************************************************************)
EXTENDS Integers

CONSTANTS
  Players,
  Moments   \* the values of the clock

VARIABLES
  banned,   \* the players who are kept out
  term,     \* the moments at which each of them must be
  unsure,   \* those whose ban was changed, and might be changed back
  now

vars == <<banned, term, unsure, now>>

Init ==
  /\ banned = {}
  /\ term = [p \in Players |-> {}]
  /\ unsure = {}
  /\ now = 0

Ban(p, T) ==
  /\ p \notin banned
  /\ now \in T
  /\ banned' = banned \cup {p}
  /\ term' = [term EXCEPT ![p] = T]
  /\ UNCHANGED <<unsure, now>>

Renew(p, T) ==
  /\ p \in banned
  /\ now \in T
  /\ term' = [term EXCEPT ![p] = T]
  /\ unsure' \in {unsure \cup {p}, unsure \ {p}}
  /\ UNCHANGED <<banned, now>>

(* The players in P are let in again; those in Q will be.                  *)
Lift(P, Q) ==
  /\ banned' = banned \ P
  /\ term' = [p \in Players |-> IF p \in P \cup Q THEN {} ELSE term[p]]
  /\ unsure' = (unsure \ P) \cup Q
  /\ UNCHANGED now

Unban(p) ==
  /\ p \in banned
  /\ Lift({p}, {}) \/ Lift({}, {p})

CheckBans ==
  \E P, Q \in SUBSET {p \in banned : now \notin term[p]} : Lift(P, Q)

Crash ==
  /\ term' \in [Players -> SUBSET Moments]
  /\ \A p \in Players \ unsure :
       /\ term[p] \subseteq term'[p]
       /\ \A t \in term'[p] : t \in term[p] \/ t - 1 \in term[p]
  /\ unsure' = {}
  /\ UNCHANGED <<banned, now>>

Tick ==
  /\ now' = now + 1
  /\ UNCHANGED <<banned, term, unsure>>

Next ==
  \/ Tick \/ Crash \/ CheckBans
  \/ \E p \in Players : Unban(p) \/ \E T \in SUBSET Moments : Ban(p, T) \/ Renew(p, T)

Spec == Init /\ [][Next]_vars

=============================================================================
