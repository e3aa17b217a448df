----------------------------- MODULE ServerPool -----------------------------
(***************************************************************************)
(* What the pug managers of a group promise about the game servers they    *)
(* share, with nothing of objects, tables and restarts: a server is lent to*)
(* one pug at a time, a pug gets the one server it was made with and keeps *)
(* it until it ends, and when the daemon dies the servers of pugs whose    *)
(* game is not over stay with them.  Of a server that a failure has touched*)
(* nothing is promised.                                                    *)
(***************************************************************************)
CONSTANTS Pugs, Servers, Nowhere

VARIABLES
  made,    \* the pugs that were ever created
  server,  \* the server each pug has now
  over,    \* those of them whose game is over
  broken   \* the servers that failures have touched

vars == <<made, server, over, broken>>

Holders == {q \in Pugs : server[q] # Nowhere}

Init ==
  /\ made = {}
  /\ server = [q \in Pugs |-> Nowhere]
  /\ over = {}
  /\ broken = {}

(* The pugs in Q have no server any more.                                  *)
Without(Q) == [q \in Pugs |-> IF q \in Q THEN Nowhere ELSE server[q]]

(* A new pug, and a server that no other pug has.                          *)
Lendable(q, s) ==
  /\ q \notin made
  /\ \A r \in Pugs : server[r] # s
  /\ made' = made \cup {q}

Lent(q, s) == IF s \in broken THEN Nowhere ELSE s

Lend(q, s) ==
  /\ Lendable(q, s)
  /\ server' = [server EXCEPT ![q] = Lent(q, s)]
  /\ UNCHANGED <<over, broken>>

(* The pug comes to nothing, and nobody loses his server.                  *)
LendFails(q) ==
  /\ q \notin made
  /\ made' = made \cup {q}
  /\ UNCHANGED <<server, over, broken>>

GameOver(q) ==
  /\ q \in Holders
  /\ over' = over \cup {q}
  /\ UNCHANGED <<made, server, broken>>

Return(q) ==
  /\ q \in Holders
  /\ server' = Without({q})
  /\ over' = over \ {q}
  /\ UNCHANGED <<made, broken>>

(* A failure touches the servers in S.                                     *)
Break(S) ==
  /\ broken' = broken \cup S
  /\ server' = [q \in Pugs |-> IF server[q] \in S THEN Nowhere ELSE server[q]]
  /\ over' = {q \in over : server[q] \notin S}
  /\ UNCHANGED made

(* The daemon dies, perhaps while it creates a pug: the pugs in Q, whose   *)
(* game was over, do not come back, and of some others nobody knows any    *)
(* more that it was.                                                       *)
Crash ==
  \E Q \in SUBSET over :
    /\ over' \subseteq over \ Q
    /\ \/ server' = Without(Q) /\ UNCHANGED made
       \/ \E q \in Pugs, s \in Servers :
            Lendable(q, s) /\ server' = [Without(Q) EXCEPT ![q] = Lent(q, s)]
    /\ UNCHANGED broken

Next ==
  \/ \E S \in SUBSET Servers : Break(S)
  \/ \E q \in Pugs, s \in Servers : Lend(q, s)
  \/ \E q \in Pugs : LendFails(q) \/ GameOver(q) \/ Return(q)
  \/ Crash

Spec == Init /\ [][Next]_vars

(* No server is lent to two pugs: of create_pug, which must find a server  *)
(* that is not in use, whatever happened before.                           *)
OneHolder == \A q, r \in Holders : server[q] = server[r] => q = r

=============================================================================
