----------------------- MODULE FleetRefinementProofs -----------------------
(***************************************************************************)
(* Fleet implements ServerPool, for every value of the constants.          *)
(*                                                                         *)
(* What the pool sees of a pug is whether it has a server and whether its  *)
(* game is over.  While the daemon is up its object says so, and its row   *)
(* before and after that: IInv says that the two agree when one takes the  *)
(* place of the other, except where the pool allows that they do not.      *)
(***************************************************************************)
EXTENDS FleetRefinement, FleetProofs

(* The pugs whose servers no failure has touched.                          *)
Untouched == {q \in Pugs : home[q] \notin hurt}

(* The pool sees nothing new of the pugs in Q.                             *)
Same(Q) ==
  \A q \in Q :
    /\ (q \in Held)' <=> q \in Held
    /\ q \in Held => ((StateOf(q) = "open")' <=> StateOf(q) = "open")

-----------------------------------------------------------------------------
(* Who has a server, in the terms of IInv, before a step and after it.     *)
LEMMA HeldIs ==
  ASSUME TypeOK
  PROVE  /\ IsUp => Held = {q \in Listed : home[q] \notin hurt}
         /\ ~IsUp => Held = {q \in Unfinished : home[q] \notin hurt}
<1>1. \A q \in Pugs : obj[q].state \in PugStates /\ row[q].state \in RowStates
  BY DEF TypeOK
<1> QED BY <1>1 DEF Held, StateOf, Listed, Unfinished, PugStates, RowStates

LEMMA HeldWillBe ==
  ASSUME TypeOK'
  PROVE  /\ IsUp' => Held' = {q \in Listed' : home'[q] \notin hurt'}
         /\ ~IsUp' => Held' = {q \in Unfinished' : home'[q] \notin hurt'}
<1>1. \A q \in Pugs : obj'[q].state \in PugStates /\ row'[q].state \in RowStates
  BY DEF TypeOK
<1> QED BY <1>1 DEF Held, StateOf, Listed, Unfinished, PugStates, RowStates

(* A pug with a server has the one it was made with.                       *)
LEMMA LeaseIs ==
  ASSUME TypeOK, Made
  PROVE  /\ \A q \in Held : q \in Pugs /\ home[q] \in Servers /\ Lease[q] = home[q]
         /\ \A q \in Pugs \ Held : Lease[q] = Nowhere
         /\ Nowhere \notin Servers
<1>1. \A q \in Held : q \in Pugs /\ q \in Listed \cup Unfinished
  BY HeldIs DEF Listed, Unfinished
<1> QED BY <1>1, ServersAssumption DEF Made, Lease

(* A step that is not seen, but for the servers that a failure touches.    *)
LEMMA Unseen ==
  ASSUME IInv, TypeOK', UNCHANGED <<owner, home>>, hurt \subseteq hurt',
         Same(Untouched')
  PROVE  Pool!Next
<1> DEFINE S == hurt' \ hurt
<1>1. S \in SUBSET Servers /\ hurt' = hurt \cup S
  BY DEF TypeOK
<1>2. \A q \in Held : q \in Pugs /\ home[q] \in Servers /\ home[q] \notin hurt /\ Lease[q] = home[q]
  BY LeaseIs DEF IInv, Held
<1>3. \A q \in Pugs \ Held : Lease[q] = Nowhere /\ Nowhere \notin S
  BY LeaseIs, <1>1 DEF IInv
<1>4. \A q \in Pugs : (q \in Held)' <=> q \in Held /\ home[q] \notin S
  BY <1>1, <1>2 DEF Same, Untouched, Held
<1>5. \A q \in Pugs : Lease[q] \in S <=> q \in Held /\ home[q] \in S
  BY <1>2, <1>3
<1>6. Lease' = [q \in Pugs |-> IF Lease[q] \in S THEN Nowhere ELSE Lease[q]]
  BY <1>2, <1>3, <1>4, <1>5 DEF Lease
<1>7. {q \in Held : StateOf(q) # "open"}' =
         {q \in {r \in Held : StateOf(r) # "open"} : Lease[q] \notin S}
  <2>1. \A q : (q \in Held)' => q \in Pugs
    BY DEF Held
  <2>2. \A q \in Pugs : (q \in Held)' =>
           ((StateOf(q) = "open")' <=> StateOf(q) = "open")
    BY <1>1, <1>4, <1>2 DEF Same, Untouched
  <2> QED BY <2>1, <2>2, <1>2, <1>4, <1>5
<1>8. Pool!Break(S)
  BY <1>1, <1>6, <1>7 DEF Pool!Break
<1> QED BY <1>1, <1>8 DEF Pool!Next

(* A pug ends, and its server is free.                                     *)
LEMMA Returned ==
  ASSUME IInv, UNCHANGED <<owner, home, hurt>>, NEW q \in Held, ~(q \in Held)', Same(Pugs \ {q})
  PROVE  Pool!Next
<1>1. q \in Pugs /\ Lease[q] # Nowhere
  BY LeaseIs DEF IInv
<1>2. \A r \in Pugs : (r \in Held)' <=> r \in Held /\ r # q
  BY DEF Same
<1>3. Lease' = [r \in Pugs |-> IF r \in {q} THEN Nowhere ELSE Lease[r]]
  BY <1>2 DEF Lease
<1>4. {r \in Held : StateOf(r) # "open"}' = {r \in Held : StateOf(r) # "open"} \ {q}
  <2>1. \A r : (r \in Held)' => r \in Pugs
    BY DEF Held
  <2>2. \A r : r \in Held => r \in Pugs
    BY DEF Held
  <2> QED BY <1>2, <2>1, <2>2 DEF Same
<1>5. Pool!Return(q)
  BY <1>1, <1>3, <1>4 DEF Pool!Return, Pool!Holders, Pool!Without
<1> QED BY <1>1, <1>5 DEF Pool!Next

(* The daemon dies: who is lost had a game that was over, and nobody's game*)
(* is over that was not.                                                   *)
LEMMA Dying ==
  ASSUME IInv, UNCHANGED <<owner, home, hurt>>, Held' \subseteq Held,
         \A q \in Held : ~(q \in Held)' => StateOf(q) # "open",
         \A q \in Held : (q \in Held)' => (StateOf(q) = "open" => (StateOf(q) = "open")')
  PROVE  Pool!Next
<1> DEFINE over == {q \in Held : StateOf(q) # "open"}
           Q == Held \ Held'
<1>1. Q \in SUBSET over
  OBVIOUS
<1>2. over' \subseteq over \ Q
  OBVIOUS
<1>3. Lease' = [q \in Pugs |-> IF q \in Q THEN Nowhere ELSE Lease[q]]
  BY DEF Lease
<1>4. Pool!Crash
  BY <1>1, <1>2, <1>3 DEF Pool!Crash, Pool!Without
<1> QED BY <1>4 DEF Pool!Next

-----------------------------------------------------------------------------
(* Handlers of a daemon that is up and stays up.                           *)
LEMMA UpUnseen ==
  ASSUME IInv, TypeOK', IsUp, UNCHANGED <<boot, owner, home>>, hurt \subseteq hurt',
         \A q \in Pugs : home[q] \notin hurt' =>
            /\ obj'[q].state = "none" <=> obj[q].state = "none"
            /\ obj'[q].state = "open" <=> obj[q].state = "open"
  PROVE  Pool!Next
<1>1. /\ IsUp'
      /\ Held = {q \in Listed : home[q] \notin hurt}
      /\ Held' = {q \in Listed' : home[q] \notin hurt'}
  BY HeldIs, HeldWillBe DEF IInv, IsUp
<1>2. Same(Untouched')
  BY <1>1 DEF Same, Untouched, Listed, StateOf
<1> QED BY <1>2, Unseen

(* Loading pugs changes no row, and a daemon that is not up has no other   *)
(* word on its pugs.                                                       *)
LEMMA NotUpUnseen ==
  ASSUME IInv, TypeOK', ~IsUp, ~IsUp', UNCHANGED <<owner, home, row>>, hurt \subseteq hurt'
  PROVE  Pool!Next
<1>1. /\ Held = {q \in Unfinished : home[q] \notin hurt}
      /\ Held' = {q \in Unfinished : home[q] \notin hurt'}
  BY HeldIs, HeldWillBe DEF IInv, Unfinished
<1>2. Same(Untouched')
  BY <1>1 DEF Same, Untouched, StateOf
<1> QED BY <1>2, Unseen

(* Players come.                                                           *)
LEMMA JoinSeen ==
  ASSUME IInv, TypeOK', NEW p \in Players, NEW q \in Pugs, Join(p, q)
  PROVE  Pool!Next
<1>1. /\ IsUp /\ UNCHANGED <<boot, owner, home>> /\ q \in Listed
      /\ obj' = [obj EXCEPT ![q] = Joined(obj[q], p)]
      /\ hurt \subseteq hurt'
  BY DEF Join, CanJoin, IsUp, FlushPug, Hurts
<1>2. obj'[q].state # "none" /\ (obj'[q].state = "open" <=> obj[q].state = "open")
  BY <1>1 DEF IInv, TypeOK, Joined, Listed
<1>3. \A r \in Pugs \ {q} : obj'[r] = obj[r]
  BY <1>1 DEF IInv, TypeOK
<1> QED BY <1>1, <1>2, <1>3, UpUnseen DEF Listed

(* A pug ends: its server is returned, unless a failure touches it or the  *)
(* daemon dies before the row is written.                                  *)
LEMMA EndPugSeen ==
  ASSUME IInv, TypeOK', IsUp, NEW q \in Listed, NEW o \in Live,
         o.state = "open" <=> obj[q].state = "open", EndPug(q, o)
  PROVE  Pool!Next
<1>1. /\ UNCHANGED <<owner, home>> /\ q \in Pugs
      /\ Held = {r \in Listed : home[r] \notin hurt}
  BY HeldIs DEF EndPug, Listed, IInv
<1>2. CASE UNCHANGED boot /\ obj' = [obj EXCEPT ![q] = NoPug] /\ FlushPug(q, Ended(o))
  <2>1. /\ hurt \subseteq hurt'
        /\ hurt' = hurt \/ home[q] \in hurt'
        /\ ~(q \in Held)'
        /\ \A r \in Pugs \ {q} : obj'[r] = obj[r]
    BY <1>1, <1>2 DEF FlushPug, Hurts, Held, StateOf, IsUp, IInv, TypeOK, NoPug
  <2>2. CASE home[q] \in hurt'
    BY <1>1, <1>2, <2>1, <2>2, UpUnseen
  <2>3. CASE home[q] \notin hurt'
    <3>1. hurt' = hurt /\ q \in Held
      BY <1>1, <2>1, <2>3
    <3>2. Same(Pugs \ {q})
      BY <1>2, <2>1, <3>1, <1>1 DEF Same, Held, StateOf, IsUp
    <3> QED BY <1>1, <2>1, <3>1, <3>2, Returned
  <2> QED BY <2>2, <2>3
<1>3. CASE Dies /\ UNCHANGED <<row, hurt>>
  <2>1. ~IsUp'
    BY <1>3 DEF Dies, Down, IsUp
  <2>2. Held' = {r \in Unfinished : home[r] \notin hurt}
    BY <1>1, <1>3, <2>1, HeldWillBe DEF Unfinished
  <2>3. \A r \in Held : ~(r \in Held)' => StateOf(r) # "open"
    BY <1>1, <2>2 DEF IInv, Managed, StateOf, Listed, Unfinished
  <2>4. \A r \in Held : (r \in Held)' => (StateOf(r) = "open" => (StateOf(r) = "open")')
    BY <1>1, <1>3, <2>1 DEF IInv, Managed, StateOf, Listed
  <2>5. Held' \subseteq Held
    BY <1>1, <2>2 DEF IInv, Managed
  <2> QED BY <1>1, <1>3, <2>3, <2>4, <2>5, Dying
<1>4. CASE UNCHANGED boot /\ obj' = [obj EXCEPT ![q] = o] /\ hurt \subseteq hurt'
  <2>1. /\ \A r \in Pugs \ {q} : obj'[r] = obj[r]
        /\ obj'[q] = o
    BY <1>1, <1>4 DEF IInv, TypeOK
  <2> QED BY <1>1, <1>4, <2>1, UpUnseen DEF Live, Listed
<1>5. CASE UNCHANGED boot /\ obj' = [obj EXCEPT ![q] = Ended(o)] /\ Hurts(home[q])
  <2>1. /\ \A r \in Pugs \ {q} : obj'[r] = obj[r]
        /\ obj'[q] = Ended(o) /\ Ended(o) \in Live
        /\ hurt \subseteq hurt' /\ home[q] \in hurt'
    BY <1>1, <1>5 DEF IInv, TypeOK, Hurts, Ended, Live
  <2> QED BY <1>1, <1>5, <2>1, UpUnseen
<1> QED BY <1>2, <1>3, <1>4, <1>5 DEF EndPug, Hurts

(* Players leave, and the last of them ends the pug.                       *)
LEMMA LeaveSeen ==
  ASSUME IInv, TypeOK', NEW p \in Players, NEW q \in Pugs, Leave(p, q)
  PROVE  Pool!Next
<1> DEFINE o == [players |-> obj[q].players \ {p},
                 state |-> IF obj[q].state = "over" THEN "reopened" ELSE obj[q].state]
<1>1. /\ IsUp /\ q \in Listed /\ o \in Live
      /\ o.state = "open" <=> obj[q].state = "open"
  BY DEF Leave, IsUp, Live, Listed, IInv, TypeOK, PugStates
<1>2. CASE EndPug(q, o)
  BY <1>1, <1>2, EndPugSeen
<1>3. CASE obj' = [obj EXCEPT ![q] = o] /\ UNCHANGED <<boot, owner, home, hurt>>
  <2>1. /\ \A r \in Pugs \ {q} : obj'[r] = obj[r]
        /\ obj'[q] = o
    BY <1>3 DEF IInv, TypeOK
  <2> QED BY <1>1, <1>3, <2>1, UpUnseen DEF Live, Listed
<1> QED BY <1>2, <1>3 DEF Leave

(* A game ends, and the pool sees it unless a failure has touched the      *)
(* server.                                                                 *)
LEMMA GameOverSeen ==
  ASSUME IInv, TypeOK', NEW s \in Servers, GameOver(s)
  PROVE  Pool!Next
<1> DEFINE q == srv[s].pug
<1>1. /\ IsUp /\ q \in Listed /\ q \in Pugs
      /\ obj' = [obj EXCEPT ![q].state = "over"]
      /\ UNCHANGED <<boot, owner, home, hurt>>
  BY DEF GameOver, IsUp, Listed
<1> HIDE DEF q
<1>2. /\ obj'[q].state = "over"
      /\ \A r \in Pugs \ {q} : obj'[r] = obj[r]
      /\ obj[q].state # "none"
  BY <1>1 DEF IInv, TypeOK, Listed
<1>3. CASE home[q] \in hurt
  BY <1>1, <1>2, <1>3, UpUnseen
<1>4. CASE home[q] \notin hurt
  <2>1. /\ IsUp'
        /\ Held = {r \in Listed : home[r] \notin hurt}
        /\ Held' = {r \in Listed' : home[r] \notin hurt}
    BY <1>1, HeldIs, HeldWillBe DEF IInv, IsUp
  <2>2. Held' = Held /\ q \in Held
    BY <1>1, <1>2, <1>4, <2>1 DEF Listed
  <2>3. \A r \in Held : r \in Pugs
    BY DEF Held
  <2>4. {r \in Held : StateOf(r) # "open"}' = {r \in Held : StateOf(r) # "open"} \cup {q}
    BY <1>1, <1>2, <2>1, <2>2, <2>3 DEF StateOf
  <2>5. Lease' = Lease /\ Lease[q] # Nowhere
    BY <1>1, <2>2, LeaseIs DEF Lease, IInv
  <2>6. Pool!GameOver(q)
    BY <1>1, <2>4, <2>5 DEF Pool!GameOver, Pool!Holders
  <2> QED BY <1>1, <2>6 DEF Pool!Next
<1> QED BY <1>3, <1>4

(* A shutdown, or a crash: a pug goes only when its row says that it is    *)
(* over, and a pug that is not over has a row that says so.                *)
LEMMA StopSeen ==
  ASSUME IInv, TypeOK', Stop
  PROVE  Pool!Next
<1>1. PICK P \in SUBSET Listed, S \in SUBSET Servers : FlushAll(P, S)
  BY DEF Stop, Unwritten, Stale
<1>2. IsUp /\ ~IsUp' /\ UNCHANGED <<owner, home, hurt>>
  BY DEF Stop, Dies, Down, IsUp
<1>3. /\ Held = {q \in Listed : home[q] \notin hurt}
      /\ Held' = {q \in Unfinished' : home[q] \notin hurt}
  BY <1>2, HeldIs, HeldWillBe DEF IInv
<1>4. /\ \A q \in Pugs : q \notin P => row'[q] = row[q]
      /\ \A q \in P : row'[q] = FlushedRow(row[q], obj[q])
  BY <1>1, FlushAllDoes DEF IInv
<1>5. Held' \subseteq Held
  BY <1>2, <1>3, <1>4 DEF IInv, Managed, Unfinished, Listed
<1>6. ASSUME NEW q \in Held, StateOf(q) = "open"
      PROVE  row'[q].state = "open"
  <2>1. q \in Listed /\ q \in Pugs /\ obj[q].state = "open" /\ row[q].state = "open"
    BY <1>2, <1>3, <1>6 DEF StateOf, IInv, Managed, Listed
  <2>2. CASE q \in P
    BY <1>4, <2>1, <2>2 DEF FlushedRow
  <2>3. CASE q \notin P
    BY <1>4, <2>1, <2>3
  <2> QED BY <2>2, <2>3
<1>7. ASSUME NEW q \in Held, ~(q \in Held)'
      PROVE  StateOf(q) # "open"
  BY <1>3, <1>6, <1>7 DEF Unfinished, Listed
<1>8. ASSUME NEW q \in Held, (q \in Held)', StateOf(q) = "open"
      PROVE  (StateOf(q) = "open")'
  BY <1>2, <1>6, <1>8 DEF StateOf
<1> QED BY <1>2, <1>5, <1>7, <1>8, Dying

(* A pug that is too old to be loaded is ended instead.                    *)
LEMMA LoadOldSeen ==
  ASSUME IInv, TypeOK', NEW q \in Pugs, LoadOld(q)
  PROVE  Pool!Next
<1>1. /\ q \in Unfinished /\ boot.phase = "loading" /\ ~IsUp
      /\ UNCHANGED <<owner, home>>
  BY DEF LoadOld, IInv, Booting, Made, IsUp
<1>2. Held = {r \in Unfinished : home[r] \notin hurt}
  BY <1>1, HeldIs DEF IInv
<1>3. CASE /\ boot' = [boot EXCEPT !.unread = @ \ {q}]
           /\ FlushPug(q, Ended(row[q]))
  <2>1. ~IsUp'
    BY <1>1, <1>3 DEF IInv, TypeOK, IsUp
  <2>2. Held' = {r \in Unfinished' : home[r] \notin hurt'}
    BY <1>1, <2>1, HeldWillBe
  <2>3. CASE row' = [row EXCEPT ![q] = FlushedRow(row[q], Ended(row[q]))] /\ UNCHANGED hurt
    <3>1. Ended(row[q]).state = "over"
      BY DEF Ended, IInv, TypeOK
    <3>2. /\ row'[q].state = "finished"
          /\ \A r \in Pugs \ {q} : row'[r] = row[r]
      BY <2>3, <3>1 DEF FlushedRow, Finished, IInv, TypeOK
    <3>3. CASE home[q] \in hurt
      <4>1. Same(Untouched')
        <5>1. \A r \in Pugs : home[r] \notin hurt => row'[r] = row[r]
          BY <3>2, <3>3
        <5>2. \A r \in Pugs : home[r] \notin hurt => ((r \in Held)' <=> r \in Held)
          BY <1>1, <1>2, <2>2, <2>3, <5>1 DEF Unfinished
        <5> QED BY <1>1, <2>1, <2>3, <5>1, <5>2 DEF Same, Untouched, StateOf
      <4>2. hurt \subseteq hurt'
        BY <2>3
      <4> QED BY <1>1, <4>1, <4>2, Unseen
    <3>4. CASE home[q] \notin hurt
      <4>1. Same(Pugs \ {q})
        BY <1>1, <1>2, <2>1, <2>2, <2>3, <3>2 DEF Same, StateOf, Unfinished
      <4>2. q \in Held /\ ~(q \in Held)'
        BY <1>1, <1>2, <2>2, <2>3, <3>2, <3>4 DEF Unfinished
      <4> QED BY <1>1, <2>3, <4>1, <4>2, Returned
    <3> QED BY <3>3, <3>4
  <2>4. CASE Hurts(home[q]) /\ UNCHANGED row
    BY <1>1, <2>1, <2>4, NotUpUnseen DEF Hurts
  <2> QED BY <1>3, <2>3, <2>4 DEF FlushPug
<1>4. CASE Dies /\ UNCHANGED <<row, hurt>>
  <2>1. ~IsUp'
    BY <1>4 DEF Dies, Down, IsUp
  <2> QED BY <1>1, <1>4, <2>1, NotUpUnseen
<1> QED BY <1>3, <1>4 DEF LoadOld

(* The objects take the place of the rows: all have been loaded.           *)
LEMMA LateLoadSeen ==
  ASSUME IInv, TypeOK', LateLoad
  PROVE  Pool!Next
<1>1. /\ ~IsUp /\ IsUp' /\ boot.phase = "loading" /\ boot.todo = {}
      /\ UNCHANGED <<obj, row, owner, home, hurt>>
  BY DEF LateLoad, Up, IsUp, tables
<1>2. /\ Held = {q \in Unfinished : home[q] \notin hurt}
      /\ Held' = {q \in Listed : home[q] \notin hurt}
  BY <1>1, HeldIs, HeldWillBe DEF IInv, Listed
<1>3. \A q \in Unfinished : home[q] \notin hurt => q \in Listed
  BY <1>1 DEF IInv, Loading
<1>4. \A q \in Listed : q \in Unfinished /\ obj[q] = row[q]
  BY <1>1 DEF IInv, Loading
<1>5. Held' = Held
  BY <1>2, <1>3, <1>4
<1>6. Same(Untouched')
  BY <1>1, <1>2, <1>4, <1>5 DEF Same, Untouched, StateOf
<1> QED BY <1>1, <1>6, Unseen

(* A server is lent: none of its servers that failures have not touched    *)
(* has another pug, listed or in the table, if it is not in use.           *)
LEMMA CreateSeen ==
  ASSUME IInv, TypeOK', NEW m \in Managers, NEW p \in Players, NEW q \in Pugs, NEW s \in Servers,
         Create(m, p, q, s)
  PROVE  Pool!Next
<1> DEFINE new == [players |-> {p}, state |-> "open"]
           over == {r \in Held : StateOf(r) # "open"}
<1>1. /\ IsUp /\ owner[q] = Nobody /\ ~InUse(s)
      /\ owner' = [owner EXCEPT ![q] = m]
      /\ home' = [home EXCEPT ![q] = s]
      /\ owner'[q] # Nobody /\ home'[q] = s
      /\ \A r \in Pugs \ {q} : owner'[r] = owner[r] /\ home'[r] = home[r]
  BY ManagersAssumption DEF Create, IsUp, IInv, TypeOK
<1>2. /\ q \notin Listed /\ q \notin Unfinished /\ q \notin Held
      /\ Held = {r \in Listed : home[r] \notin hurt}
      /\ Lease[q] = Nowhere
  BY <1>1, HeldIs DEF IInv, Made, Lease
<1>3. \A r \in Pugs : Lease[r] # s
  <2>1. None \notin Pugs
    BY DEF None, Pugs
  <2>2. \A r \in Held : home[r] # s
    BY <1>1, <1>2, <2>1 DEF IInv, Paired, InUse, Listed
  <2> QED BY <2>2, LeaseIs DEF IInv
<1>4. Pool!Lendable(q, s)
  BY <1>1, <1>3 DEF Pool!Lendable
<1>5. CASE obj' = [obj EXCEPT ![q] = new] /\ UNCHANGED <<boot, hurt>>
  <2>1. /\ obj'[q].state = "open"
        /\ \A r \in Pugs \ {q} : obj'[r] = obj[r]
        /\ IsUp'
        /\ Held' = {r \in Listed' : home'[r] \notin hurt}
    BY <1>1, <1>5, HeldWillBe DEF IInv, TypeOK, IsUp
  <2>2. /\ (q \in Held)' <=> s \notin hurt
        /\ \A r \in Pugs \ {q} : (r \in Held)' <=> r \in Held
    BY <1>1, <1>2, <1>5, <2>1 DEF Listed
  <2>3. Lease' = [Lease EXCEPT ![q] = IF s \in hurt THEN Nowhere ELSE s]
    BY <1>1, <2>2 DEF Lease
  <2>4. over' = over
    <3>1. \A r : (r \in Held)' => r \in Pugs
      BY DEF Held
    <3>2. \A r : r \in Held => r \in Pugs
      BY DEF Held
    <3> QED BY <1>1, <1>2, <2>1, <2>2, <3>1, <3>2 DEF StateOf
  <2>5. Pool!Lend(q, s)
    BY <1>4, <1>5, <2>3, <2>4 DEF Pool!Lend, Pool!Lent
  <2> QED BY <2>5 DEF Pool!Next
<1>6. CASE row' = [row EXCEPT ![q] = new] /\ Dies /\ UNCHANGED hurt
  <2>1. /\ row'[q].state = "open"
        /\ \A r \in Pugs \ {q} : row'[r] = row[r]
        /\ ~IsUp'
        /\ Held' = {r \in Unfinished' : home'[r] \notin hurt}
    BY <1>1, <1>6, HeldWillBe DEF IInv, TypeOK, IsUp, Dies, Down
  <2>2. /\ (q \in Held)' <=> s \notin hurt
        /\ \A r \in Pugs \ {q} : (r \in Held)' <=> r \in Unfinished /\ home[r] \notin hurt
    BY <1>1, <1>6, <2>1 DEF Unfinished
  <2> DEFINE Q == Held \ Held'
  <2>3. \A r \in Pugs \ {q} : (r \in Held)' => r \in Held
    BY <1>1, <1>2, <2>2 DEF IInv, Managed
  <2>4. \A r \in Held : StateOf(r) = "open" => (r \in Held)' /\ (StateOf(r) = "open")'
    <3>1. \A r \in Held : StateOf(r) = "open" => r \in Pugs \ {q} /\ row[r].state = "open"
      BY <1>1, <1>2 DEF IInv, Managed, StateOf, Listed
    <3> QED BY <1>2, <2>1, <2>2, <3>1 DEF StateOf, Unfinished
  <2>5. Q \in SUBSET over
    BY <2>4
  <2>6. over' \subseteq over \ Q
    <3>1. \A r : (r \in Held)' => r \in Pugs
      BY DEF Held
    <3>2. (StateOf(q) = "open")'
      BY <2>1 DEF StateOf
    <3> QED BY <2>3, <2>4, <3>1, <3>2
  <2>7. Lease' = [[r \in Pugs |-> IF r \in Q THEN Nowhere ELSE Lease[r]]
                    EXCEPT ![q] = IF s \in hurt THEN Nowhere ELSE s]
    <3>1. \A r \in Pugs \ {q} : Lease'[r] = IF r \in Q THEN Nowhere ELSE Lease[r]
      BY <1>1, <2>3 DEF Lease
    <3>2. Lease'[q] = IF s \in hurt THEN Nowhere ELSE s
      BY <1>1, <2>2 DEF Lease
    <3> QED BY <3>1, <3>2 DEF Lease
  <2>8. Pool!Crash
    BY <1>4, <1>6, <2>5, <2>6, <2>7 DEF Pool!Crash, Pool!Without, Pool!Lent
  <2> QED BY <2>8 DEF Pool!Next
<1>7. CASE UNCHANGED <<boot, obj, row, hurt>>
  <2>1. /\ IsUp' /\ Listed' = Listed
        /\ Held' = {r \in Listed : home'[r] \notin hurt}
    BY <1>1, <1>7, HeldWillBe DEF IsUp, Listed
  <2>2. \A r \in Held : r \in Pugs /\ r # q
    BY <1>2, LeaseIs DEF IInv
  <2>3. Held' = Held
    BY <1>1, <1>2, <2>1, <2>2 DEF Listed
  <2>4. Lease' = Lease /\ over' = over
    BY <1>1, <1>7, <2>1, <2>2, <2>3 DEF Lease, StateOf
  <2>5. Pool!LendFails(q)
    BY <1>4, <1>7, <2>4 DEF Pool!LendFails, Pool!Lendable
  <2> QED BY <2>5 DEF Pool!Next
<1> QED BY <1>5, <1>6, <1>7 DEF Create

-----------------------------------------------------------------------------
(* Nothing was lent yet.                                                   *)
LEMMA InitPool ==
  ASSUME Init
  PROVE  Pool!Init
<1>1. Held = {}
  BY DEF Init, Down, NoPug, Held, StateOf
<1> QED BY <1>1 DEF Init, Pool!Init, Lease

(* Every step of the daemon is a step of the pool.                         *)
LEMMA StepPool ==
  ASSUME IInv, IInv', [Next]_vars
  PROVE  Pool!Next
<1>0. TypeOK'
  BY DEF IInv
<1>1. CASE \/ UNCHANGED vars \/ PeriodicFlush
           \/ \E q \in Pugs : Progress(q)
           \/ \E m \in Managers : NewManager(m)
  <2>1. UNCHANGED <<boot, obj, owner, home>> /\ hurt \subseteq hurt'
    BY <1>1 DEF vars, PeriodicFlush, Progress, NewManager, FlushPug, Hurts, memory
  <2>2. CASE IsUp
    BY <1>0, <2>1, <2>2, UpUnseen
  <2>3. CASE ~IsUp
    <3>1. ~IsUp'
      BY <2>1, <2>3 DEF IsUp
    <3>2. row' = row
      <4>1. UNCHANGED vars
        BY <1>1, <2>3 DEF PeriodicFlush, Progress, NewManager, IsUp
      <4> QED BY <4>1 DEF vars
    <3> QED BY <1>0, <2>1, <2>3, <3>1, <3>2, NotUpUnseen
  <2> QED BY <2>2, <2>3
<1>2. CASE \/ Start \/ StopLoading \/ ManagerLoaded
           \/ \E q \in Pugs : LoadPug(q)
           \/ \E m \in Managers : GetPugs(m)
  <2>1. UNCHANGED <<owner, home, row>> /\ hurt \subseteq hurt'
    BY <1>2 DEF Start, StopLoading, ManagerLoaded, LoadPug, GetPugs, tables
  <2>2. ~IsUp
    BY <1>2 DEF Start, StopLoading, ManagerLoaded, LoadPug, GetPugs, IsUp, IInv, Booting, Made
  <2>3. boot'.phase # "up"
    <3>1. CASE Start \/ StopLoading
      <4>1. boot' = Down \/ boot' = [Down EXCEPT !.phase = "loading", !.todo = keys]
        BY <3>1 DEF Start, StopLoading, Dies
      <4>2. /\ Down.phase = "down"
            /\ [Down EXCEPT !.phase = "loading", !.todo = keys].phase = "loading"
        BY DEF Down
      <4> QED BY <4>1, <4>2
    <3>2. CASE ManagerLoaded \/ (\E q \in Pugs : LoadPug(q)) \/ (\E m \in Managers : GetPugs(m))
      <4>1. boot'.phase = boot.phase
        BY <3>2 DEF ManagerLoaded, LoadPug, GetPugs, IInv, TypeOK
      <4> QED BY <2>2, <4>1 DEF IsUp
    <3> QED BY <1>2, <3>1, <3>2
  <2>4. ~IsUp'
    BY <2>3 DEF IsUp
  <2> QED BY <1>0, <2>1, <2>2, <2>4, NotUpUnseen
<1>3. ASSUME NEW m \in Managers, NEW p \in Players, NEW q \in Pugs, NEW s \in Servers,
             Create(m, p, q, s)
      PROVE  Pool!Next
  BY <1>0, <1>3, CreateSeen
<1>4. ASSUME NEW p \in Players, NEW q \in Pugs, Join(p, q) \/ Leave(p, q)
      PROVE  Pool!Next
  BY <1>0, <1>4, JoinSeen, LeaveSeen
<1>5. ASSUME NEW q \in Pugs, End(q)
      PROVE  Pool!Next
  <2>1. IsUp /\ q \in Listed /\ obj[q] \in Live /\ EndPug(q, obj[q])
    BY <1>5 DEF End, IsUp, Live, Listed, IInv, TypeOK, PugStates
  <2> QED BY <1>0, <2>1, EndPugSeen
<1>6. ASSUME NEW q \in Pugs, LoadOld(q)
      PROVE  Pool!Next
  BY <1>0, <1>6, LoadOldSeen
<1>7. ASSUME NEW s \in Servers, GameOver(s)
      PROVE  Pool!Next
  BY <1>0, <1>7, GameOverSeen
<1>8. CASE Stop \/ LateLoad
  BY <1>0, <1>8, StopSeen, LateLoadSeen
<1> QED BY <1>1, <1>2, <1>3, <1>4, <1>5, <1>6, <1>7, <1>8 DEF Next

(* Across crashes between any two writes, half-written flushes, failures   *)
(* of rcon and restarts, the managers lend servers as one pool that never  *)
(* goes down: the server of a pug whose game is not over is never lent to  *)
(* another, nor lost.                                                      *)
THEOREM ServerPoolTheorem == Spec => ImplementsServerPool
<1>1. Init => Pool!Init
  BY InitPool
<1>2. IInv /\ IInv' /\ [Next]_vars => Pool!Next
  BY StepPool
<1> QED BY <1>1, <1>2, FleetInvariance, PTL DEF Spec, ImplementsServerPool, Pool!Spec

-----------------------------------------------------------------------------
(* What the pool promises is enough: no two pugs have one server.          *)
PoolInv == Lease \in [Pugs -> Servers \cup {Nowhere}] /\ Pool!OneHolder

LEMMA PoolStep ==
  ASSUME PoolInv, [Pool!Next]_(Pool!vars)
  PROVE  PoolInv'
<1> USE DEF PoolInv, Pool!OneHolder, Pool!Holders
<1>1. ASSUME NEW q \in Pugs, NEW s \in Servers, NEW Q \in SUBSET Pugs, Pool!Lendable(q, s),
             Lease' = [Pool!Without(Q) EXCEPT ![q] = Pool!Lent(q, s)]
      PROVE  PoolInv'
  <2>1. /\ Lease'[q] \in {s, Nowhere}
        /\ \A r \in Pugs \ {q} : Lease'[r] \in {Lease[r], Nowhere} /\ Lease[r] # s
    BY <1>1 DEF Pool!Without, Pool!Lent, Pool!Lendable
  <2>2. Lease' \in [Pugs -> Servers \cup {Nowhere}]
    BY <1>1 DEF Pool!Without, Pool!Lent
  <2> QED BY <2>1, <2>2
<1>2. ASSUME Lease' \in [Pugs -> Servers \cup {Nowhere}],
             \A r \in Pugs : Lease'[r] \in {Lease[r], Nowhere}
      PROVE  PoolInv'
  BY <1>2
<1>3. ASSUME NEW Q \in SUBSET Pugs, Lease' = Pool!Without(Q)
      PROVE  PoolInv'
  <2>1. /\ Lease' \in [Pugs -> Servers \cup {Nowhere}]
        /\ \A r \in Pugs : Lease'[r] \in {Lease[r], Nowhere}
    BY <1>3 DEF Pool!Without
  <2> QED BY <1>2, <2>1
<1>4. CASE Lease' = Lease
  BY <1>4
<1>5. ASSUME NEW q \in Pugs, NEW s \in Servers, Pool!Lend(q, s)
      PROVE  PoolInv'
  <2>1. Pool!Without({}) = Lease
    BY DEF Pool!Without
  <2>2. Lease' = [Pool!Without({}) EXCEPT ![q] = Pool!Lent(q, s)]
    BY <1>5, <2>1 DEF Pool!Lend
  <2>3. {} \in SUBSET Pugs /\ Pool!Lendable(q, s)
    BY <1>5 DEF Pool!Lend
  <2> HIDE DEF PoolInv
  <2> QED BY <1>1, <2>2, <2>3
<1>6. ASSUME NEW S \in SUBSET Servers, Pool!Break(S)
      PROVE  PoolInv'
  <2>1. /\ Lease' \in [Pugs -> Servers \cup {Nowhere}]
        /\ \A r \in Pugs : Lease'[r] \in {Lease[r], Nowhere}
    BY <1>6 DEF Pool!Break
  <2> QED BY <1>2, <2>1
<1>7. CASE Pool!Crash
  <2> DEFINE over == {q \in Held : StateOf(q) # "open"}
  <2>1. over \in SUBSET Pugs
    BY DEF Held
  <2>2. PICK Q \in SUBSET over :
          \/ Lease' = Pool!Without(Q)
          \/ \E q \in Pugs, s \in Servers :
               Pool!Lendable(q, s) /\ Lease' = [Pool!Without(Q) EXCEPT ![q] = Pool!Lent(q, s)]
    BY <1>7 DEF Pool!Crash
  <2> QED BY <1>1, <1>3, <2>1, <2>2
<1>8. ASSUME NEW q \in Pugs, Pool!Return(q)
      PROVE  PoolInv'
  <2>1. {q} \in SUBSET Pugs /\ Lease' = Pool!Without({q})
    BY <1>8 DEF Pool!Return
  <2> QED BY <1>3, <2>1
<1>9. CASE \/ UNCHANGED Pool!vars
           \/ \E q \in Pugs : Pool!GameOver(q)
           \/ \E q \in Pugs : Pool!LendFails(q)
  BY <1>4, <1>9 DEF Pool!vars, Pool!GameOver, Pool!LendFails
<1> QED BY <1>5, <1>6, <1>7, <1>8, <1>9 DEF Pool!Next

(* Two pugs never hold one server, unless a failure has touched it: not    *)
(* while the daemon runs, and not in the rows it leaves when it dies or has*)
(* loaded in part.  It follows from what the pool alone promises.          *)
THEOREM OneHolderTheorem == Spec => []Pool!OneHolder
<1>1. Pool!Init => PoolInv
  BY DEF Pool!Init, PoolInv, Pool!OneHolder, Pool!Holders
<1>2. PoolInv /\ [Pool!Next]_(Pool!vars) => PoolInv'
  BY PoolStep
<1>3. PoolInv => Pool!OneHolder
  BY DEF PoolInv
<1>4. ImplementsServerPool => []Pool!OneHolder
  BY <1>1, <1>2, <1>3, PTL DEF ImplementsServerPool, Pool!Spec
<1> QED BY <1>4, ServerPoolTheorem

=============================================================================
