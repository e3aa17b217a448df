----------------------------- MODULE BansProofs -----------------------------
(***************************************************************************)
(* Theorems about Bans, for every set of players and durations and every   *)
(* bound.  While the daemon is down it holds nothing, and the active rows  *)
(* must already be unique per player for the next start to be sound: with  *)
(* that the run's invariants are inductive together.                       *)
(***************************************************************************)
EXTENDS Bans, TLAPS

IInv ==
  /\ TypeOK
  /\ ~up => bans = {}
  /\ HeldIsActive
  /\ OneBanPerPlayer
  /\ FlushedBansAgree

(* Nothing is held or stored at first.                                     *)
LEMMA InitHolds == Init => IInv
  <1> SUFFICES ASSUME Init PROVE IInv
    OBVIOUS
  <1> USE DEF Init
  <1>1. TypeOK
    <2>1. mem \in [Ids -> Ban \cup {NoBan}] /\ rows \in [Ids -> Ban \cup {NoBan}]
      OBVIOUS
    <2>2. now \in 0 .. MaxTime
      BY BoundsAssumption
    <2> QED
      BY <2>1, <2>2 DEF TypeOK
  <1>2. Active = {}
    BY DEF Active, Ids
  <1> QED
    BY <1>1, <1>2 DEF IInv, HeldIsActive, OneBanPerPlayer, FlushedBansAgree

(* The next id is a free one.                                              *)
LEMMA NextIdIsFree ==
  ASSUME NEW i \in FreeIds
  PROVE  i \in Ids /\ rows[i] = NoBan /\ i \notin Active
  BY DEF FreeIds, Active

(* A start reads back exactly the active rows.                             *)
LEMMA StartHolds == IInv /\ Start => IInv'
  <1> SUFFICES ASSUME IInv, Start PROVE IInv'
    OBVIOUS
  <1> USE DEF IInv, Start
  <1>1. Active' = Active /\ Active \subseteq Ids
    BY DEF Active
  <1>2. TypeOK'
    BY <1>1 DEF TypeOK, Active
  <1>3. HeldIsActive' /\ OneBanPerPlayer' /\ FlushedBansAgree'
    BY <1>1 DEF HeldIsActive, OneBanPerPlayer, FlushedBansAgree
  <1> QED
    BY <1>2, <1>3

(* A crash leaves the table, and nothing held.                             *)
LEMMA CrashHolds == IInv /\ Crash => IInv'
  <1> SUFFICES ASSUME IInv, Crash PROVE IInv'
    OBVIOUS
  <1> USE DEF IInv, Crash
  <1>1. Active' = Active
    BY DEF Active
  <1>2. TypeOK'
    BY DEF TypeOK
  <1> QED
    BY <1>1, <1>2 DEF HeldIsActive, OneBanPerPlayer, FlushedBansAgree

(* A ban is stored as it is, but for its start.                            *)
LEMMA StoredBan ==
  ASSUME NEW b \in Ban, b.start < MaxTime, NEW r \in AsStored(b)
  PROVE  r \in Ban /\ r.who = b.who /\ r.duration = b.duration /\ r.expired = b.expired
  <1>1. PICK t \in Rounded(b.start) : r = [b EXCEPT !.start = t]
    BY DEF AsStored
  <1>2. b.start \in 0 .. MaxTime
    BY DEF Ban
  <1>3. t \in 0 .. MaxTime
    BY <1>2, BoundsAssumption DEF Rounded
  <1> QED
    BY <1>1, <1>3 DEF Ban

(* A new ban goes into a free row of a player who holds none.              *)
LEMMA AddNewHolds ==
  ASSUME IInv, up, NEW b \in Ban, ~b.expired, b.start < MaxTime,
         AddNew(b), UNCHANGED <<up, now>>
  PROVE  IInv'
  <1> USE DEF IInv
  <1>1. PICK i \in FreeIds, r \in AsStored(b) :
          /\ BansOf(b.who) = {}
          /\ rows' = [rows EXCEPT ![i] = r]
          /\ mem' = [mem EXCEPT ![i] = b]
          /\ bans' = bans \cup {i}
          /\ dirty' = dirty
    BY DEF AddNew
  <1>0. r \in Ban /\ r.who = b.who /\ r.duration = b.duration /\ r.expired = b.expired
    BY StoredBan
  <1>2. i \in Ids /\ rows[i] = NoBan /\ i \notin Active
    BY NextIdIsFree
  <1>3. TypeOK'
    BY <1>0, <1>1, <1>2, NoBanAssumption DEF TypeOK
  <1>4. Active' = Active \cup {i}
    BY <1>0, <1>1, <1>2, NoBanAssumption DEF Active, TypeOK
  <1>5. HeldIsActive'
    BY <1>0, <1>1, <1>2, <1>4 DEF HeldIsActive, TypeOK
  <1>6. \A j \in bans : mem[j].who # b.who /\ j # i
    BY <1>1, <1>2 DEF BansOf, HeldIsActive
  <1>7. \A j \in bans : mem'[j] = mem[j] /\ rows'[j] = rows[j]
    BY <1>1, <1>2, <1>6 DEF TypeOK
  <1>8. mem'[i] = b /\ rows'[i] = r
    BY <1>1, <1>2 DEF TypeOK
  <1>9. OneBanPerPlayer'
    BY <1>0, <1>1, <1>4, <1>6, <1>7, <1>8 DEF OneBanPerPlayer, HeldIsActive
  <1>10. FlushedBansAgree'
    BY <1>0, <1>1, <1>7, <1>8 DEF FlushedBansAgree
  <1> QED
    BY <1>3, <1>5, <1>9, <1>10

(* A renewed ban stays the only one of its player and stays active.        *)
LEMMA RenewHolds ==
  ASSUME IInv, up, NEW b \in Ban, ~b.expired, Renew(b), UNCHANGED <<up, now>>
  PROVE  IInv'
  <1> USE DEF IInv
  <1>1. PICK i \in BansOf(b.who), ok \in FlushOutcomes :
          /\ mem' = [mem EXCEPT ![i] = b]
          /\ rows' = IF ok THEN [rows EXCEPT ![i] = UpdatedRow(@, b)] ELSE rows
          /\ dirty' = IF ok THEN dirty \ {i} ELSE dirty \cup {i}
          /\ bans' = bans
    BY DEF Renew
  <1>2. i \in bans /\ i \in Ids /\ i \in Active /\ mem[i].who = b.who
        /\ rows[i] \in Ban /\ rows[i].who = b.who /\ ok \in BOOLEAN
    BY FlushAssumption, <1>1 DEF BansOf, HeldIsActive, Active, TypeOK
  <1>3. /\ UpdatedRow(rows[i], b) \in Ban
        /\ UpdatedRow(rows[i], b).who = b.who
        /\ UpdatedRow(rows[i], b).duration = b.duration
        /\ UpdatedRow(rows[i], b).expired = b.expired
    BY <1>2 DEF UpdatedRow, Ban
  <1>4. mem'[i] = b /\ \A j \in Ids \ {i} : mem'[j] = mem[j] /\ rows'[j] = rows[j]
    BY <1>1, <1>2 DEF TypeOK
  <1>5. rows'[i] \in Ban /\ rows'[i].who = b.who /\ ~rows'[i].expired
    BY <1>1, <1>2, <1>3 DEF TypeOK, Active
  <1>6. TypeOK'
    BY <1>1, <1>2, <1>3, NoBanAssumption DEF TypeOK
  <1>7. Active' = Active
    BY <1>2, <1>4, <1>5, NoBanAssumption DEF Active
  <1>8. \A j \in bans : j \in Ids /\ mem'[j].who = mem[j].who /\ rows'[j].who = rows[j].who
    BY <1>2, <1>4, <1>5 DEF TypeOK
  <1>9. HeldIsActive' /\ OneBanPerPlayer'
    BY <1>1, <1>7, <1>8 DEF HeldIsActive, OneBanPerPlayer
  <1>10. \A j \in bans' \ dirty' : j # i => j \in bans \ dirty /\ j \in Ids
    BY <1>1, <1>2 DEF TypeOK
  <1>11. ok => rows'[i].duration = b.duration /\ rows'[i].expired = b.expired
    BY <1>1, <1>2, <1>3 DEF TypeOK
  <1>12. i \in bans' \ dirty' => ok
    BY <1>1
  <1>13. FlushedBansAgree'
    BY <1>4, <1>10, <1>11, <1>12 DEF FlushedBansAgree
  <1> QED
    BY <1>1, <1>6, <1>9, <1>13

(* Lifting bans takes the ones that were flushed out of both places.       *)
LEMMA LiftHolds ==
  ASSUME IInv, up, NEW D \in SUBSET bans, NEW F \in SUBSET bans, D \cap F = {}, Lift(D, F)
  PROVE  IInv'
  <1> USE DEF IInv, Lift
  <1>1. bans \subseteq Ids /\ \A i \in bans : mem[i] \in Ban /\ rows[i] \in Ban
    BY DEF TypeOK, HeldIsActive, Active
  <1>2. /\ \A i \in D \cup F : mem'[i] = [mem[i] EXCEPT !.expired = TRUE]
        /\ \A i \in Ids \ (D \cup F) : mem'[i] = mem[i]
    BY <1>1
  <1>3. \A i \in D \cup F : mem'[i] \in Ban /\ mem'[i].expired /\ mem'[i].who = mem[i].who
    BY <1>1, <1>2 DEF Ban
  <1>4. /\ \A i \in D : rows'[i] = UpdatedRow(rows[i], mem'[i])
        /\ \A i \in Ids \ D : rows'[i] = rows[i]
    BY <1>1
  <1>5. \A i \in D : rows'[i] \in Ban /\ rows'[i].expired
    <2>1. SUFFICES ASSUME NEW i \in D
                   PROVE  rows'[i] \in Ban /\ rows'[i].expired
      OBVIOUS
    <2>2. rows[i] \in Ban /\ mem'[i] \in Ban /\ mem'[i].expired = TRUE
      BY <1>1, <1>3 DEF Ban
    <2> DEFINE r == rows[i]
               b == mem'[i]
    <2>3. rows'[i] = UpdatedRow(r, b)
      BY <1>4
    <2> HIDE DEF r, b
    <2>4. UpdatedRow(r, b) \in Ban /\ UpdatedRow(r, b).expired = b.expired
      <3>1. r \in Ban /\ b \in Ban
        BY <2>2 DEF r, b
      <3> QED
        BY <3>1 DEF UpdatedRow, Ban
    <2> QED
      BY <2>2, <2>3, <2>4 DEF b
  <1>6. mem' \in [Ids -> Ban \cup {NoBan}]
    <2>1. \A i \in Ids : mem'[i] \in Ban \cup {NoBan}
      BY <1>2, <1>3 DEF TypeOK
    <2> QED
      BY <2>1
  <1>7. rows' \in [Ids -> Ban \cup {NoBan}]
    <2>1. \A i \in Ids : rows'[i] \in Ban \cup {NoBan}
      BY <1>4, <1>5 DEF TypeOK
    <2> QED
      BY <2>1
  <1>8. TypeOK'
    BY <1>1, <1>2, <1>3, <1>6, <1>7, NoBanAssumption DEF TypeOK
  <1>9. Active' = Active \ D
    BY <1>1, <1>4, <1>5, NoBanAssumption DEF Active
  <1>10. up' = up /\ bans' = bans \ D
    OBVIOUS
  <1>11. \A i \in bans' : i \in bans /\ mem'[i].who = mem[i].who /\ rows'[i] = rows[i]
    BY <1>1, <1>2, <1>3, <1>4
  <1> HIDE DEF Lift
  <1>12. HeldIsActive'
    BY <1>9, <1>11, <1>10 DEF HeldIsActive
  <1>13. \A i \in Active' : rows'[i] = rows[i] /\ i \in Active
    BY <1>4, <1>9 DEF Active
  <1>14. OneBanPerPlayer'
    <2>1. OneBanPerPlayer
      OBVIOUS
    <2> HIDE DEF IInv
    <2>2. ASSUME NEW i \in bans', NEW j \in bans', mem'[i].who = mem'[j].who
          PROVE  i = j
      BY <1>11, <2>1, <2>2 DEF OneBanPerPlayer
    <2>3. ASSUME NEW i \in Active', NEW j \in Active', rows'[i].who = rows'[j].who
          PROVE  i = j
      BY <1>13, <2>1, <2>3 DEF OneBanPerPlayer
    <2> QED
      BY <2>2, <2>3 DEF OneBanPerPlayer
  <1>15. FlushedBansAgree'
    BY <1>1, <1>2, <1>4 DEF FlushedBansAgree, Lift
  <1> QED
    BY <1>8, <1>12, <1>14, <1>15 DEF Lift

(* Every step that lifts bans is a Lift of held bans, at most one failing. *)
LEMMA LiftingSteps ==
  ASSUME IInv, (\E p \in Players : RemoveBan(p)) \/ CheckAll \/ CheckSome
  PROVE  \E D, F \in SUBSET bans : up /\ D \cap F = {} /\ Lift(D, F)
  <1>1. ASSUME NEW p \in Players, RemoveBan(p)
        PROVE  \E D, F \in SUBSET bans : up /\ D \cap F = {} /\ Lift(D, F)
    <2>1. PICK i \in BansOf(p), ok \in FlushOutcomes : IF ok THEN Lift({i}, {}) ELSE Lift({}, {i})
      BY <1>1 DEF RemoveBan
    <2>2. {i} \in SUBSET bans /\ {} \in SUBSET bans /\ ok \in BOOLEAN /\ up
      BY <1>1, <2>1, FlushAssumption DEF BansOf, RemoveBan
    <2>3. CASE ok
      BY <2>1, <2>2, <2>3
    <2>4. CASE ~ok
      BY <2>1, <2>2, <2>4
    <2> QED
      BY <2>2, <2>3, <2>4
  <1>2. ASSUME CheckAll
        PROVE  \E D, F \in SUBSET bans : up /\ D \cap F = {} /\ Lift(D, F)
    <2>1. Lapsed \in SUBSET bans /\ {} \in SUBSET bans /\ Lapsed \cap {} = {}
      BY DEF Lapsed
    <2> QED
      BY <1>2, <2>1 DEF CheckAll
  <1>3. ASSUME CheckSome
        PROVE  \E D, F \in SUBSET bans : up /\ D \cap F = {} /\ Lift(D, F)
    <2>1. PICK i \in Lapsed : \E D \in SUBSET (Lapsed \ {i}) : Lift(D, {i})
      BY <1>3 DEF CheckSome
    <2>3. PICK D \in SUBSET (Lapsed \ {i}) : Lift(D, {i})
      BY <2>1
    <2>2. D \in SUBSET bans /\ {i} \in SUBSET bans /\ D \cap {i} = {} /\ up
      BY <1>3, <2>1 DEF Lapsed, CheckSome
    <2> QED
      BY <2>2, <2>3
  <1> QED
    BY <1>1, <1>2, <1>3

(* The ban add_ban makes of its data is a ban.                             *)
LEMMA NewBanType ==
  ASSUME IInv, NEW p \in Players, NEW d \in Durations
  PROVE  [who |-> p, start |-> now, duration |-> d, expired |-> FALSE] \in Ban
  BY DEF IInv, TypeOK, Ban

(* add_ban inserts or renews.                                              *)
LEMMA AddBanHolds ==
  ASSUME IInv, NEW p \in Players, NEW d \in Durations, AddBan(p, d)
  PROVE  IInv'
  <1> DEFINE b == [who |-> p, start |-> now, duration |-> d, expired |-> FALSE]
  <1>1. b \in Ban /\ ~b.expired /\ b.start = now
    BY NewBanType
  <1>5. now < MaxTime
    BY DurationsAssumption, BoundsAssumption DEF AddBan, IInv, TypeOK
  <1>2. up /\ (AddNew(b) \/ Renew(b)) /\ UNCHANGED <<up, now>>
    BY DEF AddBan
  <1> HIDE DEF b
  <1>3. CASE AddNew(b)
    BY <1>1, <1>2, <1>3, <1>5, AddNewHolds
  <1>4. CASE Renew(b)
    BY <1>1, <1>2, <1>4, RenewHolds
  <1> QED
    BY <1>2, <1>3, <1>4

(* The passing of time alone lifts nothing.                                *)
LEMMA TickHolds == IInv /\ Tick => IInv'
  <1> SUFFICES ASSUME IInv, Tick PROVE IInv'
    OBVIOUS
  <1> USE DEF IInv, Tick
  <1>1. TypeOK'
    BY BoundsAssumption DEF TypeOK
  <1>2. Active' = Active
    BY DEF Active
  <1> QED
    BY <1>1, <1>2 DEF HeldIsActive, OneBanPerPlayer, FlushedBansAgree

(* A step that changes nothing.                                            *)
LEMMA StutterHolds == IInv /\ UNCHANGED vars => IInv'
  BY DEF IInv, vars, TypeOK, Active, HeldIsActive, OneBanPerPlayer, FlushedBansAgree

(* Every step, action by action.                                           *)
LEMMA NextHolds == IInv /\ [Next]_vars => IInv'
  <1> SUFFICES ASSUME IInv, [Next]_vars PROVE IInv'
    OBVIOUS
  <1>1. CASE (\E p \in Players : RemoveBan(p)) \/ CheckAll \/ CheckSome
    <2>1. PICK D \in SUBSET bans, F \in SUBSET bans : up /\ D \cap F = {} /\ Lift(D, F)
      BY <1>1, LiftingSteps
    <2> QED
      BY <2>1, LiftHolds
  <1>2. CASE \E p \in Players, d \in Durations : AddBan(p, d)
    BY <1>2, AddBanHolds
  <1>3. CASE Start
    BY <1>3, StartHolds
  <1>4. CASE Crash
    BY <1>4, CrashHolds
  <1>5. CASE Tick
    BY <1>5, TickHolds
  <1>6. CASE UNCHANGED vars
    BY <1>6, StutterHolds
  <1> QED
    BY <1>1, <1>2, <1>3, <1>4, <1>5, <1>6 DEF Next

(* The inductive invariant holds in every state of every behaviour of the  *)
(* ban manager and its table.                                              *)
THEOREM BansInvariance == Spec => []IInv
  BY InitHolds, NextHolds, PTL DEF Spec

(* Held and stored bans keep their types through failures and restarts.    *)
THEOREM BansTypeCorrect == Spec => []TypeOK
  <1>1. IInv => TypeOK
    BY DEF IInv
  <1> QED
    BY <1>1, BansInvariance, PTL

(* The manager enforces exactly the bans the table has as active, for any  *)
(* number of players, failing flushes and restarts.                        *)
THEOREM HeldIsActiveTheorem == Spec => []HeldIsActive
  <1>1. IInv => HeldIsActive
    BY DEF IInv
  <1> QED
    BY <1>1, BansInvariance, PTL

(* No player ever has two bans, so removing one lifts it.                  *)
THEOREM OneBanTheorem == Spec => []OneBanPerPlayer
  <1>1. IInv => OneBanPerPlayer
    BY DEF IInv
  <1> QED
    BY <1>1, BansInvariance, PTL

(* A ban whose last flush went through has its duration and expiry stored. *)
THEOREM FlushedTheorem == Spec => []FlushedBansAgree
  <1>1. IInv => FlushedBansAgree
    BY DEF IInv
  <1> QED
    BY <1>1, BansInvariance, PTL

(* Only rows of held bans are written, and held bans are active ones.      *)
LEMMA LiftedStep ==
  ASSUME IInv, [Next]_vars, NEW i \in Ids, rows[i] # NoBan, rows[i].expired
  PROVE  rows'[i] = rows[i]
  <1>1. rows \in [Ids -> Ban \cup {NoBan}] /\ i \notin bans /\ i \notin FreeIds
    BY DEF IInv, TypeOK, HeldIsActive, Active, FreeIds
  <1>2. CASE (\E p \in Players : RemoveBan(p)) \/ CheckAll \/ CheckSome
    <2>1. PICK D \in SUBSET bans, F \in SUBSET bans : Lift(D, F)
      BY <1>2, LiftingSteps
    <2> QED
      BY <1>1, <2>1 DEF Lift
  <1>3. ASSUME NEW p \in Players, NEW d \in Durations, AddBan(p, d)
        PROVE  rows'[i] = rows[i]
    <2> DEFINE b == [who |-> p, start |-> now, duration |-> d, expired |-> FALSE]
    <2>1. AddNew(b) \/ Renew(b)
      BY <1>3 DEF AddBan
    <2> HIDE DEF b
    <2>2. CASE AddNew(b)
      BY <1>1, <2>2 DEF AddNew
    <2>3. CASE Renew(b)
      BY <1>1, <2>3 DEF Renew, BansOf
    <2> QED
      BY <2>1, <2>2, <2>3
  <1>4. CASE Start \/ Crash \/ Tick \/ UNCHANGED vars
    BY <1>4 DEF Start, Crash, Tick, vars
  <1> QED
    BY <1>2, <1>3, <1>4 DEF Next

(* A ban that was lifted stays in the history as it was: no later ban,     *)
(* failure or restart puts it in force again.                              *)
THEOREM LiftedTheorem == Spec => LiftedStaysLifted
  <1>1. IInv /\ [Next]_vars
          => [\A i \in Ids : (rows[i] # NoBan /\ rows[i].expired) => rows'[i] = rows[i]]_vars
    BY LiftedStep
  <1> QED
    BY <1>1, BansInvariance, PTL DEF Spec, LiftedStaysLifted

=============================================================================
