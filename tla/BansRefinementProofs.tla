------------------------ MODULE BansRefinementProofs ------------------------
(***************************************************************************)
(* Bans implements BanRegistry, for every value of the constants.          *)
(*                                                                         *)
(* The registry has one ban for each banned player, with one term.  IInv   *)
(* gives it: the bans that are held are the active ones, and no player has *)
(* two of them.                                                            *)
(***************************************************************************)
EXTENDS BansRefinement, BansProofs

(* What the registry sees is what one ban of each banned player says.      *)
OneEach ==
  /\ Held = Active
  /\ \A i \in Held : i \in Ids /\ BanOf(i) \in Ban /\ rows[i] \in Ban /\ BanOf(i).who = rows[i].who
  /\ \A i, j \in Held : BanOf(i).who = BanOf(j).who => i = j
  /\ \A i \in Held : Terms[BanOf(i).who] = TermOf(BanOf(i))
  /\ \A p \in Players : p \notin Banned => Terms[p] = {}

LEMMA OneEachNow == IInv => OneEach
  <1> SUFFICES ASSUME IInv PROVE OneEach
    OBVIOUS
  <1> USE DEF IInv
  <1>1. Held = Active
    BY DEF Held, HeldIsActive
  <1>2. \A i \in Active : i \in Ids /\ rows[i] \in Ban /\ BanOf(i) \in Ban /\ BanOf(i).who = rows[i].who
    <2>1. CASE up
      BY <2>1 DEF HeldIsActive, Active, TypeOK, BanOf
    <2>2. CASE ~up
      BY <2>2 DEF Active, TypeOK, BanOf
    <2> QED
      BY <2>1, <2>2
  <1>3. \A i, j \in Held : BanOf(i).who = BanOf(j).who => i = j
    BY <1>1, <1>2 DEF OneBanPerPlayer
  <1> HIDE DEF IInv
  <1>4. ASSUME NEW i \in Held
        PROVE  Terms[BanOf(i).who] = TermOf(BanOf(i))
    <2> DEFINE p == BanOf(i).who
    <2>1. p \in Players
      BY <1>1, <1>2 DEF Ban
    <2>2. {j \in Held : BanOf(j).who = p} = {i}
      BY <1>3
    <2>3. {TermOf(BanOf(j)) : j \in {i}} = {TermOf(BanOf(i))}
      OBVIOUS
    <2>4. UNION {TermOf(BanOf(i))} = TermOf(BanOf(i))
      OBVIOUS
    <2> HIDE DEF p
    <2>5. Terms[p] = UNION {TermOf(BanOf(j)) : j \in {j \in Held : BanOf(j).who = p}}
      BY <2>1 DEF Terms
    <2> QED
      BY <2>2, <2>3, <2>4, <2>5 DEF p
  <1>5. ASSUME NEW p \in Players, p \notin Banned
        PROVE  Terms[p] = {}
    <2>1. {j \in Held : BanOf(j).who = p} = {}
      BY <1>5 DEF Banned
    <2>2. UNION {TermOf(BanOf(j)) : j \in {}} = {}
      OBVIOUS
    <2>3. Terms[p] = UNION {TermOf(BanOf(j)) : j \in {j \in Held : BanOf(j).who = p}}
      BY DEF Terms
    <2> QED
      BY <2>1, <2>2, <2>3
  <1> QED
    BY <1>1, <1>2, <1>3, <1>4, <1>5 DEF OneEach

LEMMA OneEachNext == IInv' => OneEach'
  BY OneEachNow, PTL

(* An object is stored as itself, and one that is stored differs by no more*)
(* than a moment in its start.                                             *)
LEMMA StoredAs ==
  ASSUME NEW b \in Ban
  PROVE  /\ b \in AsStored(b)
         /\ \A r \in AsStored(b) :
              /\ r.expired = b.expired /\ r.duration = b.duration
              /\ r.start \in {b.start, b.start + 1}
  <1>1. b = [b EXCEPT !.start = b.start]
    BY DEF Ban
  <1>2. \A t : /\ [b EXCEPT !.start = t].start = t
               /\ [b EXCEPT !.start = t].expired = b.expired
               /\ [b EXCEPT !.start = t].duration = b.duration
    BY DEF Ban
  <1> QED
    BY <1>1, <1>2 DEF AsStored, Rounded

(* Rounding keeps a player out no shorter, and a moment longer at most.    *)
LEMMA StoredTerm ==
  ASSUME NEW b \in Ban, ~b.expired, NEW r \in Ban, r \in AsStored(b)
  PROVE  /\ TermOf(b) \subseteq TermOf(r)
         /\ \A t \in TermOf(r) : t \in TermOf(b) \/ t - 1 \in TermOf(b)
  <1> DEFINE s == b.start
             e == r.start
             d == b.duration
  <1>1. ~r.expired /\ r.duration = d /\ e \in {s, s + 1}
    BY StoredAs
  <1>2. s \in Nat /\ e \in Nat /\ d \in Nat /\ MaxTime \in Nat
    <2>1. s \in 0 .. MaxTime /\ e \in 0 .. MaxTime /\ d \in Durations
      BY DEF Ban
    <2> HIDE DEF s, e, d
    <2>2. MaxTime \in Nat
      BY BoundsAssumption
    <2>3. d \in Nat
      BY <2>1, DurationsAssumption
    <2> QED
      BY <2>1, <2>2, <2>3
  <1>3. /\ TermOf(b) = {t \in 0 .. MaxTime : d = 0 \/ t <= s + d}
        /\ TermOf(r) = {t \in 0 .. MaxTime : d = 0 \/ t <= e + d}
    BY <1>1 DEF TermOf
  <1> HIDE DEF s, e, d
  <1>4. ASSUME NEW t \in 0 .. MaxTime, t <= s + d
        PROVE  t <= e + d
    BY <1>1, <1>2, <1>4
  <1>5. ASSUME NEW t \in 0 .. MaxTime, t <= e + d, ~(t <= s + d)
        PROVE  t - 1 \in 0 .. MaxTime /\ t - 1 <= s + d
    BY <1>1, <1>2, <1>5
  <1> QED
    BY <1>3, <1>4, <1>5

(* A ban keeps a player out at the moments that check_bans goes by.        *)
LEMMA TermIs ==
  ASSUME now \in 0 .. MaxTime, NEW b \in Ban
  PROVE  now \in TermOf(b) <=> ~Over(b)
  <1>1. b.duration \in Durations /\ b.start \in 0 .. MaxTime
    BY DEF Ban
  <1> DEFINE s == b.start
             d == b.duration
  <1>2. d \in Nat
    BY <1>1, DurationsAssumption
  <1>3. s \in 0 .. MaxTime
    BY <1>1
  <1>4. /\ now \in TermOf(b) <=> ~b.expired /\ (d = 0 \/ now <= s + d)
        /\ Over(b) <=> b.expired \/ (d # 0 /\ now > s + d)
    BY DEF TermOf, Over
  <1> HIDE DEF s, d
  <1>5. (now <= s + d) <=> ~(now > s + d)
    BY <1>2, <1>3, BoundsAssumption
  <1> QED
    BY <1>4, <1>5

(* What is held while the daemon is up.                                    *)
LEMMA UpIs ==
  ASSUME IInv, up
  PROVE  /\ Held = bans /\ \A i \in bans : BanOf(i) = mem[i]
         /\ Banned = {mem[i].who : i \in bans}
         /\ \A i \in bans : i \in Ids /\ mem[i] \in Ban /\ rows[i] \in Ban /\ ~rows[i].expired
         /\ \A i, j \in bans : mem[i].who = mem[j].who => i = j
         /\ \A i \in bans : Terms[mem[i].who] = TermOf(mem[i])
  <1>1. Held = bans /\ \A i \in bans : BanOf(i) = mem[i]
    BY DEF Held, BanOf
  <1>2. Banned = {mem[i].who : i \in bans}
    BY <1>1 DEF Banned
  <1>3. \A i \in bans : ~rows[i].expired
    BY DEF IInv, HeldIsActive, Active
  <1> QED
    BY <1>1, <1>2, <1>3, OneEachNow DEF OneEach

(* Whose ban the table tells differently after a step.                     *)
LEMMA UnsureNext == Unsure' = {mem'[i].who : i \in {j \in bans' : rows'[j] \notin AsStored(mem'[j])}}
  <1>1. \A j : AsStored(mem[j])' = AsStored(mem'[j])
    BY DEF AsStored, Rounded
  <1> QED
    BY <1>1 DEF Unsure

(* A crash may change the terms of a ban whose row is behind its object,   *)
(* and who is banned never.  A start changes nothing.                      *)
LEMMA RestartSeen ==
  ASSUME IInv, IInv', Start \/ Crash \/ Tick \/ UNCHANGED vars
  PROVE  [Registry!Next]_(Registry!vars)
  <1>1. OneEach /\ OneEach'
    BY OneEachNow, OneEachNext
  <1>2. Active' = Active /\ Held' = Held
    <2>1. rows' = rows
      BY DEF Start, Crash, Tick, vars
    <2>2. Active' = Active
      BY <2>1 DEF Active
    <2> QED
      BY <1>1, <2>2 DEF OneEach
  <1>3. Banned' = Banned
    <2>1. \A i \in Held : BanOf(i).who = rows[i].who /\ BanOf(i)'.who = rows[i].who
      BY <1>1, <1>2 DEF OneEach, Start, Crash, Tick, vars
    <2> QED
      BY <1>2, <2>1 DEF Banned
  <1>4. CASE Start \/ Tick \/ UNCHANGED vars
    <2>1. \A i \in Held : BanOf(i)' = BanOf(i)
      BY <1>4 DEF Start, Tick, vars, BanOf
    <2>2. Terms' = Terms
      BY <1>2, <2>1 DEF Terms, TermOf
    <2>3. Unsure' = Unsure
      <3>1. CASE Start
        <4>1. Unsure = {}
          BY <3>1 DEF Start, Unsure, IInv
        <4>2. \A i \in bans' : rows'[i] \in AsStored(mem'[i])
          <5>1. bans' = Active /\ mem' = rows /\ rows' = rows
            BY <3>1 DEF Start
          <5>2. \A i \in Active : rows[i] \in Ban
            BY DEF IInv, TypeOK, Active
          <5> QED
            BY <5>1, <5>2, StoredAs
        <4>3. Unsure' = {}
          BY <4>2, UnsureNext
        <4> QED
          BY <4>1, <4>3
      <3>2. CASE Tick \/ UNCHANGED vars
        BY <3>2 DEF Tick, vars, Unsure
      <3> QED
        BY <1>4, <3>1, <3>2
    <2>4. now' = now \/ now' = now + 1
      BY <1>4 DEF Start, Tick, vars
    <2> QED
      BY <1>3, <2>2, <2>3, <2>4 DEF Registry!Next, Registry!vars, Registry!Tick
  <1>5. CASE Crash
    <2>1. up /\ ~up' /\ rows' = rows /\ now' = now /\ Unsure' = {}
      BY <1>5 DEF Crash, Unsure
    <2>2. Terms' \in [Players -> SUBSET (0 .. MaxTime)]
      <3>1. \A i : TermOf(BanOf(i))' \subseteq 0 .. MaxTime
        BY DEF TermOf
      <3> QED
        BY <3>1 DEF Terms
    <2>3. ASSUME NEW p \in Players, p \notin Unsure, p \in Banned
          PROVE  /\ Terms[p] \subseteq Terms'[p]
                 /\ \A t \in Terms'[p] : t \in Terms[p] \/ t - 1 \in Terms[p]
      <3>1. PICK i \in Held : p = BanOf(i).who
        BY <2>3 DEF Banned
      <3>2. i \in bans /\ BanOf(i) = mem[i] /\ BanOf(i)' = rows[i]
        BY <2>1, <3>1 DEF Held, BanOf
      <3>3. rows[i] \in AsStored(mem[i])
        BY <2>3, <3>1, <3>2 DEF Unsure
      <3>4. mem[i] \in Ban /\ rows[i] \in Ban /\ ~rows[i].expired /\ ~mem[i].expired
        BY <2>1, <3>2, <3>3, UpIs, StoredAs
      <3>5. /\ TermOf(mem[i]) \subseteq TermOf(rows[i])
            /\ \A t \in TermOf(rows[i]) : t \in TermOf(mem[i]) \/ t - 1 \in TermOf(mem[i])
        BY <3>3, <3>4, StoredTerm
      <3>6. TermOf(BanOf(i))' = TermOf(rows[i])
        BY <3>2 DEF TermOf
      <3>7. BanOf(i)'.who = p
        BY <1>1, <3>1, <3>2 DEF OneEach
      <3>8. Terms[p] = TermOf(mem[i])
        BY <1>1, <3>1, <3>2 DEF OneEach
      <3>9. Terms'[p] = TermOf(BanOf(i))'
        BY <1>1, <1>2, <3>1, <3>7 DEF OneEach
      <3> QED
        BY <3>5, <3>6, <3>8, <3>9
    <2>4. \A p \in Players : p \notin Banned => Terms'[p] = {} /\ Terms[p] = {}
      BY <1>1, <1>3 DEF OneEach
    <2>5. Registry!Crash
      BY <1>3, <2>1, <2>2, <2>3, <2>4 DEF Registry!Crash
    <2> QED
      BY <2>5 DEF Registry!Next
  <1> QED
    BY <1>4, <1>5

LEMMA UpWillBe ==
  ASSUME IInv', up'
  PROVE  /\ Banned' = {mem'[i].who : i \in bans'}
         /\ \A i, j \in bans' : mem'[i].who = mem'[j].who => i = j
         /\ \A i \in bans' : Terms'[mem'[i].who] = TermOf(mem'[i])
         /\ \A p \in Players : p \notin Banned' => Terms'[p] = {}
  <1>1. Held' = bans' /\ \A i \in bans' : BanOf(i)' = mem'[i]
    BY DEF Held, BanOf
  <1>2. Banned' = {mem'[i].who : i \in bans'}
    BY <1>1 DEF Banned
  <1>3. \A i \in bans' : TermOf(BanOf(i))' = TermOf(mem'[i])
    BY <1>1 DEF TermOf
  <1> QED
    BY <1>1, <1>2, <1>3, OneEachNext DEF OneEach

(* A ban for somebody who has none.                                        *)
LEMMA AddNewSeen ==
  ASSUME IInv, IInv', up, NEW b \in Ban, ~Over(b), AddNew(b), UNCHANGED <<up, now>>
  PROVE  Registry!Ban(b.who, TermOf(b))
  <1>1. PICK i \in FreeIds, r \in AsStored(b) :
          /\ BansOf(b.who) = {}
          /\ rows' = [rows EXCEPT ![i] = r]
          /\ mem' = [mem EXCEPT ![i] = b]
          /\ bans' = bans \cup {i}
    BY DEF AddNew
  <1>2. i \in Ids /\ i \notin bans
    BY NextIdIsFree DEF IInv, HeldIsActive
  <1>3. /\ mem'[i] = b /\ rows'[i] = r
        /\ \A j \in bans : mem'[j] = mem[j] /\ rows'[j] = rows[j]
    BY <1>1, <1>2 DEF IInv, TypeOK
  <1>4. b.who \notin Banned
    BY <1>1, UpIs DEF BansOf
  <1>5. Banned' = Banned \cup {b.who}
    BY <1>1, <1>3, UpIs, UpWillBe
  <1>6. Terms' = [Terms EXCEPT ![b.who] = TermOf(b)]
    <2>1. ASSUME NEW p \in Players
          PROVE  Terms'[p] = IF p = b.who THEN TermOf(b) ELSE Terms[p]
      <3>1. CASE p = b.who
        BY <1>1, <1>3, <3>1, UpWillBe
      <3>2. CASE p # b.who /\ p \in Banned
        <4>1. PICK j \in bans : p = mem[j].who
          BY <3>2, UpIs
        <4> QED
          BY <1>1, <1>3, <3>2, <4>1, UpIs, UpWillBe
      <3>3. CASE p # b.who /\ p \notin Banned
        BY <1>5, <3>3, UpWillBe, OneEachNow DEF OneEach
      <3> QED
        BY <3>1, <3>2, <3>3
    <2> QED
      BY <2>1 DEF Terms
  <1>7. Unsure' = Unsure
    <2>1. {j \in bans' : rows'[j] \notin AsStored(mem'[j])}
            = {j \in bans : rows[j] \notin AsStored(mem[j])}
      BY <1>1, <1>2, <1>3
    <2> QED
      BY <1>3, <2>1, UnsureNext DEF Unsure
  <1>8. now \in TermOf(b)
    BY TermIs DEF IInv, TypeOK
  <1> QED
    BY <1>4, <1>5, <1>6, <1>7, <1>8 DEF Registry!Ban

(* A ban for somebody who has one.                                         *)
LEMMA RenewSeen ==
  ASSUME IInv, IInv', up, NEW b \in Ban, ~Over(b), Renew(b), UNCHANGED <<up, now>>
  PROVE  Registry!Renew(b.who, TermOf(b))
  <1>1. PICK i \in BansOf(b.who), ok \in FlushOutcomes :
          /\ mem' = [mem EXCEPT ![i] = b]
          /\ rows' = IF ok THEN [rows EXCEPT ![i] = UpdatedRow(@, b)] ELSE rows
          /\ bans' = bans
    BY DEF Renew
  <1>2. i \in bans /\ i \in Ids /\ mem[i].who = b.who
    BY UpIs, <1>1 DEF BansOf
  <1>3. mem'[i] = b /\ \A j \in bans \ {i} : mem'[j] = mem[j] /\ rows'[j] = rows[j]
    BY <1>1, <1>2, UpIs DEF IInv, TypeOK
  <1>4. b.who \in Banned /\ Banned' = Banned
    <2>1. \A j \in bans : mem'[j].who = mem[j].who
      BY <1>2, <1>3
    <2>2. {mem'[j].who : j \in bans} = {mem[j].who : j \in bans}
      BY <2>1
    <2>3. Banned' = {mem'[j].who : j \in bans} /\ Banned = {mem[j].who : j \in bans}
      BY <1>1, UpIs, UpWillBe
    <2> QED
      BY <1>2, <2>2, <2>3
  <1>5. Terms' = [Terms EXCEPT ![b.who] = TermOf(b)]
    <2>1. ASSUME NEW p \in Players
          PROVE  Terms'[p] = IF p = b.who THEN TermOf(b) ELSE Terms[p]
      <3>1. CASE p = b.who
        BY <1>1, <1>2, <1>3, <3>1, UpWillBe
      <3>2. CASE p # b.who /\ p \in Banned
        <4>1. PICK j \in bans : p = mem[j].who
          BY <3>2, UpIs
        <4>2. j # i
          BY <1>2, <3>2, <4>1
        <4> QED
          BY <1>1, <1>3, <3>2, <4>1, <4>2, UpIs, UpWillBe
      <3>3. CASE p # b.who /\ p \notin Banned
        BY <1>4, <3>3, UpWillBe, OneEachNow DEF OneEach
      <3> QED
        BY <3>1, <3>2, <3>3
    <2> QED
      BY <2>1 DEF Terms
  <1>6. Unsure' \in {Unsure \cup {b.who}, Unsure \ {b.who}}
    <2> DEFINE U == {j \in bans : rows[j] \notin AsStored(mem[j])}
               V == {j \in bans' : rows'[j] \notin AsStored(mem'[j])}
    <2>1. \A j \in bans \ {i} : mem[j].who # b.who
      BY <1>2, UpIs
    <2>2. V \ {i} = U \ {i} /\ \A j \in V \ {i} : mem'[j].who = mem[j].who
      BY <1>1, <1>3
    <2>3. {mem[j].who : j \in U \ {i}} = Unsure \ {b.who}
      BY <1>2, <2>1 DEF Unsure
    <2>4. {mem'[j].who : j \in V \ {i}} = Unsure \ {b.who}
      BY <2>2, <2>3
    <2>5. Unsure' = {mem'[j].who : j \in V}
      BY UnsureNext
    <2>6. CASE i \in V
      <3>1. Unsure' = (Unsure \ {b.who}) \cup {b.who}
        BY <1>3, <2>4, <2>5, <2>6
      <3> QED
        BY <3>1
    <2>7. CASE i \notin V
      <3>1. V \ {i} = V
        BY <2>7
      <3> QED
        BY <2>4, <2>5, <3>1
    <2> QED
      BY <2>6, <2>7
  <1>7. now \in TermOf(b)
    BY TermIs DEF IInv, TypeOK
  <1> QED
    BY <1>4, <1>5, <1>6, <1>7 DEF Registry!Renew

(* Bans are lifted, and other players stay banned as they were.            *)
LEMMA LiftSeen ==
  ASSUME IInv, IInv', up, NEW D \in SUBSET bans, NEW F \in SUBSET bans, D \cap F = {}, Lift(D, F)
  PROVE  Registry!Lift({mem[i].who : i \in D}, {mem[i].who : i \in F})
  <1> DEFINE P == {mem[i].who : i \in D}
             Q == {mem[i].who : i \in F}
  <1>1. /\ up' /\ now' = now /\ bans' = bans \ D
        /\ \A i \in D \cup F : mem'[i] = [mem[i] EXCEPT !.expired = TRUE]
        /\ \A i \in bans \ (D \cup F) : mem'[i] = mem[i]
        /\ \A i \in bans \ D : rows'[i] = rows[i]
    BY UpIs DEF Lift
  <1>2. \A i \in bans : mem'[i].who = mem[i].who
    <2>1. \A r \in Ban : [r EXCEPT !.expired = TRUE].who = r.who
      BY DEF Ban
    <2>2. ASSUME NEW i \in bans
          PROVE  mem'[i].who = mem[i].who
      <3>1. CASE i \in D \cup F
        BY <1>1, <2>1, <3>1, UpIs
      <3>2. CASE i \notin D \cup F
        BY <1>1, <3>2
      <3> QED
        BY <3>1, <3>2
    <2> QED
      BY <2>2
  <1>3. \A i \in F : mem'[i].expired
    BY <1>1, UpIs DEF Ban
  <1>4. Banned' = Banned \ P
    <2>1. Banned' = {mem'[i].who : i \in bans'} /\ Banned = {mem[i].who : i \in bans}
      BY <1>1, UpIs, UpWillBe
    <2>2. \A i \in bans : mem[i].who \in P => i \in D
      BY UpIs
    <2> QED
      BY <1>1, <1>2, <2>1, <2>2
  <1>5. Terms' = [p \in Players |-> IF p \in P \cup Q THEN {} ELSE Terms[p]]
    <2>1. ASSUME NEW p \in Players
          PROVE  Terms'[p] = IF p \in P \cup Q THEN {} ELSE Terms[p]
      <3>1. CASE p \in P
        BY <1>1, <1>4, <3>1, UpWillBe
      <3>2. CASE p \in Q /\ p \notin P
        <4>1. PICK i \in F : p = mem[i].who
          BY <3>2
        <4>2. Terms'[p] = TermOf(mem'[i])
          BY <1>1, <1>2, <4>1, UpWillBe
        <4>3. TermOf(mem'[i]) = {}
          BY <1>3 DEF TermOf
        <4> QED
          BY <3>2, <4>2, <4>3
      <3>3. CASE p \notin P \cup Q /\ p \in Banned
        <4>1. PICK i \in bans \ (D \cup F) : p = mem[i].who
          BY <3>3, UpIs
        <4>2. Terms'[p] = TermOf(mem'[i]) /\ Terms[p] = TermOf(mem[i])
          BY <1>1, <4>1, UpIs, UpWillBe
        <4> QED
          BY <1>1, <3>3, <4>1, <4>2
      <3>4. CASE p \notin P \cup Q /\ p \notin Banned
        BY <1>1, <1>4, <3>4, UpWillBe, OneEachNow DEF OneEach
      <3> QED
        BY <3>1, <3>2, <3>3, <3>4
    <2> QED
      BY <2>1 DEF Terms
  <1>6. Unsure' = (Unsure \ P) \cup Q
    <2> DEFINE U == {j \in bans : rows[j] \notin AsStored(mem[j])}
               V == {j \in bans' : rows'[j] \notin AsStored(mem'[j])}
    <2>1. \A i \in F : ~rows[i].expired /\ rows'[i] = rows[i] /\ i \in bans'
      BY <1>1, UpIs
    <2>9. \A i \in F : rows'[i] \notin AsStored(mem'[i])
      <3>1. \A i \in F : mem'[i] \in Ban
        BY <1>1, <2>1 DEF IInv, TypeOK, HeldIsActive, Active
      <3> QED
        BY <1>3, <2>1, <3>1, StoredAs
    <2>2. V = (U \ D) \cup F
      BY <1>1, <2>1, <2>9
    <2>3. \A i \in bans : mem[i].who \in P <=> i \in D
      BY UpIs
    <2>4. Unsure = {mem[j].who : j \in U} /\ Unsure' = {mem'[j].who : j \in V}
      BY UnsureNext DEF Unsure
    <2>5. U \subseteq bans
      OBVIOUS
    <2> HIDE DEF U, V
    <2>6. {mem'[j].who : j \in (U \ D) \cup F} = {mem[j].who : j \in (U \ D) \cup F}
      BY <1>2, <2>5
    <2>7. {mem[j].who : j \in (U \ D) \cup F} = {mem[j].who : j \in U \ D} \cup Q
      OBVIOUS
    <2>8. {mem[j].who : j \in U \ D} = {mem[j].who : j \in U} \ P
      BY <2>3, <2>5
    <2> QED
      BY <2>2, <2>4, <2>6, <2>7, <2>8
  <1> QED
    BY <1>1, <1>4, <1>5, <1>6 DEF Registry!Lift

(* What check_bans lifts is over.                                          *)
LEMMA LapsedSeen ==
  ASSUME IInv, up, NEW D \in SUBSET Lapsed
  PROVE  {mem[i].who : i \in D} \in SUBSET {p \in Banned : now \notin Terms[p]}
  <1> SUFFICES ASSUME NEW i \in D
               PROVE  mem[i].who \in Banned /\ now \notin Terms[mem[i].who]
    OBVIOUS
  <1>1. i \in bans /\ Over(mem[i]) /\ mem[i] \in Ban /\ Terms[mem[i].who] = TermOf(mem[i])
    BY UpIs DEF Lapsed
  <1>2. now \notin TermOf(mem[i])
    BY <1>1, TermIs DEF IInv, TypeOK
  <1> QED
    BY <1>1, <1>2, UpIs

-----------------------------------------------------------------------------
(* Nobody is banned at first.                                              *)
LEMMA InitRegistry ==
  ASSUME Init
  PROVE  Registry!Init
  <1>1. Held = {}
    BY DEF Init, Held, Active
  <1>2. UNION {TermOf(BanOf(i)) : i \in {}} = {}
    OBVIOUS
  <1>3. Terms = [p \in Players |-> {}]
    BY <1>1, <1>2 DEF Terms
  <1> QED
    BY <1>1, <1>3 DEF Init, Registry!Init, Banned, Unsure

(* Every step of the ban manager is one of the registry, or unseen by it.  *)
LEMMA StepRegistry ==
  ASSUME IInv, IInv', [Next]_vars
  PROVE  [Registry!Next]_(Registry!vars)
  <1>1. CASE Start \/ Crash \/ Tick \/ UNCHANGED vars
    BY <1>1, RestartSeen
  <1>2. ASSUME NEW p \in Players, NEW d \in Durations, AddBan(p, d)
        PROVE  Registry!Next
    <2> DEFINE b == [who |-> p, start |-> now, duration |-> d, expired |-> FALSE]
    <2>1. /\ b \in Ban /\ b.who = p /\ up /\ UNCHANGED <<up, now>>
          /\ AddNew(b) \/ Renew(b)
      BY <1>2, NewBanType DEF AddBan
    <2>2. ~Over(b)
      <3>1. now \in Int /\ d \in Nat
        BY DurationsAssumption, BoundsAssumption DEF IInv, TypeOK
      <3> QED
        BY <3>1 DEF Over
    <2>3. TermOf(b) \in SUBSET (0 .. MaxTime)
      BY DEF TermOf
    <2> HIDE DEF b
    <2>4. Registry!Ban(p, TermOf(b)) \/ Registry!Renew(p, TermOf(b))
      BY <2>1, <2>2, AddNewSeen, RenewSeen
    <2> QED
      BY <2>3, <2>4 DEF Registry!Next
  <1>3. ASSUME NEW p \in Players, RemoveBan(p)
        PROVE  Registry!Next
    <2>1. PICK i \in BansOf(p), ok \in FlushOutcomes : IF ok THEN Lift({i}, {}) ELSE Lift({}, {i})
      BY <1>3 DEF RemoveBan
    <2>2. up /\ i \in bans /\ mem[i].who = p /\ p \in Banned
      BY <1>3, UpIs DEF BansOf, RemoveBan
    <2>3. {mem[j].who : j \in {i}} = {p} /\ {mem[j].who : j \in {}} = {}
      BY <2>2
    <2>4. Registry!Lift({p}, {}) \/ Registry!Lift({}, {p})
      <3>1. {i} \in SUBSET bans /\ {} \in SUBSET bans
        BY <2>2
      <3>2. CASE Lift({i}, {})
        <4>1. Registry!Lift({mem[j].who : j \in {i}}, {mem[j].who : j \in {}})
          BY <2>2, <3>1, <3>2, LiftSeen
        <4> QED
          BY <2>3, <4>1
      <3>3. CASE Lift({}, {i})
        <4>1. Registry!Lift({mem[j].who : j \in {}}, {mem[j].who : j \in {i}})
          BY <2>2, <3>1, <3>3, LiftSeen
        <4> QED
          BY <2>3, <4>1
      <3> QED
        BY <2>1, <3>2, <3>3
    <2> QED
      BY <2>2, <2>4 DEF Registry!Next, Registry!Unban
  <1>4. ASSUME CheckAll \/ CheckSome
        PROVE  Registry!Next
    <2>1. up
      BY <1>4 DEF CheckAll, CheckSome
    <2>2. PICK D \in SUBSET Lapsed, F \in SUBSET Lapsed : D \cap F = {} /\ Lift(D, F)
      <3>1. CASE CheckAll
        BY <3>1 DEF CheckAll
      <3>2. CASE CheckSome
        <4>1. PICK i \in Lapsed : \E D \in SUBSET (Lapsed \ {i}) : Lift(D, {i})
          BY <3>2 DEF CheckSome
        <4>2. PICK D \in SUBSET (Lapsed \ {i}) : Lift(D, {i})
          BY <4>1
        <4>3. D \in SUBSET Lapsed /\ {i} \in SUBSET Lapsed /\ D \cap {i} = {}
          BY <4>1
        <4> QED
          BY <4>2, <4>3
      <3> QED
        BY <1>4, <3>1, <3>2
    <2>3. D \in SUBSET bans /\ F \in SUBSET bans
      BY <2>2 DEF Lapsed
    <2>4. Registry!Lift({mem[i].who : i \in D}, {mem[i].who : i \in F})
      BY <2>1, <2>2, <2>3, LiftSeen
    <2>5. /\ {mem[i].who : i \in D} \in SUBSET {p \in Banned : now \notin Terms[p]}
          /\ {mem[i].who : i \in F} \in SUBSET {p \in Banned : now \notin Terms[p]}
      BY <2>1, LapsedSeen
    <2> QED
      BY <2>4, <2>5 DEF Registry!Next, Registry!CheckBans
  <1> QED
    BY <1>1, <1>2, <1>3, <1>4 DEF Next

(* For any number of players, failing flushes, crashes and restarts: who is*)
(* banned is kept out to the end of his term unless somebody lifted the    *)
(* ban; and no crash cuts short a ban whose row is not behind its object.  *)
THEOREM RegistryTheorem == Spec => ImplementsBanRegistry
  <1>1. IInv /\ IInv' /\ [Next]_vars => [Registry!Next]_(Registry!vars)
    BY StepRegistry
  <1> QED
    BY <1>1, InitRegistry, BansInvariance, PTL DEF Spec, ImplementsBanRegistry, Registry!Spec

=============================================================================
