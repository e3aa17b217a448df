------------------------ MODULE PugRefinementProofs ------------------------
(***************************************************************************)
(* Pug implements PugLifecycle, for every set of players and maps, every   *)
(* size and whatever raises.  The lifecycle sees two fields of the         *)
(* object, so each method is first reduced to what it does to them; what is*)
(* possible from there needs the invariant Good.                           *)
(***************************************************************************)
EXTENDS PugRefinement, PugProofs

USE DEF GATHERING_PLAYERS, MAP_VOTING, MAPVOTE_COMPLETED, TEAMS_SHUFFLED,
        GAME_STARTED, REPLACEMENT_REQUIRED, GAME_OVER

(* The object h goes on from g as a lifecycle may: it stays as it was, is  *)
(* given up by a player, ...                                               *)
Stays(g, h) == Phase(h) = Phase(g) /\ (h.state = 5 <=> g.state = 5)
Waits(g, h) == Phase(h) = Phase(g) /\ h.state = 5 /\ Phase(g) # 0

(* ... or moves on.                                                        *)
Moves(g, h) ==
  \/ Stays(g, h)
  \/ Waits(g, h)
  \/ Phase(h) = Phase(g) /\ h.state # 5
  \/ Phase(g) = 0 /\ Phase(h) \in {1, 2} /\ h.state # 5
  \/ Phase(g) \in {1, 2} /\ g.state # 5 /\ Phase(h) = 3
  \/ Phase(g) < 4 /\ Phase(h) = 4 /\ h.state # 5
  \/ Phase(h) = 6 /\ h.state # 5

(* What a step of Pug is for the lifecycle.                                *)
Seen ==
  \/ ~listed /\ listed' /\ Phase(pug') = 0 /\ pug'.state # 5
  \/ listed /\ ~listed'
  \/ ~listed /\ ~listed'
  \/ listed /\ listed' /\ Moves(pug, pug')

(* The state of a good object, and its phase.                              *)
LEMMA PhaseOfGood ==
  ASSUME NEW g, NEW e, Good(g, e)
  PROVE  /\ g.state \in States
         /\ g.state # 5 => Phase(g) = g.state
         /\ g.state = 5 => Phase(g) \in {1, 2, 3, 4, 6} /\ Phase(g) = g.prev
         /\ Phase(g) \in {0, 1, 2, 3, 4, 6}
  BY DEF Good, RosterMatches, PugType, Phase, States

-----------------------------------------------------------------------------
(* Those who leave, or are taken out, leave a pug that waits unless it was *)
(* gathering, or nobody left at all.                                       *)
LEMMA RemovePlayersMoves ==
  ASSUME NEW g \in PugType, NEW D \in SUBSET Players, NEW a \in NextAdmins(g, D),
         NEW e \in BOOLEAN, Good(g, e)
  PROVE  LET h == RemovePlayers(g, D, a)
         IN  Stays(g, h) \/ Waits(g, h)
  <1>0. a \in Players \cup {NoPlayer} /\ g.state \in States
    BY DEF PugType, NextAdmins
  <1>1. CASE ~(g.state > 0 /\ D \cap g.players # {})
    <2>1. RemovePlayers(g, D, a) = Unseat(g, D, a)
      BY <1>1 DEF RemovePlayers
    <2>2. Unseat(g, D, a).state = g.state /\ Unseat(g, D, a).prev = g.prev
      BY DEF Unseat, PugType
    <2> QED
      BY <2>1, <2>2 DEF Stays, Phase
  <1>2. CASE g.state > 0 /\ D \cap g.players # {}
    <2> DEFINE w == AwaitReplacement(g)
               o == TakeOffTeams(w, D)
               h == Unseat(o, D, a)
    <2>1. RemovePlayers(g, D, a) = h
      BY <1>2 DEF RemovePlayers
    <2>2. w \in PugType /\ w.state = 5 /\ w.prev = IF g.state = 5 THEN g.prev ELSE g.state
      BY AwaitReplacementFields
    <2> HIDE DEF w
    <2>3. o \in PugType /\ o.state = 5 /\ o.prev = w.prev
      BY <2>2, TakeOffTeamsFields
    <2> HIDE DEF o
    <2>4. h.state = 5 /\ h.prev = o.prev
      BY <2>3 DEF Unseat, PugType
    <2> HIDE DEF h
    <2>5. Phase(h) = Phase(g)
      BY <2>2, <2>3, <2>4 DEF Phase
    <2>6. Phase(g) # 0
      BY <1>0, <1>2, PhaseOfGood DEF States
    <2> QED
      BY <2>1, <2>4, <2>5, <2>6 DEF Waits
  <1> QED
    BY <1>1, <1>2

(* ... or is over.                                                         *)
Overs(h) == Phase(h) = 6 /\ h.state # 5

(* A pug that ends is gone, stays in the state it was in, or is over.      *)
LEMMA EndPugMoves ==
  ASSUME NEW g \in PugType, EndPug(g)
  PROVE  ~listed' \/ (listed' /\ (Stays(g, pug') \/ Overs(pug')))
  <1>1. CASE pug' = Released(g) /\ listed' = TRUE
    BY <1>1 DEF Released, Stays, Phase, PugType
  <1>2. CASE pug' = Abandoned(g) /\ listed' = TRUE
    <2>1. Abandoned(g).state = 6
      BY DEF Abandoned, PugType
    <2> QED
      BY <1>2, <2>1 DEF Overs, Phase
  <1> QED
    BY <1>1, <1>2 DEF EndPug

(* check_disconnects, from a good object.                                  *)
LEMMA CheckDisconnectsMoves ==
  ASSUME NEW g \in PugType, early \in BOOLEAN, listed, Good(g, early), CheckDisconnects(g)
  PROVE  ~listed' \/ (listed' /\ (Stays(g, pug') \/ Waits(g, pug') \/ Overs(pug')))
  <1>1. PICK late \in LateEntries(g) :
          LET D == {p \in Players : late[p] > 0}
          IN  \E a \in NextAdmins(g, D) :
                LET h == [RemovePlayers(g, D, a) EXCEPT
                            !.disc = [p \in Players |-> g.disc[p] - late[p]]]
                IN  IF h.players = {} /\ \E p \in Players : g.disc[p] > 0
                    THEN EndPug(h)
                    ELSE pug' = h /\ UNCHANGED <<listed, early>>
    BY DEF CheckDisconnects
  <1> DEFINE D == {p \in Players : late[p] > 0}
             disc == [p \in Players |-> g.disc[p] - late[p]]
  <1>2. PICK a \in NextAdmins(g, D) :
          LET h == [RemovePlayers(g, D, a) EXCEPT !.disc = disc]
          IN  IF h.players = {} /\ \E p \in Players : g.disc[p] > 0
              THEN EndPug(h)
              ELSE pug' = h /\ UNCHANGED <<listed, early>>
    BY <1>1
  <1>3. disc \in [Players -> Nat]
    BY DEF LateEntries, PugType
  <1>4. D \in SUBSET Players
    OBVIOUS
  <1> HIDE DEF D, disc
  <1> DEFINE r == RemovePlayers(g, D, a)
             h == [r EXCEPT !.disc = disc]
  <1>5. Good(r, early) /\ (Stays(g, r) \/ Waits(g, r))
    BY <1>4, RemovePlayersGood, RemovePlayersMoves
  <1>6. EndPug(h) \/ (pug' = h /\ UNCHANGED <<listed, early>>)
    BY <1>2
  <1> HIDE DEF r
  <1>7. h \in PugType /\ h.state = r.state /\ h.prev = r.prev
    BY <1>3, <1>5 DEF Good, PugType
  <1> HIDE DEF h
  <1>8. Stays(g, h) \/ Waits(g, h)
    BY <1>5, <1>7 DEF Stays, Waits, Phase
  <1>9. CASE EndPug(h)
    BY <1>7, <1>8, <1>9, EndPugMoves DEF Stays, Waits
  <1> QED
    BY <1>6, <1>8, <1>9

(* The shuffle and what follows it, from a completed vote.                 *)
LEMMA ShuffleMoves ==
  ASSUME NEW g \in PugType, early \in BOOLEAN, listed, Good(g, early),
         g.state = MAPVOTE_COMPLETED, ShuffleAndChangeMap(g)
  PROVE  ~listed' \/ (listed' /\ (Phase(pug') = 3 \/ Overs(pug')))
  <1>1. PICK R \in RedHalves(g) :
          \/ CheckDisconnects(SetupConnectTimer(ShuffleTeams(g, R)))
          \/ pug' = ShuffleTeams(g, R) /\ UNCHANGED <<listed, early>>
    BY DEF ShuffleAndChangeMap
  <1> DEFINE s == ShuffleTeams(g, R)
             h == SetupConnectTimer(s)
  <1>2. Good(s, early) /\ s.state = 3
    <2>1. R \in SUBSET g.players
      BY DEF RedHalves
    <2> QED
      BY <2>1, ShuffleTeamsGood, ShuffleTeamsFields
  <1>3. s \in PugType
    BY <1>2 DEF Good
  <1> HIDE DEF s
  <1>4. h \in PugType /\ Core(h) = Core(s)
    BY <1>3, SetupConnectTimerFields
  <1> HIDE DEF h
  <1>5. Good(h, early) /\ Phase(h) = Phase(s) /\ Phase(s) = 3
    BY <1>2, <1>3, <1>4, SameCore DEF Phase
  <1>6. CheckDisconnects(h) \/ (pug' = s /\ UNCHANGED <<listed, early>>)
    BY <1>1 DEF h, s
  <1>7. CASE CheckDisconnects(h)
    BY <1>4, <1>5, <1>7, CheckDisconnectsMoves DEF Stays, Waits
  <1> QED
    BY <1>5, <1>6, <1>7

(* The status check, branch by branch.                                     *)
LEMMA StatusCheckSeen ==
  ASSUME Inv, StatusCheck
  PROVE  Seen
  <1>0. /\ listed /\ pug \in PugType /\ Good(pug, early) /\ early \in BOOLEAN
        /\ listed' \in BOOLEAN
    BY StatusCheckStep DEF Inv, Good, StatusCheck, Kept
  <1>1. CASE CheckMapVote
    <2>1. PICK m \in VoteWinners(pug) : ShuffleAndChangeMap(EndMapVote(pug, m))
      BY <1>1 DEF CheckMapVote
    <2>2. pug.state = 1 /\ Phase(pug) = 1
      BY <1>1 DEF CheckMapVote, Phase
    <2>3. m \in Maps
      BY <1>0, <2>2 DEF VoteWinners, Good, HasMap
    <2> DEFINE h == EndMapVote(pug, m)
    <2>4. Good(h, early) /\ h.state = MAPVOTE_COMPLETED /\ h \in PugType
      BY <1>0, <2>2, <2>3, EndMapVoteGood, EndMapVoteFields
    <2> HIDE DEF h
    <2>5. ShuffleAndChangeMap(h)
      BY <2>1 DEF h
    <2>6. ~listed' \/ (listed' /\ (Phase(pug') = 3 \/ Overs(pug')))
      BY <1>0, <2>4, <2>5, ShuffleMoves
    <2> QED
      BY <1>0, <2>2, <2>6 DEF Seen, Moves, Overs
  <1>2. CASE CheckVoteCompleted
    <2>1. pug.state = 2 /\ Phase(pug) = 2
      BY <1>2 DEF CheckVoteCompleted, Phase
    <2>2. ~listed' \/ (listed' /\ (Phase(pug') = 3 \/ Overs(pug')))
      BY <1>0, <1>2, ShuffleMoves DEF CheckVoteCompleted
    <2> QED
      BY <1>0, <2>1, <2>2 DEF Seen, Moves, Overs
  <1>3. CASE CheckGameOver
    <2> DEFINE h == [pug EXCEPT !.stats_done = TRUE]
    <2>1. /\ pug.state = GAME_OVER
          /\ \/ EndPug(h)
             \/ CheckDisconnects(h)
             \/ pug' = h /\ UNCHANGED <<listed, early>>
      BY <1>3 DEF CheckGameOver, StatsRaise, Close
    <2>2. /\ h \in PugType
          /\ h.state = pug.state /\ h.prev = pug.prev /\ h.players = pug.players
          /\ h.admin = pug.admin /\ h.teams = pug.teams /\ h.map = pug.map
          /\ h.forced = pug.forced /\ h.votes = pug.votes
      BY <1>0 DEF PugType
    <2> HIDE DEF h
    <2>3. Phase(h) = Phase(pug) /\ Phase(h) = 6
      BY <2>1, <2>2 DEF Phase
    <2>4. Good(h, early)
      BY <1>0, <2>2, <2>3 DEF Good, RosterMatches, Full, RolesHeldByMembers, HasMap,
         RecordedWhenOver, EveryoneHasTeam, SoundTeams, Ghosts, BalancedTeams
    <2>5. ~listed' \/ (listed' /\ (Stays(h, pug') \/ Waits(h, pug') \/ Overs(pug')))
      <3>1. CASE pug' = h /\ UNCHANGED <<listed, early>>
        BY <1>0, <3>1 DEF Stays
      <3> QED
        BY <1>0, <2>1, <2>2, <2>4, <3>1, EndPugMoves, CheckDisconnectsMoves
    <2> QED
      BY <1>0, <2>2, <2>3, <2>5 DEF Seen, Moves, Stays, Waits, Overs
  <1>4. CASE CheckGathering
    BY <1>0, <1>4, EndPugMoves DEF CheckGathering, Seen, Moves, Overs
  <1>5. CASE CheckReplacement
    BY <1>0, <1>5, EndPugMoves DEF CheckReplacement, Seen, Moves, Overs
  <1>6. CASE CheckOther
    BY <1>0, <1>6, CheckDisconnectsMoves DEF CheckOther, Seen, Moves, Overs
  <1> QED
    BY <1>1, <1>2, <1>3, <1>4, <1>5, <1>6 DEF StatusCheck

-----------------------------------------------------------------------------
(* A new pug gathers players: one does not fill it.                        *)
LEMMA CreateSeen ==
  ASSUME NEW p \in Players, NEW m \in Maps \cup {NoMap}, Create(p, m)
  PROVE  Seen
  <1> DEFINE n == NewPug(m)
             s == Seat(n, p)
             g == AddPlayer(n, p, FirstTeam)
  <1>1. n \in PugType /\ n.state = 0 /\ n.players = {}
    BY NewPugFields DEF NewPug
  <1> HIDE DEF n
  <1>2. s \in PugType /\ s.state = 0 /\ s.players = {p}
    BY <1>1, SeatFields
  <1>3. ~Full(s)
    BY <1>2, FS_Singleton, SizeAssumption DEF Full
  <1>4. g = s
    BY <1>1, <1>3 DEF AddPlayer
  <1> HIDE DEF s
  <1>5. g \in PugType /\ g.state = 0
    BY <1>2, <1>4
  <1>6. PICK ok \in CallOutcomes :
          pug' = [g EXCEPT !.server = IF ok THEN "ready" ELSE "silent"]
    BY DEF Create, n
  <1> HIDE DEF g
  <1>7. pug'.state = 0
    BY <1>5, <1>6 DEF PugType
  <1> QED
    BY <1>7 DEF Create, Seen, Phase

(* One who joins fills the pug, resumes it, or leaves it as it was.        *)
LEMMA JoinSeen ==
  ASSUME Inv, NEW p \in Players, Join(p)
  PROVE  Seen
  <1>1. PICK t \in ShorterTeams(pug) : pug' = AddPlayer(pug, p, t)
    BY DEF Join
  <1>2. pug \in PugType /\ listed /\ listed' /\ t \in Teams /\ pug.prev \in States
    BY DEF Inv, Good, Join, ShorterTeams, PugType
  <1> DEFINE k == Seat(pug, p)
  <1>3. k \in PugType /\ k.state = pug.state /\ k.prev = pug.prev
    BY <1>2, SeatFields
  <1>4. CASE pug.state = 5
    <2> DEFINE h == AddToTeam(k, p, t)
    <2>1. pug' = IF Full(h) THEN Resume(h) ELSE h
      BY <1>1, <1>4 DEF AddPlayer, Substitute
    <2> HIDE DEF k
    <2>2. h \in PugType /\ h.state = 5 /\ h.prev = pug.prev
      BY <1>2, <1>3, <1>4, AddToTeamFields
    <2> HIDE DEF h
    <2>3. Resume(h).state = pug.prev
      BY <2>2, ResumeFields
    <2>4. Phase(pug) = pug.prev /\ pug.prev \in {1, 2, 3, 4, 6}
      BY <1>4, PhaseOfGood DEF Inv
    <2>5. Phase(pug') = Phase(pug)
      BY <2>1, <2>2, <2>3, <2>4 DEF Phase
    <2> QED
      BY <1>2, <1>4, <2>1, <2>2, <2>3, <2>4, <2>5 DEF Seen, Moves, Stays
  <1>5. CASE pug.state # 5
    <2>1. pug' = IF Full(k) THEN BeginMapVote(k) ELSE k
      BY <1>1, <1>5 DEF AddPlayer
    <2> HIDE DEF k
    <2>2. BeginMapVote(k).state =
            IF pug.state >= 1 THEN pug.state ELSE IF k.forced THEN 2 ELSE 1
      BY <1>3, BeginMapVoteFields
    <2>3. Phase(pug) = pug.state /\ pug.state \in {0, 1, 2, 3, 4, 6}
      BY <1>5, PhaseOfGood DEF Inv
    <2> QED
      BY <1>2, <1>3, <1>5, <2>1, <2>2, <2>3 DEF Seen, Moves, Stays, Phase
  <1> QED
    BY <1>4, <1>5

(* One who leaves is missed, or was the last one.                          *)
LEMMA LeaveSeen ==
  ASSUME Inv, NEW p \in Players, Leave(p)
  PROVE  Seen
  <1>1. PICK a \in NextAdmins(pug, {p}) :
          LET g == RemovePlayers(pug, {p}, a)
          IN  IF g.players = {} THEN EndPug(g)
              ELSE pug' = g /\ UNCHANGED <<listed, early>>
    BY DEF Leave
  <1> DEFINE g == RemovePlayers(pug, {p}, a)
  <1>2. pug \in PugType /\ Good(pug, early) /\ early \in BOOLEAN /\ listed
    BY DEF Inv, Good, Leave
  <1>3. Good(g, early) /\ (Stays(pug, g) \/ Waits(pug, g))
    BY <1>2, RemovePlayersGood, RemovePlayersMoves
  <1>4. EndPug(g) \/ (pug' = g /\ UNCHANGED listed)
    BY <1>1
  <1> HIDE DEF g
  <1>5. g \in PugType
    BY <1>3 DEF Good
  <1>6. CASE EndPug(g)
    BY <1>2, <1>3, <1>5, <1>6, EndPugMoves DEF Seen, Moves, Stays, Waits, Overs
  <1> QED
    BY <1>2, <1>3, <1>4, <1>6 DEF Seen, Moves

(* Log lines start and end games.                                          *)
LEMMA GameLineSeen ==
  ASSUME Inv, RoundStart \/ AdminStart \/ GameOver
  PROVE  Seen
  <1>1. pug \in PugType /\ listed /\ listed'
    BY DEF Inv, Good, RoundStart, AdminStart, GameOver, LogLine
  <1>2. Phase(pug) \in {0, 1, 2, 3, 4, 6}
    BY PhaseOfGood DEF Inv
  <1>3. CASE pug' = BeginGame(pug)
    <2>1. CASE GameStarted(pug)
      BY <1>1, <1>3, <2>1 DEF BeginGame, Seen, Moves, Stays
    <2>2. CASE ~GameStarted(pug)
      <3>1. pug'.state = 4 /\ Phase(pug) < 4
        BY <1>1, <1>2, <1>3, <2>2, BeginGameFields DEF GameStarted
      <3> QED
        BY <1>1, <3>1 DEF Seen, Moves, Phase
    <2> QED
      BY <2>1, <2>2
  <1>4. CASE pug' = EndGame(pug)
    BY <1>1, <1>4, EndGameFields DEF Seen, Moves, Phase
  <1> QED
    BY <1>3, <1>4 DEF RoundStart, AdminStart, GameOver

(* Steps that the lifecycle does not see.                                  *)
LEMMA QuietSeen ==
  ASSUME Inv,
         \/ UNCHANGED vars
         \/ \E p \in Players : Connect(p) \/ Disconnect(p)
         \/ \E p \in Players, m \in Maps : VoteMap(p, m)
         \/ \E m \in Maps : ForceMap(m)
         \/ \E c \in Clocks : Passes(c)
         \/ GameAges
  PROVE  Seen
  <1>1. pug \in PugType /\ listed \in BOOLEAN
    BY DEF Inv, Good
  <1>2. UNCHANGED listed
    BY DEF vars, Connect, Disconnect, LogLine, VoteMap, ForceMap, Passes, GameAges
  <1>3. pug'.state = pug.state /\ pug'.prev = pug.prev
    BY <1>1 DEF vars, Connect, Disconnect, VoteMap, ForceMap, Passes, GameAges, PugType
  <1> QED
    BY <1>1, <1>2, <1>3 DEF Seen, Moves, Stays, Phase

(* Every step is one that clients may see.                                 *)
LEMMA NextSeen ==
  ASSUME Inv, [Next]_vars
  PROVE  Seen
  <1>1. ASSUME NEW p \in Players, NEW m \in Maps \cup {NoMap}, Create(p, m)
        PROVE  Seen
    BY <1>1, CreateSeen
  <1>2. ASSUME NEW p \in Players, Join(p) \/ Leave(p)
        PROVE  Seen
    BY <1>2, JoinSeen, LeaveSeen
  <1>3. CASE ForceEnd
    <2>1. pug \in PugType /\ listed /\ EndPug(pug)
      BY <1>3 DEF Inv, Good, ForceEnd
    <2> QED
      BY <2>1, EndPugMoves DEF Seen, Moves, Overs
  <1>4. CASE RoundStart \/ AdminStart \/ GameOver
    BY <1>4, GameLineSeen
  <1>5. CASE StatusCheck
    BY <1>5, StatusCheckSeen
  <1> QED
    BY <1>1, <1>2, <1>3, <1>4, <1>5, QuietSeen DEF Next

-----------------------------------------------------------------------------
(* The names of the phases.                                                *)
LEMMA NamesOfPhases ==
  /\ PhaseNames[0] = "gathering" /\ PhaseNames[1] = "voting" /\ PhaseNames[2] = "chosen"
  /\ PhaseNames[3] = "shuffled" /\ PhaseNames[4] = "playing" /\ PhaseNames[6] = "over"
  BY DEF PhaseNames, States

(* What clients may see is a step of the lifecycle, or none.               *)
LEMMA SeenIsLifecycle ==
  ASSUME Inv, Inv', Seen
  PROVE  [Lifecycle!Next]_(Lifecycle!vars)
  <1> DEFINE a == Phase(pug)
             b == Phase(pug')
             v == pug.state = 5
             w == pug'.state = 5
  <1> USE DEF Lifecycle!Next, Lifecycle!vars, Lifecycle!Phases, Lifecycle!BeforeGame
  <1>1. /\ a \in {0, 1, 2, 3, 4, 6} /\ b \in {0, 1, 2, 3, 4, 6}
        /\ v => a # 0
        /\ listed \in BOOLEAN /\ listed' \in BOOLEAN
    BY PhaseOfGood DEF Inv
  <1>2. Phase(pug)' = b
    BY DEF Phase
  <1>3. CASE ~listed /\ listed' /\ b = 0 /\ ~w
    BY <1>2, <1>3, NamesOfPhases DEF Lifecycle!Open
  <1>4. CASE listed /\ ~listed'
    BY <1>1, <1>4, NamesOfPhases DEF Lifecycle!End
  <1>5. CASE ~listed /\ ~listed'
    BY <1>5
  <1>6. CASE listed /\ listed' /\ Moves(pug, pug')
    <2>1. CASE a = b /\ (v <=> w)
      BY <1>2, <1>6, <2>1
    <2>2. CASE a = b /\ w /\ a # 0
      BY <1>1, <1>2, <1>6, <2>2, NamesOfPhases DEF Lifecycle!Await
    <2>3. CASE a = b /\ ~w /\ v
      BY <1>2, <1>6, <2>3 DEF Lifecycle!Resume
    <2>4. CASE a = 0 /\ b \in {1, 2} /\ ~w
      BY <1>2, <1>6, <2>4, NamesOfPhases DEF Lifecycle!Fill
    <2>5. CASE a \in {1, 2} /\ ~v /\ b = 3
      BY <1>2, <1>6, <2>5, NamesOfPhases DEF Lifecycle!MakeTeams
    <2>6. CASE a < 4 /\ b = 4 /\ ~w
      BY <1>1, <1>2, <1>6, <2>6, NamesOfPhases DEF Lifecycle!Start
    <2>7. CASE b = 6 /\ ~w
      BY <1>1, <1>2, <1>6, <2>7, NamesOfPhases DEF Lifecycle!Finish
    <2> QED
      BY <1>6, <2>1, <2>2, <2>3, <2>4, <2>5, <2>6, <2>7 DEF Moves, Stays, Waits
  <1> QED
    BY <1>3, <1>4, <1>5, <1>6 DEF Seen

(* Clients see the phases in their order, whatever happens to the pug.     *)
THEOREM Refinement == Spec => ImplementsLifecycle
  <1>1. Init => Lifecycle!Init
    BY DEF Init, Lifecycle!Init
  <1>2. Inv /\ Inv' /\ [Next]_vars => [Lifecycle!Next]_(Lifecycle!vars)
    BY NextSeen, SeenIsLifecycle
  <1> QED
    BY <1>1, <1>2, Invariance, PTL DEF Spec, ImplementsLifecycle, Lifecycle!Spec

=============================================================================
