----------------------------- MODULE PugProofs -----------------------------
(***************************************************************************)
(* Theorems about Pug, for every set of players and maps and every size.   *)
(* Good(pug, early) is the inductive invariant; beside it, every method    *)
(* keeps or raises the phase.  The module goes up in four layers: what a   *)
(* method does to each field, that a method keeps Good, that an action     *)
(* does, and the theorems.                                                 *)
(***************************************************************************)
EXTENDS Pug, FiniteSetTheorems, TLAPS

USE DEF GATHERING_PLAYERS, MAP_VOTING, MAPVOTE_COMPLETED, TEAMS_SHUFFLED,
        GAME_STARTED, REPLACEMENT_REQUIRED, GAME_OVER

(* The fields that Good reads, beyond the type.                            *)
Core(g) == <<g.state, g.prev, g.players, g.admin, g.teams, g.map, g.forced,
             g.votes, g.stats_done>>

-----------------------------------------------------------------------------
(* Cardinalities.                                                          *)

(* Every set of players is finite, and its size is a number.               *)
LEMMA PlayerSets ==
  ASSUME NEW S \in SUBSET Players
  PROVE  IsFiniteSet(S) /\ Cardinality(S) \in Nat
  BY PlayersAssumption, FS_Subset, FS_CardinalityType

(* A set of players that loses somebody gets smaller.                      *)
LEMMA FewerPlayers ==
  ASSUME NEW S \in SUBSET Players, NEW T \in SUBSET S
  PROVE  /\ Cardinality(T) <= Cardinality(S)
         /\ T # S => Cardinality(T) < Cardinality(S)
  <1>1. IsFiniteSet(S) /\ Cardinality(S) \in Nat /\ Cardinality(T) \in Nat
    BY PlayerSets
  <1> QED
    BY <1>1, FS_Subset

(* A set of players that gains somebody grows by one.                      *)
LEMMA OneMorePlayer ==
  ASSUME NEW S \in SUBSET Players, NEW p \in Players \ S
  PROVE  Cardinality(S \cup {p}) = Cardinality(S) + 1
  BY PlayerSets, FS_AddElement

-----------------------------------------------------------------------------
(* What each method of the object does to each of its fields.              *)

(* A new pug has the types of its fields.                                  *)
LEMMA NewPugFields ==
  ASSUME NEW m \in Maps \cup {NoMap}
  PROVE  NewPug(m) \in PugType
  BY DEF NewPug, PugType, States, Teams, Clocks, ServerStates

(* begin_map_vote changes the state only.                                  *)
LEMMA BeginMapVoteFields ==
  ASSUME NEW g \in PugType
  PROVE  LET h == BeginMapVote(g)
         IN  /\ h \in PugType
             /\ h.state = IF g.state >= 1 THEN g.state ELSE IF g.forced THEN 2 ELSE 1
             /\ h.prev = g.prev /\ h.players = g.players /\ h.admin = g.admin
             /\ h.teams = g.teams /\ h.map = g.map /\ h.forced = g.forced
             /\ h.votes = g.votes /\ h.stats_done = g.stats_done /\ h.server = g.server
  BY DEF BeginMapVote, PugType, States

(* A new player, and the choice of the first admin.                        *)
LEMMA SeatFields ==
  ASSUME NEW g \in PugType, NEW p \in Players
  PROVE  LET h == Seat(g, p)
         IN  /\ h \in PugType
             /\ h.players = g.players \cup {p}
             /\ h.admin = IF g.players = {} THEN p ELSE g.admin
             /\ h.state = g.state /\ h.prev = g.prev
             /\ h.teams = g.teams /\ h.map = g.map /\ h.forced = g.forced
             /\ h.votes = g.votes /\ h.stats_done = g.stats_done /\ h.server = g.server
  BY DEF Seat, PugType

(* _add_to_team changes one team only.                                     *)
LEMMA AddToTeamFields ==
  ASSUME NEW g \in PugType, NEW p \in Players, NEW t \in Teams
  PROVE  LET h == AddToTeam(g, p, t)
         IN  /\ h \in PugType
             /\ h.teams[t] = g.teams[t] \cup {p}
             /\ \A u \in Teams \ {t} : h.teams[u] = g.teams[u]
             /\ h.state = g.state /\ h.prev = g.prev /\ h.players = g.players
             /\ h.admin = g.admin /\ h.map = g.map /\ h.forced = g.forced
             /\ h.votes = g.votes /\ h.stats_done = g.stats_done /\ h.server = g.server
  BY DEF AddToTeam, PugType

(* The state goes back to where it was; the deadline is off.               *)
LEMMA ResumeFields ==
  ASSUME NEW g \in PugType
  PROVE  LET h == Resume(g)
         IN  /\ h \in PugType
             /\ h.state = g.prev
             /\ h.prev = g.prev /\ h.players = g.players /\ h.admin = g.admin
             /\ h.teams = g.teams /\ h.map = g.map /\ h.forced = g.forced
             /\ h.votes = g.votes /\ h.stats_done = g.stats_done /\ h.server = g.server
  BY DEF Resume, PugType

(* The state that is left is kept, once, for Resume.                       *)
LEMMA AwaitReplacementFields ==
  ASSUME NEW g \in PugType
  PROVE  LET h == AwaitReplacement(g)
         IN  /\ h \in PugType
             /\ h.state = 5
             /\ h.prev = IF g.state = 5 THEN g.prev ELSE g.state
             /\ h.players = g.players /\ h.admin = g.admin
             /\ h.teams = g.teams /\ h.map = g.map /\ h.forced = g.forced
             /\ h.votes = g.votes /\ h.stats_done = g.stats_done /\ h.server = g.server
  <1>1. CASE g.state = 5
    BY <1>1 DEF AwaitReplacement
  <1>2. CASE g.state # 5
    <2>1. 5 \in States /\ g.due \ {"replace"} \in SUBSET Clocks
      BY DEF States, PugType
    <2> QED
      BY <1>2, <2>1 DEF AwaitReplacement, PugType
  <1> QED
    BY <1>1, <1>2

(* _remove_from_team changes the teams only.                               *)
LEMMA TakeOffTeamsFields ==
  ASSUME NEW g \in PugType, NEW D \in SUBSET Players
  PROVE  LET h == TakeOffTeams(g, D)
         IN  /\ h \in PugType
             /\ \A t \in Teams : h.teams[t] = g.teams[t] \ {p \in D : OnTeam(g, p, t)}
             /\ h.state = g.state /\ h.prev = g.prev /\ h.players = g.players
             /\ h.admin = g.admin /\ h.map = g.map /\ h.forced = g.forced
             /\ h.votes = g.votes /\ h.stats_done = g.stats_done /\ h.server = g.server
  BY DEF TakeOffTeams, PugType

(* end_map_vote sets the map and the state.                                *)
LEMMA EndMapVoteFields ==
  ASSUME NEW g \in PugType, NEW m \in Maps
  PROVE  LET h == EndMapVote(g, m)
         IN  /\ h \in PugType
             /\ h.map = m /\ h.state = 2
             /\ h.prev = g.prev /\ h.players = g.players /\ h.admin = g.admin
             /\ h.teams = g.teams /\ h.forced = g.forced
             /\ h.votes = g.votes /\ h.stats_done = g.stats_done /\ h.server = g.server
  <1>1. 2 \in States /\ m \in Maps \cup {NoMap}
    BY DEF States
  <1> QED
    BY <1>1 DEF EndMapVote, PugType

(* shuffle_teams adds to the teams and sets the state.                     *)
LEMMA ShuffleTeamsFields ==
  ASSUME NEW g \in PugType, NEW R \in SUBSET g.players
  PROVE  LET h == ShuffleTeams(g, R)
         IN  /\ h \in PugType
             /\ h.teams["red"] = g.teams["red"] \cup R
             /\ h.teams["blue"] = g.teams["blue"] \cup (g.players \ R)
             /\ h.state = 3
             /\ h.prev = g.prev /\ h.players = g.players /\ h.admin = g.admin
             /\ h.map = g.map /\ h.forced = g.forced
             /\ h.votes = g.votes /\ h.stats_done = g.stats_done /\ h.server = g.server
  <1> DEFINE T == [t \in Teams |-> g.teams[t] \cup (IF t = "red" THEN R ELSE g.players \ R)]
  <1>1. T \in [Teams -> SUBSET Players]
    BY DEF PugType
  <1>2. /\ T["red"] = g.teams["red"] \cup R
        /\ T["blue"] = g.teams["blue"] \cup (g.players \ R)
    BY DEF Teams
  <1>3. ShuffleTeams(g, R) = [g EXCEPT !.teams = T, !.state = 3]
    BY DEF ShuffleTeams
  <1>4. 3 \in States
    BY DEF States
  <1> HIDE DEF T
  <1> QED
    BY <1>1, <1>2, <1>3, <1>4 DEF PugType

(* begin_game does nothing to a game that has started.                     *)
LEMMA BeginGameFields ==
  ASSUME NEW g \in PugType
  PROVE  LET h == BeginGame(g)
         IN  /\ h \in PugType
             /\ h.state = IF GameStarted(g) THEN g.state ELSE 4
             /\ h.prev = g.prev /\ h.players = g.players /\ h.admin = g.admin
             /\ h.teams = g.teams /\ h.map = g.map /\ h.forced = g.forced
             /\ h.votes = g.votes /\ h.stats_done = g.stats_done /\ h.server = g.server
  <1>1. 4 \in States /\ TRUE \in BOOLEAN
    BY DEF States
  <1>2. CASE GameStarted(g)
    BY <1>2 DEF BeginGame
  <1>3. CASE ~GameStarted(g)
    BY <1>1, <1>3 DEF BeginGame, PugType
  <1> QED
    BY <1>2, <1>3

(* end_game sets the state.                                                *)
LEMMA EndGameFields ==
  ASSUME NEW g \in PugType
  PROVE  LET h == EndGame(g)
         IN  /\ h \in PugType
             /\ h.state = 6
             /\ h.prev = g.prev /\ h.players = g.players /\ h.admin = g.admin
             /\ h.teams = g.teams /\ h.map = g.map /\ h.forced = g.forced
             /\ h.votes = g.votes /\ h.stats_done = g.stats_done /\ h.server = g.server
  <1>1. 6 \in States /\ g.due \ {"grace"} \in SUBSET Clocks
    BY DEF States, PugType
  <1> QED
    BY <1>1 DEF EndGame, PugType

(* The connect timer touches the disconnect entries only.                  *)
LEMMA SetupConnectTimerFields ==
  ASSUME NEW g \in PugType
  PROVE  /\ SetupConnectTimer(g) \in PugType
         /\ Core(SetupConnectTimer(g)) = Core(g)
  BY DEF SetupConnectTimer, PugType, Core

-----------------------------------------------------------------------------
(* Every method keeps Good and does not lower the phase.                   *)

(* Good reads nothing but the core.                                        *)
LEMMA SameCore ==
  ASSUME NEW g \in PugType, NEW h \in PugType, NEW e \in BOOLEAN,
         Good(g, e), Core(h) = Core(g)
  PROVE  Good(h, e) /\ Phase(h) = Phase(g)
  BY DEF Core, Good, Phase, RosterMatches, Full, RolesHeldByMembers, HasMap,
         RecordedWhenOver, EveryoneHasTeam, SoundTeams, Ghosts, BalancedTeams

(* A new pug is good, with or without a forced map.                        *)
LEMMA NewPugGood ==
  ASSUME NEW m \in Maps \cup {NoMap}
  PROVE  Good(NewPug(m), FALSE)
  <1>1. Cardinality({}) = 0
    BY FS_EmptySet
  <1>2. NewPug(m) \in PugType
    BY NewPugFields
  <1>3. /\ NewPug(m).state = 0 /\ NewPug(m).players = {} /\ ~NewPug(m).stats_done
        /\ NewPug(m).teams = [t \in Teams |-> {}]
        /\ NewPug(m).votes = [p \in Players |-> NoMap]
        /\ NewPug(m).map = m /\ NewPug(m).forced = (m # NoMap)
    BY DEF NewPug
  <1>4. RosterMatches(NewPug(m)) /\ RolesHeldByMembers(NewPug(m))
    BY <1>1, <1>3, SizeAssumption DEF RosterMatches, RolesHeldByMembers
  <1>5. HasMap(NewPug(m)) /\ RecordedWhenOver(NewPug(m))
    <2>1. Phase(NewPug(m)) = 0
      BY <1>3 DEF Phase
    <2>2. NewPug(m).forced => NewPug(m).map \in Maps
      BY <1>3
    <2> QED
      BY <1>3, <2>1, <2>2 DEF HasMap, RecordedWhenOver
  <1>6. EveryoneHasTeam(NewPug(m)) /\ SoundTeams(NewPug(m)) /\ BalancedTeams(NewPug(m))
    BY <1>3 DEF EveryoneHasTeam, SoundTeams, BalancedTeams, Ghosts, Phase, Teams
  <1> QED
    BY <1>2, <1>4, <1>5, <1>6 DEF Good

(* A player takes a free seat in a pug that is not waiting.                *)
LEMMA SeatGood ==
  ASSUME NEW g \in PugType, NEW p \in Players \ g.players, NEW e \in BOOLEAN,
         Good(g, e), ~Full(g), g.state # REPLACEMENT_REQUIRED
  PROVE  Good(Seat(g, p), e) /\ Phase(Seat(g, p)) = Phase(g)
  <1> DEFINE h == Seat(g, p)
  <1>1. /\ h \in PugType
        /\ h.players = g.players \cup {p}
        /\ h.admin = IF g.players = {} THEN p ELSE g.admin
        /\ h.state = g.state /\ h.prev = g.prev
        /\ h.teams = g.teams /\ h.map = g.map /\ h.forced = g.forced
        /\ h.votes = g.votes /\ h.stats_done = g.stats_done
    BY SeatFields
  <1> HIDE DEF h
  <1>2. g.players \in SUBSET Players /\ g.state \in States
    BY DEF PugType
  <1>3. Cardinality(h.players) = Cardinality(g.players) + 1 /\ Cardinality(g.players) \in Nat
    BY <1>1, <1>2, OneMorePlayer, PlayerSets
  <1>4. g.state \notin {1, 2, 3}
    BY DEF Good, RosterMatches
  <1>5. RosterMatches(h)
    BY <1>1, <1>3, <1>4, SizeAssumption DEF Good, RosterMatches, Full
  <1>6. RolesHeldByMembers(h)
    BY <1>1 DEF Good, RolesHeldByMembers
  <1>7. Phase(h) = Phase(g) /\ HasMap(h) /\ RecordedWhenOver(h)
    BY <1>1 DEF Good, HasMap, RecordedWhenOver, Phase
  <1>8. EveryoneHasTeam(h) /\ (~e => SoundTeams(h) /\ BalancedTeams(h))
    BY <1>1, <1>4, <1>7 DEF Good, EveryoneHasTeam, SoundTeams, BalancedTeams, Ghosts, Phase
  <1> QED
    BY <1>1, <1>5, <1>6, <1>7, <1>8 DEF Good, h

(* A full gathering pug may begin its vote.                                *)
LEMMA BeginMapVoteGood ==
  ASSUME NEW g \in PugType, NEW e \in BOOLEAN, Good(g, e), Full(g)
  PROVE  Good(BeginMapVote(g), e) /\ Phase(BeginMapVote(g)) >= Phase(g)
  <1> DEFINE h == BeginMapVote(g)
  <1>1. /\ h \in PugType
        /\ h.state = IF g.state >= 1 THEN g.state ELSE IF g.forced THEN 2 ELSE 1
        /\ h.prev = g.prev /\ h.players = g.players /\ h.admin = g.admin
        /\ h.teams = g.teams /\ h.map = g.map /\ h.forced = g.forced
        /\ h.votes = g.votes /\ h.stats_done = g.stats_done
    BY BeginMapVoteFields
  <1> HIDE DEF h
  <1>2. g.state \in States /\ g.prev \in States /\ h.state \in States /\ g.forced \in BOOLEAN
    BY <1>1 DEF PugType
  <1>3. RosterMatches(h) /\ RolesHeldByMembers(h)
    BY <1>1, <1>2 DEF Good, RosterMatches, RolesHeldByMembers, Full, States
  <1>4. Phase(h) >= Phase(g)
    BY <1>1, <1>2 DEF Phase, States
  <1>5. HasMap(h) /\ RecordedWhenOver(h)
    BY <1>1, <1>2 DEF Good, HasMap, RecordedWhenOver, Phase, States
  <1>6. EveryoneHasTeam(h) /\ (~e => SoundTeams(h) /\ BalancedTeams(h))
    BY <1>1, <1>2 DEF Good, EveryoneHasTeam, SoundTeams, BalancedTeams, Ghosts, Phase, States
  <1> QED
    BY <1>1, <1>3, <1>4, <1>5, <1>6 DEF Good, h

(* Two teams that share nobody and hold everybody.                         *)
LEMMA TeamSizes ==
  ASSUME NEW A \in SUBSET Players, NEW B \in SUBSET Players, A \cap B = {}
  PROVE  /\ Cardinality(A \cup B) = Cardinality(A) + Cardinality(B)
         /\ Cardinality(A) \in Nat /\ Cardinality(B) \in Nat
  <1>1. /\ IsFiniteSet(A) /\ IsFiniteSet(B)
        /\ Cardinality(A) \in Nat /\ Cardinality(B) \in Nat
    BY PlayerSets
  <1>2. Cardinality(A \cap B) = 0
    BY FS_EmptySet
  <1>3. Cardinality(A \cup B) = Cardinality(A) + Cardinality(B) - Cardinality(A \cap B)
    BY <1>1, FS_Union
  <1> QED
    BY <1>1, <1>2, <1>3

(* A replacement takes a seat and a place on the shorter team.             *)
LEMMA SubstituteGood ==
  ASSUME NEW g \in PugType, NEW p \in Players \ g.players, NEW e \in BOOLEAN,
         NEW t \in ShorterTeams(g),
         Good(g, e), ~Full(g), g.state = REPLACEMENT_REQUIRED
  PROVE  /\ Good(Substitute(g, p, t), e \/ g.prev < TEAMS_SHUFFLED)
         /\ Phase(Substitute(g, p, t)) = Phase(g)
  <1> DEFINE k == Seat(g, p)
             h == AddToTeam(k, p, t)
             f == e \/ g.prev < TEAMS_SHUFFLED
  <1>0. t \in Teams
    BY DEF ShorterTeams
  <1>1. /\ k \in PugType
        /\ k.players = g.players \cup {p}
        /\ k.admin = IF g.players = {} THEN p ELSE g.admin
        /\ k.state = g.state /\ k.prev = g.prev
        /\ k.teams = g.teams /\ k.map = g.map /\ k.forced = g.forced
        /\ k.votes = g.votes /\ k.stats_done = g.stats_done
    BY SeatFields
  <1> HIDE DEF k
  <1>2. /\ h \in PugType
        /\ h.teams[t] = k.teams[t] \cup {p}
        /\ \A u \in Teams \ {t} : h.teams[u] = k.teams[u]
        /\ h.state = k.state /\ h.prev = k.prev /\ h.players = k.players
        /\ h.admin = k.admin /\ h.map = k.map /\ h.forced = k.forced
        /\ h.votes = k.votes /\ h.stats_done = k.stats_done
    BY <1>0, <1>1, AddToTeamFields
  <1> HIDE DEF h
  <1>3. /\ g.players \in SUBSET Players /\ g.state \in States /\ g.prev \in States
        /\ g.prev \notin {0, 5}
        /\ \A u \in Teams : g.teams[u] \in SUBSET Players
    BY DEF PugType, Good, RosterMatches
  <1>4. /\ Cardinality(h.players) = Cardinality(g.players) + 1
        /\ Cardinality(g.players) \in Nat /\ Cardinality(g.players) < Size
    BY <1>1, <1>2, <1>3, OneMorePlayer, PlayerSets, SizeAssumption DEF Good, RosterMatches, Full
  <1>5. RolesHeldByMembers(h)
    BY <1>1, <1>2 DEF Good, RolesHeldByMembers
  <1>6. Phase(h) = Phase(g) /\ HasMap(h) /\ RecordedWhenOver(h) /\ Phase(g) = g.prev
    BY <1>1, <1>2 DEF Good, HasMap, RecordedWhenOver, Phase
  <1>12. EveryoneHasTeam(h)
    BY <1>0, <1>1, <1>2, <1>6 DEF Good, EveryoneHasTeam, Teams
  <1>7. ~f => SoundTeams(h)
    BY <1>0, <1>1, <1>2, <1>3, <1>6 DEF Good, SoundTeams, Ghosts, Teams, States
  <1>8. ~f => BalancedTeams(h)
    <2> SUFFICES ASSUME ~f, Phase(h) = 3
                 PROVE  /\ h.players = h.teams["red"] \cup h.teams["blue"]
                        /\ \A u \in Teams : Cardinality(h.teams[u]) <= (Size + 1) \div 2
      BY DEF BalancedTeams
    <2>1. /\ g.players = g.teams["red"] \cup g.teams["blue"]
          /\ g.teams["red"] \cap g.teams["blue"] = {}
          /\ \A u \in Teams : Cardinality(g.teams[u]) <= (Size + 1) \div 2
      BY <1>6 DEF Good, BalancedTeams, SoundTeams
    <2>2. h.players = h.teams["red"] \cup h.teams["blue"]
      BY <1>0, <1>1, <1>2, <2>1 DEF Teams
    <2>3. Cardinality(g.teams[t]) + 1 <= (Size + 1) \div 2
      <3>1. /\ Cardinality(g.players)
                 = Cardinality(g.teams["red"]) + Cardinality(g.teams["blue"])
            /\ Cardinality(g.teams["red"]) \in Nat /\ Cardinality(g.teams["blue"]) \in Nat
        BY <1>3, <2>1, TeamSizes DEF Teams
      <3>2. \A u \in Teams : Cardinality(g.teams[t]) <= Cardinality(g.teams[u])
        BY DEF ShorterTeams
      <3>3. 2 * Cardinality(g.teams[t]) <= Size - 1
        BY <1>0, <1>4, <3>1, <3>2, SizeAssumption DEF Teams
      <3>4. Cardinality(g.teams[t]) \in Nat
        BY <1>0, <3>1 DEF Teams
      <3> QED
        BY <3>3, <3>4, SizeAssumption
    <2>4. Cardinality(h.teams[t]) = Cardinality(g.teams[t]) + 1
      BY <1>0, <1>1, <1>2, <1>3, <2>1, OneMorePlayer DEF Teams
    <2> QED
      BY <1>1, <1>2, <2>1, <2>2, <2>3, <2>4
  <1>9. Substitute(g, p, t) = IF Full(h) THEN Resume(h) ELSE h
    BY DEF Substitute, h, k
  <1>10. CASE ~Full(h)
    <2>1. RosterMatches(h)
      BY <1>1, <1>2, <1>3, <1>4, <1>10, SizeAssumption DEF RosterMatches
    <2> QED
      BY <1>2, <1>5, <1>6, <1>7, <1>8, <1>9, <1>10, <1>12, <2>1 DEF Good
  <1>11. CASE Full(h)
    <2> DEFINE r == Resume(h)
    <2>1. /\ r \in PugType
          /\ r.state = h.prev
          /\ r.prev = h.prev /\ r.players = h.players /\ r.admin = h.admin
          /\ r.teams = h.teams /\ r.map = h.map /\ r.forced = h.forced
          /\ r.votes = h.votes /\ r.stats_done = h.stats_done
      BY <1>2, ResumeFields
    <2> HIDE DEF r
    <2>2. RosterMatches(r) /\ RolesHeldByMembers(r)
      BY <1>1, <1>2, <1>3, <1>4, <1>5, <1>11, <2>1, SizeAssumption
         DEF RosterMatches, Full, RolesHeldByMembers
    <2>3. Phase(r) = Phase(h) /\ HasMap(r) /\ RecordedWhenOver(r)
      BY <1>1, <1>2, <1>3, <1>6, <2>1 DEF HasMap, RecordedWhenOver, Phase
    <2>4. EveryoneHasTeam(r) /\ (~f => SoundTeams(r) /\ BalancedTeams(r))
      BY <1>7, <1>8, <1>12, <2>1, <2>3 DEF EveryoneHasTeam, SoundTeams, BalancedTeams, Ghosts
    <2> QED
      BY <1>6, <1>9, <1>11, <2>1, <2>2, <2>3, <2>4 DEF Good, r
  <1> QED
    BY <1>10, <1>11

(* add_player, in the cases the manager lets through.                      *)
LEMMA AddPlayerGood ==
  ASSUME NEW g \in PugType, NEW p \in Players \ g.players, NEW e \in BOOLEAN,
         NEW t \in ShorterTeams(g), Good(g, e), ~Full(g)
  PROVE  /\ Good(AddPlayer(g, p, t),
                 e \/ (g.state = REPLACEMENT_REQUIRED /\ g.prev < TEAMS_SHUFFLED))
         /\ Phase(AddPlayer(g, p, t)) >= Phase(g)
  <1>1. Phase(g) \in Int
    BY DEF Phase, PugType, States
  <1>2. CASE g.state = REPLACEMENT_REQUIRED
    <2>1. AddPlayer(g, p, t) = Substitute(g, p, t)
      BY <1>2 DEF AddPlayer
    <2> QED
      BY <1>1, <1>2, <2>1, SubstituteGood
  <1>3. CASE g.state # REPLACEMENT_REQUIRED
    <2> DEFINE h == Seat(g, p)
    <2>1. AddPlayer(g, p, t) = IF Full(h) THEN BeginMapVote(h) ELSE h
      BY <1>3 DEF AddPlayer
    <2>2. Good(h, e) /\ Phase(h) = Phase(g) /\ h \in PugType
      BY <1>3, SeatGood, SeatFields
    <2>3. (e \/ (g.state = REPLACEMENT_REQUIRED /\ g.prev < TEAMS_SHUFFLED)) = e
      BY <1>3
    <2> HIDE DEF h
    <2>4. Full(h) => Good(BeginMapVote(h), e) /\ Phase(BeginMapVote(h)) >= Phase(h)
      BY <2>2, BeginMapVoteGood
    <2> QED
      BY <1>1, <2>1, <2>2, <2>3, <2>4
  <1> QED
    BY <1>2, <1>3

(* Players leave, or are taken out for being disconnected.                 *)
LEMMA RemovePlayersGood ==
  ASSUME NEW g \in PugType, NEW D \in SUBSET Players, NEW a \in NextAdmins(g, D),
         NEW e \in BOOLEAN, Good(g, e)
  PROVE  LET h == RemovePlayers(g, D, a)
         IN  /\ Good(h, e)
             /\ Phase(h) = Phase(g)
             /\ h.players = g.players \ D
  <1>0. /\ g.players \in SUBSET Players /\ a \in Players \cup {NoPlayer}
        /\ g.state \in States /\ g.prev \in States
        /\ g.teams["red"] \in SUBSET Players /\ g.teams["blue"] \in SUBSET Players
    BY DEF PugType, NextAdmins, Teams
  <1>1. g.players \ D # {} => a \in g.players \ D
    BY DEF NextAdmins, Good, RolesHeldByMembers
  <1>2. CASE ~(g.state > 0 /\ D \cap g.players # {})
    <2> DEFINE h == Unseat(g, D, a)
    <2>1. RemovePlayers(g, D, a) = h
      BY <1>2 DEF RemovePlayers
    <2>2. /\ h \in PugType
          /\ h.players = g.players \ D
          /\ h.admin = a
          /\ \A p \in Players : h.votes[p] = IF p \in D THEN NoMap ELSE g.votes[p]
          /\ h.state = g.state /\ h.prev = g.prev
          /\ h.teams = g.teams /\ h.map = g.map /\ h.forced = g.forced
          /\ h.stats_done = g.stats_done
      <3>1. a \in Players \cup {NoPlayer}
        BY <1>0
      <3> QED
        BY <3>1 DEF Unseat, PugType
    <2> HIDE DEF h
    <2>3. g.state = 0 \/ h.players = g.players
      BY <1>0, <1>2, <2>2 DEF States
    <2>4. RosterMatches(h)
      <3>1. Cardinality(h.players) <= Cardinality(g.players)
        BY <1>0, <2>2, FewerPlayers
      <3>2. Cardinality(h.players) \in Nat /\ Cardinality(g.players) \in Nat
        BY <1>0, <2>2, PlayerSets
      <3> QED
        BY <2>2, <2>3, <3>1, <3>2, SizeAssumption DEF Good, RosterMatches, Full
    <2>5. RolesHeldByMembers(h)
      BY <1>1, <2>2 DEF Good, RolesHeldByMembers
    <2>6. Phase(h) = Phase(g) /\ HasMap(h) /\ RecordedWhenOver(h)
      BY <2>2 DEF Good, HasMap, RecordedWhenOver, Phase
    <2>7. EveryoneHasTeam(h) /\ (~e => SoundTeams(h) /\ BalancedTeams(h))
      BY <2>2, <2>3, <2>6 DEF Good, EveryoneHasTeam, SoundTeams, BalancedTeams, Ghosts, Phase, Teams
    <2> QED
      BY <2>1, <2>2, <2>4, <2>5, <2>6, <2>7 DEF Good
  <1>3. CASE g.state > 0 /\ D \cap g.players # {}
    <2> DEFINE w == AwaitReplacement(g)
               o == TakeOffTeams(w, D)
               h == Unseat(o, D, a)
    <2>1. RemovePlayers(g, D, a) = h
      BY <1>3 DEF RemovePlayers
    <2>2. /\ w \in PugType
          /\ w.state = 5
          /\ w.prev = IF g.state = 5 THEN g.prev ELSE g.state
          /\ w.players = g.players /\ w.admin = g.admin
          /\ w.teams = g.teams /\ w.map = g.map /\ w.forced = g.forced
          /\ w.votes = g.votes /\ w.stats_done = g.stats_done
      BY AwaitReplacementFields
    <2> HIDE DEF w
    <2>3. /\ o \in PugType
          /\ \A t \in Teams : o.teams[t] = w.teams[t] \ {p \in D : OnTeam(w, p, t)}
          /\ o.state = w.state /\ o.prev = w.prev /\ o.players = w.players
          /\ o.admin = w.admin /\ o.map = w.map /\ o.forced = w.forced
          /\ o.votes = w.votes /\ o.stats_done = w.stats_done
      BY <2>2, TakeOffTeamsFields
    <2> HIDE DEF o
    <2>4. /\ h \in PugType
          /\ h.players = o.players \ D
          /\ h.admin = a
          /\ \A p \in Players : h.votes[p] = IF p \in D THEN NoMap ELSE o.votes[p]
          /\ h.state = o.state /\ h.prev = o.prev
          /\ h.teams = o.teams /\ h.map = o.map /\ h.forced = o.forced
          /\ h.stats_done = o.stats_done
      <3>1. a \in Players \cup {NoPlayer}
        BY <1>0
      <3> QED
        BY <2>3, <3>1 DEF Unseat, PugType
    <2> HIDE DEF h
    <2>5. RosterMatches(h)
      <3>1. h.players # g.players /\ h.players \in SUBSET g.players
        BY <1>3, <2>2, <2>3, <2>4
      <3>2. Cardinality(h.players) < Cardinality(g.players)
        BY <1>0, <3>1, FewerPlayers
      <3>3. Cardinality(h.players) \in Nat /\ Cardinality(g.players) \in Nat
        BY <1>0, <3>1, PlayerSets
      <3> QED
        BY <1>0, <1>3, <2>2, <2>3, <2>4, <3>2, <3>3, SizeAssumption
           DEF Good, RosterMatches, Full, States
    <2>6. RolesHeldByMembers(h)
      BY <1>1, <2>2, <2>3, <2>4 DEF Good, RolesHeldByMembers
    <2>7. Phase(h) = Phase(g) /\ HasMap(h) /\ RecordedWhenOver(h)
      BY <2>2, <2>3, <2>4 DEF Good, HasMap, RecordedWhenOver, Phase
    <2>9. EveryoneHasTeam(h)
      BY <2>2, <2>3, <2>4, <2>7 DEF Good, EveryoneHasTeam, Teams
    <2>8. ~e => SoundTeams(h) /\ BalancedTeams(h)
      <3> SUFFICES ASSUME ~e
                   PROVE  SoundTeams(h) /\ BalancedTeams(h)
        OBVIOUS
      <3>1. SoundTeams(g) /\ BalancedTeams(g)
        BY DEF Good
      <3>2. \A t \in Teams : h.teams[t] = g.teams[t] \ D
        BY <2>2, <2>3, <2>4, <3>1, TeamAssumption DEF SoundTeams, Ghosts, OnTeam, Teams
      <3>3. SoundTeams(h)
        BY <2>2, <2>3, <2>4, <2>7, <3>1, <3>2 DEF SoundTeams, Ghosts, Teams
      <3>4. BalancedTeams(h)
        <4> SUFFICES ASSUME Phase(h) = 3
                     PROVE  /\ h.players = h.teams["red"] \cup h.teams["blue"]
                            /\ \A t \in Teams :
                                 Cardinality(h.teams[t]) <= (Size + 1) \div 2
          BY DEF BalancedTeams
        <4>1. /\ g.players = g.teams["red"] \cup g.teams["blue"]
              /\ \A t \in Teams : Cardinality(g.teams[t]) <= (Size + 1) \div 2
          BY <2>7, <3>1 DEF BalancedTeams
        <4>2. h.players = h.teams["red"] \cup h.teams["blue"]
          BY <2>2, <2>3, <2>4, <3>2, <4>1 DEF Teams
        <4>3. ASSUME NEW t \in Teams
              PROVE  Cardinality(h.teams[t]) <= (Size + 1) \div 2
          <5>1. g.teams[t] \in SUBSET Players
            BY <1>0 DEF Teams
          <5>2. h.teams[t] \in SUBSET g.teams[t]
            BY <3>2
          <5>3. /\ Cardinality(h.teams[t]) <= Cardinality(g.teams[t])
                /\ Cardinality(h.teams[t]) \in Nat /\ Cardinality(g.teams[t]) \in Nat
            BY <5>1, <5>2, FewerPlayers, PlayerSets
          <5> QED
            BY <4>1, <5>3, SizeAssumption
        <4> QED
          BY <4>2, <4>3
      <3> QED
        BY <3>3, <3>4
    <2> QED
      BY <2>1, <2>2, <2>3, <2>4, <2>5, <2>6, <2>7, <2>8, <2>9 DEF Good
  <1> QED
    BY <1>2, <1>3

(* The end of the vote and the shuffle.                                    *)
LEMMA EndMapVoteGood ==
  ASSUME NEW g \in PugType, NEW m \in Maps, NEW e \in BOOLEAN,
         Good(g, e), g.state = MAP_VOTING
  PROVE  LET h == EndMapVote(g, m)
         IN  Good(h, e) /\ Phase(h) >= Phase(g) /\ h.state = MAPVOTE_COMPLETED
  <1> DEFINE h == EndMapVote(g, m)
  <1>1. /\ h \in PugType
        /\ h.map = m /\ h.state = 2
        /\ h.prev = g.prev /\ h.players = g.players /\ h.admin = g.admin
        /\ h.teams = g.teams /\ h.forced = g.forced
        /\ h.votes = g.votes /\ h.stats_done = g.stats_done
    BY EndMapVoteFields
  <1> HIDE DEF h
  <1>2. RosterMatches(h) /\ RolesHeldByMembers(h)
    BY <1>1 DEF Good, RosterMatches, RolesHeldByMembers, Full
  <1>3. Phase(h) = 2 /\ Phase(g) = 1
    BY <1>1 DEF Phase
  <1>4. HasMap(h) /\ RecordedWhenOver(h)
    BY <1>1, <1>3 DEF Good, HasMap, RecordedWhenOver
  <1>5. EveryoneHasTeam(h) /\ (~e => SoundTeams(h) /\ BalancedTeams(h))
    BY <1>1, <1>3 DEF Good, EveryoneHasTeam, SoundTeams, BalancedTeams, Ghosts
  <1> QED
    BY <1>1, <1>2, <1>3, <1>4, <1>5 DEF Good, h

(* A full pug without teams gets two disjoint halves.                      *)
LEMMA ShuffleTeamsGood ==
  ASSUME NEW g \in PugType, NEW R \in RedHalves(g), NEW e \in BOOLEAN,
         Good(g, e), g.state = MAPVOTE_COMPLETED
  PROVE  LET h == ShuffleTeams(g, R)
         IN  Good(h, e) /\ Phase(h) >= Phase(g)
  <1> DEFINE h == ShuffleTeams(g, R)
  <1>0. R \in SUBSET g.players /\ Cardinality(R) = (Size + 1) \div 2
    BY DEF RedHalves
  <1>1. /\ h \in PugType
        /\ h.teams["red"] = g.teams["red"] \cup R
        /\ h.teams["blue"] = g.teams["blue"] \cup (g.players \ R)
        /\ h.state = 3
        /\ h.prev = g.prev /\ h.players = g.players /\ h.admin = g.admin
        /\ h.map = g.map /\ h.forced = g.forced
        /\ h.votes = g.votes /\ h.stats_done = g.stats_done
    BY <1>0, ShuffleTeamsFields
  <1> HIDE DEF h
  <1>2. RosterMatches(h) /\ RolesHeldByMembers(h)
    BY <1>1 DEF Good, RosterMatches, RolesHeldByMembers, Full
  <1>3. Phase(h) = 3 /\ Phase(g) = 2
    BY <1>1 DEF Phase
  <1>4. HasMap(h) /\ RecordedWhenOver(h)
    BY <1>1, <1>3 DEF Good, HasMap, RecordedWhenOver
  <1>6. EveryoneHasTeam(h)
    BY <1>1 DEF EveryoneHasTeam
  <1>5. ~e => SoundTeams(h) /\ BalancedTeams(h)
    <2> SUFFICES ASSUME ~e
                 PROVE  SoundTeams(h) /\ BalancedTeams(h)
      OBVIOUS
    <2>1. g.teams["red"] = {} /\ g.teams["blue"] = {}
      BY <1>3 DEF Good, SoundTeams, Teams
    <2>2. h.teams["red"] = R /\ h.teams["blue"] = g.players \ R
      BY <1>1, <2>1
    <2>3. Cardinality(g.players \ R) <= (Size + 1) \div 2
      <3>1. g.players \in SUBSET Players /\ R \in SUBSET Players
            /\ g.players \ R \in SUBSET Players
        BY <1>0 DEF PugType
      <3>2. /\ Cardinality(R \cup (g.players \ R)) = Cardinality(R) + Cardinality(g.players \ R)
            /\ Cardinality(R) \in Nat /\ Cardinality(g.players \ R) \in Nat
        BY <3>1, TeamSizes
      <3>3. R \cup (g.players \ R) = g.players /\ Cardinality(g.players) = Size
        BY <1>0 DEF Good, RosterMatches, Full
      <3>4. Size = (Size + 1) \div 2 + Cardinality(g.players \ R)
        BY <1>0, <3>2, <3>3
      <3>5. 2 * ((Size + 1) \div 2) >= Size /\ (Size + 1) \div 2 \in Int
        BY SizeAssumption
      <3> QED
        BY <3>2, <3>4, <3>5, SizeAssumption
    <2>4. (Size + 1) \div 2 \in Int
      BY SizeAssumption
    <2>5. SoundTeams(h)
      BY <1>0, <1>1, <1>3, <2>2 DEF SoundTeams, Ghosts
    <2>6. h.players = h.teams["red"] \cup h.teams["blue"]
      BY <1>0, <1>1, <2>2
    <2>7. \A t \in Teams : Cardinality(h.teams[t]) <= (Size + 1) \div 2
      <3>1. Cardinality(h.teams["red"]) <= (Size + 1) \div 2
        BY <1>0, <2>2, <2>4
      <3>2. Cardinality(h.teams["blue"]) <= (Size + 1) \div 2
        BY <2>2, <2>3
      <3> QED
        BY <3>1, <3>2 DEF Teams
    <2> QED
      BY <2>5, <2>6, <2>7 DEF BalancedTeams
  <1> QED
    BY <1>1, <1>2, <1>3, <1>4, <1>5, <1>6 DEF Good, h

(* Starting a game keeps Good.                                             *)
LEMMA BeginGameGood ==
  ASSUME NEW g \in PugType, NEW e \in BOOLEAN, Good(g, e)
  PROVE  Good(BeginGame(g), e) /\ Phase(BeginGame(g)) >= Phase(g)
  <1>0. g.state \in States /\ g.prev \in States /\ Phase(g) \in Int
    BY DEF PugType, States, Phase
  <1>1. CASE GameStarted(g)
    BY <1>0, <1>1 DEF BeginGame
  <1>2. CASE ~GameStarted(g)
    <2> DEFINE h == BeginGame(g)
    <2>1. /\ h \in PugType
          /\ h.state = 4
          /\ h.prev = g.prev /\ h.players = g.players /\ h.admin = g.admin
          /\ h.teams = g.teams /\ h.map = g.map /\ h.forced = g.forced
          /\ h.votes = g.votes /\ h.stats_done = g.stats_done
      BY <1>2, BeginGameFields
    <2> HIDE DEF h
    <2>2. Phase(h) = 4 /\ Phase(g) < 4
      BY <1>0, <1>2, <2>1 DEF Phase, GameStarted
    <2>3. RosterMatches(h) /\ RolesHeldByMembers(h)
      BY <2>1 DEF Good, RosterMatches, RolesHeldByMembers
    <2>4. HasMap(h) /\ RecordedWhenOver(h)
      BY <2>1, <2>2 DEF Good, HasMap, RecordedWhenOver
    <2>5. EveryoneHasTeam(h) /\ (~e => SoundTeams(h) /\ BalancedTeams(h))
      BY <2>1, <2>2 DEF Good, EveryoneHasTeam, SoundTeams, BalancedTeams, Ghosts
    <2> QED
      BY <1>0, <2>1, <2>2, <2>3, <2>4, <2>5 DEF Good, h
  <1> QED
    BY <1>1, <1>2

(* Ending a game keeps Good.                                               *)
LEMMA EndGameGood ==
  ASSUME NEW g \in PugType, NEW e \in BOOLEAN, Good(g, e)
  PROVE  Good(EndGame(g), e) /\ Phase(EndGame(g)) >= Phase(g)
  <1> DEFINE h == EndGame(g)
  <1>1. /\ h \in PugType
        /\ h.state = 6
        /\ h.prev = g.prev /\ h.players = g.players /\ h.admin = g.admin
        /\ h.teams = g.teams /\ h.map = g.map /\ h.forced = g.forced
        /\ h.votes = g.votes /\ h.stats_done = g.stats_done
    BY EndGameFields
  <1> HIDE DEF h
  <1>2. Phase(h) = 6 /\ Phase(g) \in 0 .. 6
    BY <1>1 DEF Phase, PugType, States
  <1>3. RosterMatches(h) /\ RolesHeldByMembers(h)
    BY <1>1 DEF Good, RosterMatches, RolesHeldByMembers
  <1>4. HasMap(h) /\ RecordedWhenOver(h)
    BY <1>1, <1>2 DEF Good, HasMap, RecordedWhenOver
  <1>5. EveryoneHasTeam(h) /\ (~e => SoundTeams(h) /\ BalancedTeams(h))
    BY <1>1, <1>2 DEF Good, EveryoneHasTeam, SoundTeams, BalancedTeams, Ghosts
  <1> QED
    BY <1>1, <1>2, <1>3, <1>4, <1>5 DEF Good, h

-----------------------------------------------------------------------------
(* Every action keeps the invariant and does not lower the phase.          *)

Inv == Good(pug, early) /\ listed \in BOOLEAN /\ early \in BOOLEAN

Kept == Inv' /\ (listed /\ listed' => Phase(pug') >= Phase(pug))

(* Phases can be compared.                                                 *)
LEMMA PhaseIsNumber ==
  ASSUME NEW g \in PugType
  PROVE  Phase(g) \in Int
  BY DEF Phase, PugType, States

(* A step that leaves the pug listed, with an object that is still good.   *)
LEMMA GoodStep ==
  ASSUME Inv, NEW h, Good(h, early), Phase(h) >= Phase(pug),
         pug' = h, UNCHANGED <<listed, early>>
  PROVE  Kept
  BY DEF Kept, Inv

(* A step that touches only fields that Good does not read.                *)
LEMMA IdleStep ==
  ASSUME Inv, NEW h \in PugType, Core(h) = Core(pug),
         pug' = h, UNCHANGED <<listed, early>>
  PROVE  Kept
  <1>1. pug \in PugType
    BY DEF Inv, Good
  <1>2. Good(h, early) /\ Phase(h) = Phase(pug) /\ Phase(pug) \in Int
    BY <1>1, SameCore, PhaseIsNumber DEF Inv
  <1> QED
    BY <1>2, GoodStep

(* A pug whose end raised at its flush is over, and good if it was.        *)
LEMMA AbandonedGood ==
  ASSUME NEW g \in PugType, NEW e \in BOOLEAN, Good(g, e)
  PROVE  LET h == Abandoned(g)
         IN  /\ Good(h, e) /\ h \in PugType
             /\ h.state = 6 /\ Phase(h) = 6 /\ Phase(h) >= Phase(g)
             /\ h.server = "released"
  <1> DEFINE d == IF Phase(g) = 6 THEN g.due ELSE g.due \cup {"grace"}
             h == Abandoned(g)
  <1>1. d \in SUBSET Clocks /\ 6 \in States /\ "released" \in ServerStates
    BY DEF PugType, Clocks, States, ServerStates
  <1>2. h = [g EXCEPT !.server = "released", !.state = 6, !.due = d]
    BY DEF Abandoned
  <1> HIDE DEF d, h
  <1>3. /\ h \in PugType
        /\ h.state = 6 /\ h.server = "released"
        /\ h.prev = g.prev /\ h.players = g.players /\ h.admin = g.admin
        /\ h.teams = g.teams /\ h.map = g.map /\ h.forced = g.forced
        /\ h.votes = g.votes /\ h.stats_done = g.stats_done
    BY <1>1, <1>2 DEF PugType
  <1>4. Phase(h) = 6 /\ Phase(g) \in 0 .. 6
    BY <1>3 DEF Phase, PugType, States
  <1>5. RosterMatches(h) /\ RolesHeldByMembers(h)
    BY <1>3 DEF Good, RosterMatches, RolesHeldByMembers
  <1>6. HasMap(h) /\ RecordedWhenOver(h)
    BY <1>3, <1>4 DEF Good, HasMap, RecordedWhenOver
  <1>7. EveryoneHasTeam(h) /\ (~e => SoundTeams(h) /\ BalancedTeams(h))
    BY <1>3, <1>4 DEF Good, EveryoneHasTeam, SoundTeams, BalancedTeams, Ghosts
  <1> QED
    BY <1>3, <1>4, <1>5, <1>6, <1>7 DEF Good, h

(* Ending a pug, or failing to, from a good object.                        *)
LEMMA EndPugStep ==
  ASSUME Inv, NEW g \in PugType, Good(g, early), Phase(g) >= Phase(pug), EndPug(g)
  PROVE  Kept
  <1>1. CASE pug' = Gone /\ listed' = FALSE /\ early' = early
    <2>1. Good(Gone, FALSE)
      BY NewPugGood DEF Gone
    <2> QED
      BY <1>1, <2>1 DEF Kept, Inv, Good
  <1>2. CASE pug' = Released(g) /\ listed' = TRUE /\ early' = early
    <2> DEFINE h == Released(g)
    <2>1. h \in PugType /\ Core(h) = Core(g)
      BY DEF Released, PugType, ServerStates, Core
    <2> HIDE DEF h
    <2>2. Good(h, early) /\ Phase(h) = Phase(g)
      BY <2>1, SameCore DEF Inv
    <2> QED
      BY <1>2, <2>2 DEF Kept, Inv, h
  <1>3. CASE pug' = Abandoned(g) /\ listed' = TRUE /\ early' = early
    <2> DEFINE h == Abandoned(g)
    <2>1. Good(h, early) /\ Phase(h) = 6 /\ Phase(pug) \in 0 .. 6
      BY AbandonedGood DEF Inv, Good, PugType, States, Phase
    <2> HIDE DEF h
    <2> QED
      BY <1>3, <2>1 DEF Kept, Inv, h
  <1> QED
    BY <1>1, <1>2, <1>3 DEF EndPug

(* check_disconnects, from a good object of no earlier phase.              *)
LEMMA CheckDisconnectsStep ==
  ASSUME Inv, NEW g \in PugType, Good(g, early), Phase(g) >= Phase(pug), CheckDisconnects(g)
  PROVE  Kept
  <1>1. PICK late \in LateEntries(g) :
          LET D == {p \in Players : late[p] > 0}
          IN  \E a \in NextAdmins(g, D) :
                LET h == [RemovePlayers(g, D, a) EXCEPT
                            !.disc = [p \in Players |-> g.disc[p] - late[p]]]
                IN  IF h.players = {} /\ \E p \in Players : g.disc[p] > 0
                    THEN EndPug(h)
                    ELSE pug' = h /\ UNCHANGED <<listed, early>>
    BY DEF CheckDisconnects
  <1> DEFINE D == {p \in Players : late[p] > 0}
             disc == [p \in Players |-> g.disc[p] - late[p]]
  <1>2. PICK a \in NextAdmins(g, D) :
          LET h == [RemovePlayers(g, D, a) EXCEPT !.disc = disc]
          IN  IF h.players = {} /\ \E p \in Players : g.disc[p] > 0
              THEN EndPug(h)
              ELSE pug' = h /\ UNCHANGED <<listed, early>>
    BY <1>1
  <1>3. disc \in [Players -> Nat]
    BY DEF LateEntries, PugType
  <1>4. D \in SUBSET Players
    OBVIOUS
  <1> HIDE DEF D, disc
  <1> DEFINE r == RemovePlayers(g, D, a)
             h == [r EXCEPT !.disc = disc]
  <1>5. Good(r, early) /\ Phase(r) = Phase(g)
    BY <1>4, RemovePlayersGood DEF Inv
  <1> HIDE DEF r
  <1>6. h \in PugType /\ Core(h) = Core(r) /\ r \in PugType
    BY <1>3, <1>5 DEF Good, PugType, Core
  <1>7. EndPug(h) \/ (pug' = h /\ UNCHANGED <<listed, early>>)
    BY <1>2 DEF r
  <1> HIDE DEF h
  <1>8. Good(h, early) /\ Phase(h) = Phase(r)
    BY <1>5, <1>6, SameCore DEF Inv
  <1> QED
    BY <1>5, <1>6, <1>7, <1>8, EndPugStep, GoodStep

(* The shuffle and what follows it, from a completed vote.                 *)
LEMMA ShuffleStep ==
  ASSUME Inv, NEW g \in PugType, Good(g, early), Phase(g) >= Phase(pug),
         g.state = MAPVOTE_COMPLETED, ShuffleAndChangeMap(g)
  PROVE  Kept
  <1>1. PICK R \in RedHalves(g) :
          \/ CheckDisconnects(SetupConnectTimer(ShuffleTeams(g, R)))
          \/ pug' = ShuffleTeams(g, R) /\ UNCHANGED <<listed, early>>
    BY DEF ShuffleAndChangeMap
  <1> DEFINE s == ShuffleTeams(g, R)
             h == SetupConnectTimer(s)
  <1>2. Good(s, early) /\ Phase(s) >= Phase(g)
    BY ShuffleTeamsGood DEF Inv
  <1>3. s \in PugType /\ pug \in PugType
    BY <1>2 DEF Good, Inv
  <1> HIDE DEF s
  <1>4. h \in PugType /\ Core(h) = Core(s)
    BY <1>3, SetupConnectTimerFields
  <1> HIDE DEF h
  <1>5. Good(h, early) /\ Phase(h) = Phase(s)
    BY <1>2, <1>3, <1>4, SameCore DEF Inv
  <1>6. Phase(s) >= Phase(pug) /\ Phase(h) >= Phase(pug)
    BY <1>2, <1>3, <1>5, PhaseIsNumber
  <1>7. CheckDisconnects(h) \/ (pug' = s /\ UNCHANGED <<listed, early>>)
    BY <1>1 DEF h, s
  <1> QED
    BY <1>2, <1>3, <1>4, <1>5, <1>6, <1>7, CheckDisconnectsStep, GoodStep

(* The status check, branch by branch.                                     *)
LEMMA StatusCheckStep ==
  ASSUME Inv, StatusCheck
  PROVE  Kept
  <1>0. /\ pug \in PugType /\ Good(pug, early) /\ early \in BOOLEAN
        /\ Phase(pug) \in Int /\ Phase(pug) >= Phase(pug)
    BY PhaseIsNumber DEF Inv, Good
  <1>1. CASE CheckMapVote
    <2>1. PICK m \in VoteWinners(pug) : ShuffleAndChangeMap(EndMapVote(pug, m))
      BY <1>1 DEF CheckMapVote
    <2>2. pug.state = MAP_VOTING
      BY <1>1 DEF CheckMapVote
    <2>3. m \in Maps
      BY <1>0, <2>2 DEF VoteWinners, Good, HasMap
    <2> DEFINE h == EndMapVote(pug, m)
    <2>4. Good(h, early) /\ Phase(h) >= Phase(pug) /\ h.state = MAPVOTE_COMPLETED
      BY <1>0, <2>2, <2>3, EndMapVoteGood
    <2> HIDE DEF h
    <2>5. h \in PugType
      BY <2>4 DEF Good
    <2>6. ShuffleAndChangeMap(h)
      BY <2>1 DEF h
    <2> QED
      BY <2>4, <2>5, <2>6, ShuffleStep
  <1>2. CASE CheckVoteCompleted
    BY <1>0, <1>2, ShuffleStep DEF CheckVoteCompleted
  <1>3. CASE CheckGameOver
    <2> DEFINE h == [pug EXCEPT !.stats_done = TRUE]
    <2>1. /\ pug.state = GAME_OVER
          /\ \/ EndPug(h)
             \/ CheckDisconnects(h)
             \/ pug' = h /\ UNCHANGED <<listed, early>>
      BY <1>3 DEF CheckGameOver, StatsRaise, Close
    <2>2. /\ h \in PugType
          /\ h.state = pug.state /\ h.prev = pug.prev /\ h.players = pug.players
          /\ h.admin = pug.admin /\ h.teams = pug.teams /\ h.map = pug.map
          /\ h.forced = pug.forced /\ h.votes = pug.votes
      BY <1>0 DEF PugType
    <2> HIDE DEF h
    <2>3. Phase(h) = Phase(pug) /\ Phase(h) = 6
      BY <2>1, <2>2 DEF Phase
    <2>4. Good(h, early)
      BY <1>0, <2>2, <2>3 DEF Good, RosterMatches, Full, RolesHeldByMembers, HasMap,
         RecordedWhenOver, EveryoneHasTeam, SoundTeams, Ghosts, BalancedTeams
    <2> QED
      BY <1>0, <2>1, <2>2, <2>3, <2>4, EndPugStep, CheckDisconnectsStep, GoodStep
  <1>4. CASE CheckGathering
    BY <1>0, <1>4, EndPugStep DEF CheckGathering
  <1>5. CASE CheckReplacement
    BY <1>0, <1>5, EndPugStep DEF CheckReplacement
  <1>6. CASE CheckOther
    BY <1>0, <1>6, CheckDisconnectsStep DEF CheckOther
  <1> QED
    BY <1>1, <1>2, <1>3, <1>4, <1>5, <1>6 DEF StatusCheck

(* The calls of the API.                                                   *)
LEMMA CreateStep ==
  ASSUME Inv, NEW p \in Players, NEW m \in Maps \cup {NoMap}, Create(p, m)
  PROVE  Kept
  <1> DEFINE n == NewPug(m)
             g == AddPlayer(n, p, FirstTeam)
  <1>1. n \in PugType /\ Good(n, FALSE)
    BY NewPugGood, NewPugFields
  <1>2. /\ n.state = 0 /\ n.players = {} /\ n.teams = [t \in Teams |-> {}]
    BY DEF NewPug
  <1>3. FirstTeam \in ShorterTeams(n) /\ ~Full(n)
    BY <1>2, FS_EmptySet, TeamAssumption, SizeAssumption DEF ShorterTeams, Teams, Full
  <1> HIDE DEF n
  <1>4. Good(g, FALSE)
    <2>1. Good(g, FALSE \/ (n.state = REPLACEMENT_REQUIRED /\ n.prev < TEAMS_SHUFFLED))
      BY <1>1, <1>2, <1>3, AddPlayerGood
    <2>2. (FALSE \/ (n.state = REPLACEMENT_REQUIRED /\ n.prev < TEAMS_SHUFFLED)) = FALSE
      BY <1>2
    <2> QED
      BY <2>1, <2>2
  <1> HIDE DEF g
  <1>5. PICK ok \in CallOutcomes :
          pug' = [g EXCEPT !.server = IF ok THEN "ready" ELSE "silent"]
    BY DEF Create, g, n
  <1>6. g \in PugType
    BY <1>4 DEF Good
  <1>7. pug' \in PugType /\ Core(pug') = Core(g)
    BY <1>5, <1>6 DEF PugType, ServerStates, Core
  <1>8. Good(pug', FALSE)
    BY <1>4, <1>6, <1>7, SameCore
  <1> QED
    BY <1>8 DEF Create, Kept, Inv

(* Joining, as a new player or as a replacement.                           *)
LEMMA JoinStep ==
  ASSUME Inv, NEW p \in Players, Join(p)
  PROVE  Kept
  <1>1. PICK t \in ShorterTeams(pug) : pug' = AddPlayer(pug, p, t)
    BY DEF Join
  <1>2. /\ pug \in PugType /\ Good(pug, early) /\ early \in BOOLEAN
        /\ p \in Players \ pug.players /\ ~Full(pug)
        /\ UNCHANGED listed
        /\ early' = (early \/ (pug.state = REPLACEMENT_REQUIRED /\ pug.prev < TEAMS_SHUFFLED))
    BY DEF Inv, Good, Join
  <1>3. Good(pug', early') /\ Phase(pug') >= Phase(pug)
    BY <1>1, <1>2, AddPlayerGood
  <1> QED
    BY <1>2, <1>3 DEF Kept, Inv

(* Leaving, which may end the pug.                                         *)
LEMMA LeaveStep ==
  ASSUME Inv, NEW p \in Players, Leave(p)
  PROVE  Kept
  <1>1. PICK a \in NextAdmins(pug, {p}) :
          LET g == RemovePlayers(pug, {p}, a)
          IN  IF g.players = {} THEN EndPug(g)
              ELSE pug' = g /\ UNCHANGED <<listed, early>>
    BY DEF Leave
  <1> DEFINE g == RemovePlayers(pug, {p}, a)
  <1>2. pug \in PugType /\ Good(pug, early) /\ early \in BOOLEAN /\ Phase(pug) \in Int
    BY PhaseIsNumber DEF Inv, Good
  <1>3. Good(g, early) /\ Phase(g) = Phase(pug)
    BY <1>2, RemovePlayersGood
  <1>4. EndPug(g) \/ (pug' = g /\ UNCHANGED <<listed, early>>)
    BY <1>1
  <1> HIDE DEF g
  <1>5. g \in PugType /\ Phase(g) >= Phase(pug)
    BY <1>2, <1>3 DEF Good
  <1> QED
    BY <1>3, <1>4, <1>5, EndPugStep, GoodStep

(* Voting, while the vote runs.                                            *)
LEMMA VoteMapStep ==
  ASSUME Inv, NEW p \in Players, NEW m \in Maps, VoteMap(p, m)
  PROVE  Kept
  <1> DEFINE h == [pug EXCEPT !.votes[p] = m]
  <1>1. pug \in PugType /\ Good(pug, early) /\ Phase(pug) \in Int
    BY PhaseIsNumber DEF Inv, Good
  <1>2. /\ h \in PugType
        /\ \A q \in Players : h.votes[q] = IF q = p THEN m ELSE pug.votes[q]
        /\ h.state = pug.state /\ h.prev = pug.prev /\ h.players = pug.players
        /\ h.admin = pug.admin /\ h.teams = pug.teams /\ h.map = pug.map
        /\ h.forced = pug.forced /\ h.stats_done = pug.stats_done
    BY <1>1 DEF PugType
  <1>3. p \in pug.players /\ pug' = h /\ UNCHANGED <<listed, early>>
    BY DEF VoteMap
  <1> HIDE DEF h
  <1>4. Phase(h) = Phase(pug)
    BY <1>2 DEF Phase
  <1>5. Good(h, early)
    BY <1>1, <1>2, <1>3, <1>4 DEF Good, RosterMatches, Full, RolesHeldByMembers, HasMap,
       RecordedWhenOver, EveryoneHasTeam, SoundTeams, Ghosts, BalancedTeams
  <1> QED
    BY <1>1, <1>3, <1>4, <1>5, GoodStep

(* Forcing a map, while the pug gathers players.                           *)
LEMMA ForceMapStep ==
  ASSUME Inv, NEW m \in Maps, ForceMap(m)
  PROVE  Kept
  <1> DEFINE h == [pug EXCEPT !.forced = TRUE, !.map = m]
  <1>1. pug \in PugType /\ Good(pug, early) /\ Phase(pug) \in Int
    BY PhaseIsNumber DEF Inv, Good
  <1>2. /\ h \in PugType
        /\ h.map = m
        /\ h.state = pug.state /\ h.prev = pug.prev /\ h.players = pug.players
        /\ h.admin = pug.admin /\ h.teams = pug.teams /\ h.votes = pug.votes
        /\ h.stats_done = pug.stats_done
    BY <1>1 DEF PugType
  <1>3. pug.state = 0 /\ pug' = h /\ UNCHANGED <<listed, early>>
    BY DEF ForceMap
  <1> HIDE DEF h
  <1>4. Phase(h) = Phase(pug) /\ Phase(h) = 0
    BY <1>2, <1>3 DEF Phase
  <1>5. Good(h, early)
    BY <1>1, <1>2, <1>3, <1>4 DEF Good, RosterMatches, Full, RolesHeldByMembers, HasMap,
       RecordedWhenOver, EveryoneHasTeam, SoundTeams, Ghosts, BalancedTeams
  <1> QED
    BY <1>1, <1>3, <1>4, <1>5, GoodStep

(* The log lines, and the passing of time.                                 *)
LEMMA GameLineStep ==
  ASSUME Inv, RoundStart \/ AdminStart \/ GameOver
  PROVE  Kept
  <1>1. /\ pug \in PugType /\ Good(pug, early) /\ early \in BOOLEAN
        /\ UNCHANGED <<listed, early>>
    BY DEF Inv, Good, RoundStart, AdminStart, GameOver, LogLine
  <1>2. CASE pug' = BeginGame(pug)
    BY <1>1, <1>2, BeginGameGood, GoodStep
  <1>3. CASE pug' = EndGame(pug)
    BY <1>1, <1>3, EndGameGood, GoodStep
  <1> QED
    BY <1>2, <1>3 DEF RoundStart, AdminStart, GameOver

(* Connects and disconnects change entries only.                           *)
LEMMA ConnectionStep ==
  ASSUME Inv, NEW p \in Players, Connect(p) \/ Disconnect(p)
  PROVE  Kept
  <1>1. pug \in PugType /\ UNCHANGED <<listed, early>>
    BY DEF Inv, Good, Connect, Disconnect, LogLine
  <1>2. PICK n \in Nat : pug' = [pug EXCEPT !.disc[p] = n]
    <2>1. pug.disc[p] + 1 \in Nat
      BY <1>1 DEF PugType
    <2> QED
      BY <2>1 DEF Connect, Disconnect
  <1> DEFINE h == [pug EXCEPT !.disc[p] = n]
  <1>3. h \in PugType /\ Core(h) = Core(pug)
    BY <1>1 DEF PugType, Core
  <1>4. pug' = h
    BY <1>2
  <1> HIDE DEF h
  <1> QED
    BY <1>1, <1>3, <1>4, IdleStep

(* The passing of time changes no field that Good reads.                   *)
LEMMA TimeStep ==
  ASSUME Inv, (\E c \in Clocks : Passes(c)) \/ GameAges
  PROVE  Kept
  <1>1. pug \in PugType
    BY DEF Inv, Good
  <1>2. ASSUME NEW c \in Clocks, Passes(c)
        PROVE  Kept
    <2> DEFINE h == [pug EXCEPT !.due = @ \cup {c}]
    <2>1. h \in PugType /\ Core(h) = Core(pug)
      BY <1>1 DEF PugType, Core
    <2>2. pug' = h /\ UNCHANGED <<listed, early>>
      BY <1>2 DEF Passes
    <2> HIDE DEF h
    <2> QED
      BY <2>1, <2>2, IdleStep
  <1>3. CASE GameAges
    <2> DEFINE h == [pug EXCEPT !.young = FALSE]
    <2>1. h \in PugType /\ Core(h) = Core(pug)
      BY <1>1 DEF PugType, Core
    <2>2. pug' = h /\ UNCHANGED <<listed, early>>
      BY <1>3 DEF GameAges
    <2> HIDE DEF h
    <2> QED
      BY <2>1, <2>2, IdleStep
  <1> QED
    BY <1>2, <1>3

(* Every step, action by action.                                           *)
LEMMA NextStep ==
  ASSUME Inv, [Next]_vars
  PROVE  Kept
  <1>1. CASE UNCHANGED vars
    BY <1>1, PhaseIsNumber DEF vars, Kept, Inv, Good
  <1>2. ASSUME NEW p \in Players, NEW m \in Maps \cup {NoMap}, Create(p, m)
        PROVE  Kept
    BY <1>2, CreateStep
  <1>3. ASSUME NEW p \in Players, Join(p) \/ Leave(p) \/ Connect(p) \/ Disconnect(p)
        PROVE  Kept
    BY <1>3, JoinStep, LeaveStep, ConnectionStep
  <1>4. ASSUME NEW p \in Players, NEW m \in Maps, VoteMap(p, m)
        PROVE  Kept
    BY <1>4, VoteMapStep
  <1>5. ASSUME NEW m \in Maps, ForceMap(m)
        PROVE  Kept
    BY <1>5, ForceMapStep
  <1>6. CASE ForceEnd
    <2>1. pug \in PugType /\ Good(pug, early) /\ Phase(pug) >= Phase(pug)
      BY PhaseIsNumber DEF Inv, Good
    <2> QED
      BY <1>6, <2>1, EndPugStep DEF ForceEnd
  <1>7. CASE RoundStart \/ AdminStart \/ GameOver
    BY <1>7, GameLineStep
  <1>8. CASE (\E c \in Clocks : Passes(c)) \/ GameAges
    BY <1>8, TimeStep
  <1>9. CASE StatusCheck
    BY <1>9, StatusCheckStep
  <1> QED
    BY <1>1, <1>2, <1>3, <1>4, <1>5, <1>6, <1>7, <1>8, <1>9 DEF Next

-----------------------------------------------------------------------------
(* A listed pug has players, unless its end raised half way.               *)

(* What every handler leaves: a pug that is gone, or inhabited.            *)
StaysInhabited == listed' => Inhabited(pug')

(* An end that raises leaves the pug without its server, as it may be.     *)
LEMMA EndPugInhabited ==
  ASSUME NEW g \in PugType, EndPug(g)
  PROVE  StaysInhabited
  <1>1. Released(g).server = "released" /\ Abandoned(g).server = "released"
    BY DEF Released, Abandoned, PugType
  <1>2. listed' => FALSE \in CallOutcomes /\ pug' \in {Released(g), Abandoned(g)}
    <2>1. PICK ok \in CallOutcomes :
            \/ ok /\ listed' = FALSE
            \/ ~ok /\ pug' \in {Released(g), Abandoned(g)}
      BY DEF EndPug
    <2>2. CASE ok = TRUE
      BY <2>1, <2>2
    <2>3. CASE ok = FALSE
      BY <2>1, <2>3
    <2> QED
      BY <2>2, <2>3, CallsAssumption
  <1>3. FALSE \in CallOutcomes => CallOutcomes # {TRUE}
    OBVIOUS
  <1>4. listed' => pug'.server = "released"
    BY <1>1, <1>2
  <1> QED
    BY <1>2, <1>3, <1>4 DEF StaysInhabited, Inhabited

(* One who joins is in the pug, whose server stays as it is.               *)
LEMMA AddPlayerInhabits ==
  ASSUME NEW g \in PugType, NEW p \in Players, NEW t \in Teams
  PROVE  /\ AddPlayer(g, p, t) \in PugType
         /\ p \in AddPlayer(g, p, t).players
         /\ AddPlayer(g, p, t).server = g.server
  <1> DEFINE k == Seat(g, p)
             h == AddToTeam(k, p, t)
  <1>1. k \in PugType /\ p \in k.players /\ k.server = g.server
    BY SeatFields
  <1> HIDE DEF k
  <1>2. h \in PugType /\ p \in h.players /\ h.server = g.server
    BY <1>1, AddToTeamFields
  <1> HIDE DEF h
  <1>3. Resume(h) \in PugType /\ p \in Resume(h).players /\ Resume(h).server = g.server
    BY <1>2, ResumeFields
  <1>4. /\ BeginMapVote(k) \in PugType
        /\ p \in BeginMapVote(k).players /\ BeginMapVote(k).server = g.server
    BY <1>1, BeginMapVoteFields
  <1>5. AddPlayer(g, p, t) \in {h, k, Resume(h), BeginMapVote(k)}
    BY DEF AddPlayer, Substitute, h, k
  <1> QED
    BY <1>1, <1>2, <1>3, <1>4, <1>5

(* Those who leave, or are taken out, are gone, and nobody else.           *)
LEMMA RemovePlayersLeaves ==
  ASSUME NEW g \in PugType, NEW D \in SUBSET Players, NEW a \in Players \cup {NoPlayer}
  PROVE  /\ RemovePlayers(g, D, a) \in PugType
         /\ RemovePlayers(g, D, a).players = g.players \ D
         /\ RemovePlayers(g, D, a).server = g.server
  <1> DEFINE w == AwaitReplacement(g)
             o == TakeOffTeams(w, D)
  <1>1. w \in PugType /\ w.players = g.players /\ w.server = g.server
    BY AwaitReplacementFields
  <1> HIDE DEF w
  <1>2. o \in PugType /\ o.players = g.players /\ o.server = g.server
    BY <1>1, TakeOffTeamsFields DEF TakeOffTeams, PugType
  <1> HIDE DEF o
  <1>3. ASSUME NEW x \in PugType
        PROVE  /\ Unseat(x, D, a) \in PugType
               /\ Unseat(x, D, a).players = x.players \ D
               /\ Unseat(x, D, a).server = x.server
    <2> DEFINE v == [p \in Players |-> IF p \in D THEN NoMap ELSE x.votes[p]]
    <2>1. v \in [Players -> Maps \cup {NoMap}]
      BY DEF PugType
    <2>2. Unseat(x, D, a) = [x EXCEPT !.players = x.players \ D, !.admin = a, !.votes = v]
      BY DEF Unseat
    <2> HIDE DEF v
    <2> QED
      BY <2>1, <2>2 DEF PugType
  <1>4. RemovePlayers(g, D, a) \in {Unseat(o, D, a), Unseat(g, D, a)}
    BY DEF RemovePlayers, o, w
  <1> QED
    BY <1>2, <1>3, <1>4

(* check_disconnects ends a pug that it leaves empty.                      *)
LEMMA CheckDisconnectsInhabited ==
  ASSUME NEW g \in PugType, Inhabited(g), CheckDisconnects(g)
  PROVE  StaysInhabited
  <1>1. PICK late \in LateEntries(g) :
          LET D == {p \in Players : late[p] > 0}
          IN  \E a \in NextAdmins(g, D) :
                LET h == [RemovePlayers(g, D, a) EXCEPT
                            !.disc = [p \in Players |-> g.disc[p] - late[p]]]
                IN  IF h.players = {} /\ \E p \in Players : g.disc[p] > 0
                    THEN EndPug(h)
                    ELSE pug' = h /\ UNCHANGED <<listed, early>>
    BY DEF CheckDisconnects
  <1> DEFINE D == {p \in Players : late[p] > 0}
             disc == [p \in Players |-> g.disc[p] - late[p]]
  <1>2. PICK a \in NextAdmins(g, D) :
          LET h == [RemovePlayers(g, D, a) EXCEPT !.disc = disc]
          IN  IF h.players = {} /\ \E p \in Players : g.disc[p] > 0
              THEN EndPug(h)
              ELSE pug' = h /\ UNCHANGED <<listed, early>>
    BY <1>1
  <1>3. (\A p \in Players : ~(g.disc[p] > 0)) => D = {}
    BY DEF LateEntries, PugType
  <1>4. D \in SUBSET Players
    OBVIOUS
  <1> HIDE DEF D, disc
  <1>5. a \in Players \cup {NoPlayer}
    BY DEF NextAdmins, PugType
  <1> DEFINE r == RemovePlayers(g, D, a)
  <1>6. r \in PugType /\ r.players = g.players \ D /\ r.server = g.server
    <2> HIDE DEF r
    <2>1. \A x \in Players \cup {NoPlayer} :
            /\ RemovePlayers(g, D, x) \in PugType
            /\ RemovePlayers(g, D, x).players = g.players \ D
            /\ RemovePlayers(g, D, x).server = g.server
      BY <1>4, RemovePlayersLeaves
    <2> QED
      BY <1>5, <2>1 DEF r
  <1> DEFINE h == [r EXCEPT !.disc = disc]
  <1>7. /\ EndPug(h) \/ (pug' = h /\ UNCHANGED <<listed, early>>)
        /\ h.players = {} /\ ~EndPug(h) => \A p \in Players : ~(g.disc[p] > 0)
    BY <1>2 DEF r
  <1> HIDE DEF r
  <1>8. h.players = g.players \ D /\ h.server = g.server /\ h \in PugType
    <2>1. disc \in [Players -> Nat]
      BY DEF LateEntries, PugType, disc
    <2> QED
      BY <1>6, <2>1 DEF PugType
  <1> HIDE DEF h
  <1>9. CASE EndPug(h)
    BY <1>8, <1>9, EndPugInhabited
  <1>10. CASE ~EndPug(h)
    BY <1>3, <1>7, <1>8, <1>10 DEF StaysInhabited, Inhabited
  <1> QED
    BY <1>9, <1>10

(* The shuffle and what follows it.                                        *)
LEMMA ShuffleInhabited ==
  ASSUME NEW g \in PugType, Good(g, early), early \in BOOLEAN, g.state = MAPVOTE_COMPLETED,
         Inhabited(g), ShuffleAndChangeMap(g)
  PROVE  StaysInhabited
  <1>1. PICK R \in RedHalves(g) :
          \/ CheckDisconnects(SetupConnectTimer(ShuffleTeams(g, R)))
          \/ pug' = ShuffleTeams(g, R) /\ UNCHANGED <<listed, early>>
    BY DEF ShuffleAndChangeMap
  <1> DEFINE s == ShuffleTeams(g, R)
             h == SetupConnectTimer(s)
  <1>2. s \in PugType /\ s.players = g.players /\ s.server = g.server
    BY ShuffleTeamsFields DEF RedHalves
  <1> HIDE DEF s
  <1>3. h \in PugType /\ h.players = s.players /\ h.server = s.server
    BY <1>2, SetupConnectTimerFields DEF Core, SetupConnectTimer, PugType
  <1> HIDE DEF h
  <1> QED
    BY <1>1, <1>2, <1>3, CheckDisconnectsInhabited DEF Inhabited, StaysInhabited, h, s

(* The status check, branch by branch.                                     *)
LEMMA StatusCheckInhabited ==
  ASSUME Inv, Inhabited(pug), StatusCheck
  PROVE  StaysInhabited
  <1>0. pug \in PugType /\ Good(pug, early) /\ early \in BOOLEAN
    BY DEF Inv, Good
  <1>1. CASE CheckMapVote
    <2>1. PICK m \in VoteWinners(pug) : ShuffleAndChangeMap(EndMapVote(pug, m))
      BY <1>1 DEF CheckMapVote
    <2>2. m \in Maps /\ pug.state = MAP_VOTING
      BY <1>0, <1>1 DEF CheckMapVote, VoteWinners, Good, HasMap
    <2> DEFINE h == EndMapVote(pug, m)
    <2>3. Good(h, early) /\ h.state = MAPVOTE_COMPLETED /\ h \in PugType
      BY <1>0, <2>2, EndMapVoteGood, EndMapVoteFields
    <2>4. h.players = pug.players /\ h.server = pug.server
      BY <1>0, <2>2, EndMapVoteFields DEF EndMapVote, PugType
    <2> HIDE DEF h
    <2> QED
      BY <1>0, <2>1, <2>3, <2>4, ShuffleInhabited DEF Inhabited, h
  <1>2. CASE CheckVoteCompleted
    BY <1>0, <1>2, ShuffleInhabited DEF CheckVoteCompleted
  <1>3. CASE CheckGameOver
    <2> DEFINE h == [pug EXCEPT !.stats_done = TRUE]
    <2>1. EndPug(h) \/ CheckDisconnects(h) \/ (pug' = h /\ UNCHANGED listed)
      BY <1>3 DEF CheckGameOver, StatsRaise, Close
    <2>2. h \in PugType /\ Inhabited(h)
      BY <1>0 DEF PugType, Inhabited
    <2> HIDE DEF h
    <2> QED
      BY <2>1, <2>2, CheckDisconnectsInhabited, EndPugInhabited DEF StaysInhabited
  <1>4. CASE CheckGathering \/ CheckReplacement
    BY <1>0, <1>4, EndPugInhabited DEF CheckGathering, CheckReplacement
  <1>5. CASE CheckOther
    BY <1>0, <1>5, CheckDisconnectsInhabited DEF CheckOther
  <1> QED
    BY <1>1, <1>2, <1>3, <1>4, <1>5 DEF StatusCheck

(* One player who leaves takes the server from nobody.                     *)
LEMMA OneLeaves ==
  ASSUME NEW g \in PugType, NEW p \in Players, NEW a \in Players \cup {NoPlayer}
  PROVE  RemovePlayers(g, {p}, a) \in PugType /\ RemovePlayers(g, {p}, a).server = g.server
  <1>1. {p} \in SUBSET Players
    OBVIOUS
  <1>2. \A D \in SUBSET Players : \A x \in Players \cup {NoPlayer} :
          /\ RemovePlayers(g, D, x) \in PugType
          /\ RemovePlayers(g, D, x).players = g.players \ D
          /\ RemovePlayers(g, D, x).server = g.server
    BY RemovePlayersLeaves
  <1> QED
    BY <1>1, <1>2

(* One who leaves is not the last, or ends the pug.                        *)
LEMMA LeaveInhabited ==
  ASSUME Inv, Inhabited(pug), NEW p \in Players, Leave(p)
  PROVE  StaysInhabited
  <1>1. PICK a \in NextAdmins(pug, {p}) :
          LET g == RemovePlayers(pug, {p}, a)
          IN  IF g.players = {} THEN EndPug(g)
              ELSE pug' = g /\ UNCHANGED <<listed, early>>
    BY DEF Leave
  <1> DEFINE g == RemovePlayers(pug, {p}, a)
  <1>2. pug \in PugType /\ a \in Players \cup {NoPlayer}
    BY DEF Inv, Good, NextAdmins, PugType
  <1>3. g \in PugType /\ g.server = pug.server
    BY <1>2, OneLeaves
  <1> HIDE DEF g
  <1> QED
    BY <1>1, <1>3, EndPugInhabited DEF StaysInhabited, Inhabited, g

(* Every step keeps it.                                                    *)
LEMMA NextInhabited ==
  ASSUME Inv, ListedPugIsInhabited, [Next]_vars
  PROVE  ListedPugIsInhabited'
  <1> SUFFICES StaysInhabited
    BY DEF ListedPugIsInhabited, StaysInhabited, Inhabited
  <1>0. pug \in PugType /\ (listed => Inhabited(pug))
    BY DEF Inv, Good, ListedPugIsInhabited
  <1>1. CASE UNCHANGED vars
    BY <1>0, <1>1 DEF vars, StaysInhabited, Inhabited
  <1>2. ASSUME NEW p \in Players, NEW m \in Maps \cup {NoMap}, Create(p, m)
        PROVE  StaysInhabited
    <2> DEFINE n == NewPug(m)
               g == AddPlayer(n, p, FirstTeam)
    <2>1. n \in PugType /\ n.server = "ready"
      BY NewPugFields DEF NewPug
    <2> HIDE DEF n
    <2>2. g \in PugType /\ p \in g.players
      BY <2>1, AddPlayerInhabits, TeamAssumption DEF Teams
    <2>3. PICK ok \in CallOutcomes :
            pug' = [g EXCEPT !.server = IF ok THEN "ready" ELSE "silent"]
      BY <1>2 DEF Create, n
    <2> HIDE DEF g
    <2>4. /\ pug'.players = g.players
          /\ pug'.server = IF ok THEN "ready" ELSE "silent"
      BY <2>2, <2>3 DEF PugType
    <2>5. CallOutcomes = {TRUE} => ok = TRUE
      OBVIOUS
    <2>6. pug'.players # {} /\ (CallOutcomes = {TRUE} => pug'.server = "ready")
      BY <2>2, <2>4, <2>5
    <2> QED
      BY <2>6 DEF Inhabited, StaysInhabited
  <1>3. ASSUME NEW p \in Players, Join(p)
        PROVE  StaysInhabited
    <2>1. PICK t \in ShorterTeams(pug) : pug' = AddPlayer(pug, p, t)
      BY <1>3 DEF Join
    <2> QED
      BY <1>0, <1>3, <2>1, AddPlayerInhabits DEF Join, ShorterTeams, StaysInhabited, Inhabited
  <1>4. ASSUME NEW p \in Players, Leave(p)
        PROVE  StaysInhabited
    BY <1>0, <1>4, LeaveInhabited DEF Leave
  <1>5. CASE \/ \E p \in Players : Connect(p) \/ Disconnect(p)
             \/ \E p \in Players, m \in Maps : VoteMap(p, m)
             \/ \E m \in Maps : ForceMap(m)
             \/ \E c \in Clocks : Passes(c)
             \/ GameAges
    <2> DEFINE Same == /\ pug'.players = pug.players
                       /\ pug'.server = pug.server
                       /\ listed' = listed
    <2>1. ASSUME NEW p \in Players, Connect(p) \/ Disconnect(p)
          PROVE  Same
      BY <1>0, <2>1 DEF Connect, Disconnect, LogLine, PugType
    <2>2. ASSUME NEW p \in Players, NEW m \in Maps, VoteMap(p, m)
          PROVE  Same
      BY <1>0, <2>2 DEF VoteMap, PugType
    <2>3. ASSUME NEW c \in Clocks, Passes(c)
          PROVE  Same
      BY <1>0, <2>3 DEF Passes, PugType
    <2>4. ASSUME GameAges
          PROVE  Same
      BY <1>0, <2>4 DEF GameAges, PugType
    <2>5. ASSUME NEW m \in Maps, ForceMap(m)
          PROVE  Same
      BY <1>0, <2>5 DEF ForceMap, PugType
    <2> HIDE DEF Same
    <2>6. Same
      BY <1>5, <2>1, <2>2, <2>3, <2>4, <2>5
    <2> QED
      BY <1>0, <2>6 DEF StaysInhabited, Inhabited, Same
  <1>6. CASE RoundStart \/ AdminStart \/ GameOver
    <2>1. listed /\ pug' \in {BeginGame(pug), EndGame(pug)}
      BY <1>6 DEF RoundStart, AdminStart, GameOver, LogLine
    <2> QED
      <3>1. pug'.players = pug.players /\ pug'.server = pug.server
        BY <1>0, <2>1, BeginGameFields, EndGameFields
      <3> QED
        BY <1>0, <2>1, <3>1 DEF StaysInhabited, Inhabited
  <1>7. CASE ForceEnd
    BY <1>0, <1>7, EndPugInhabited DEF ForceEnd
  <1>8. CASE StatusCheck
    BY <1>0, <1>8, StatusCheckInhabited DEF StatusCheck
  <1> QED
    BY <1>1, <1>2, <1>3, <1>4, <1>5, <1>6, <1>7, <1>8 DEF Next

-----------------------------------------------------------------------------
(* The theorems.                                                           *)

(* The initial state.                                                      *)
LEMMA Initially == Init => Inv
  BY NewPugGood DEF Init, Gone, Inv

(* Good(pug, early) is an invariant: it holds before the first pug is      *)
(* created, and every handler keeps it.                                    *)
THEOREM Invariance == Spec => []Inv
  <1>1. Inv /\ [Next]_vars => Inv'
    BY NextStep DEF Kept
  <1> QED
    BY Initially, <1>1, PTL DEF Spec

(* Every field of the pug keeps its type through every handler.            *)
THEOREM TypeCorrect == Spec => []TypeOK
  <1>1. Inv => TypeOK
    BY DEF Inv, Good, TypeOK
  <1> QED
    BY Invariance, <1>1, PTL

(* A pug is full from the map vote until the game starts, and waits for    *)
(* replacements only while it is short of players.                         *)
THEOREM RosterTheorem == Spec => []RosterMatchesState
  <1>1. Inv => RosterMatchesState
    BY DEF Inv, Good, RosterMatchesState
  <1> QED
    BY Invariance, <1>1, PTL

(* The admin and the voters are members of the pug.                        *)
THEOREM MembersTheorem == Spec => []AdminAndVotersAreMembers
  <1>1. Inv => AdminAndVotersAreMembers
    BY DEF Inv, Good, AdminAndVotersAreMembers
  <1> QED
    BY Invariance, <1>1, PTL

(* A pug whose vote is over has a map, and a forced map is not voted on.   *)
THEOREM MapTheorem == Spec => []MapChosen
  <1>1. Inv => MapChosen
    BY DEF Inv, Good, MapChosen
  <1> QED
    BY Invariance, <1>1, PTL

(* Without an early replacement nobody is on two teams and nobody who left *)
(* the pug is still on one.                                                *)
THEOREM TeamsTheorem == Spec => []TeamsSound
  <1>1. Inv => TeamsSound
    BY DEF Inv, Good, TeamsSound
  <1> QED
    BY Invariance, <1>1, PTL

(* From the shuffle until the game starts everybody has a team, through    *)
(* every replacement and every call that raises; and without an early      *)
(* replacement the teams stay a fair split of the players.                 *)
THEOREM BalanceTheorem == Spec => []TeamsBalanced
  <1>1. Inv => TeamsBalanced
    BY DEF Inv, Good, TeamsBalanced
  <1> QED
    BY Invariance, <1>1, PTL

(* Results are recorded only when the game is over.                        *)
THEOREM StatsTheorem == Spec => []StatsOnlyAfterGame
  <1>1. Inv => StatsOnlyAfterGame
    BY DEF Inv, Good, StatsOnlyAfterGame
  <1> QED
    BY Invariance, <1>1, PTL

(* Whoever leaves, is timed out or is removed together with others, a pug  *)
(* that stays in the list without players is one whose end raised half way;*)
(* and as long as no call raises every listed pug has its server.          *)
THEOREM InhabitedTheorem == Spec => []ListedPugIsInhabited
  <1>1. Init => ListedPugIsInhabited
    BY DEF Init, ListedPugIsInhabited
  <1>2. Inv /\ ListedPugIsInhabited /\ [Next]_vars => ListedPugIsInhabited'
    BY NextInhabited
  <1> QED
    BY Invariance, <1>1, <1>2, PTL DEF Spec

(* No handler takes a listed pug back to an earlier phase.                 *)
THEOREM PhaseTheorem == Spec => PhaseNeverGoesBack
  <1>1. Inv /\ [Next]_vars => [listed /\ listed' => Phase(pug') >= Phase(pug)]_vars
    BY NextStep DEF Kept
  <1> QED
    BY Invariance, <1>1, PTL DEF Spec, PhaseNeverGoesBack

=============================================================================
