-------------------------------- MODULE Pug --------------------------------
(***************************************************************************)
(* One pug (pick-up game) from create_pug to _end_pug: entities/Pug.py     *)
(* under the handlers that drive it, which are the calls of the HTTP API   *)
(* (puglib/PugManager.py), the log lines of the game server                *)
(* (interfaces/tflogging.py) and the two-second status check.              *)
(*                                                                         *)
(* Everything runs on one IO loop and no handler yields, so an action is a *)
(* whole handler.  A call of rcon or of the database may raise out of the  *)
(* handler it is made from; CallOutcomes says whether one does in the      *)
(* instance at hand.                                                       *)
(* Ratings, medics, scores and kills are left out: where one of them makes *)
(* a choice, the choice is nondeterministic.  A definition with an         *)
(* underscore in its name is a faulty variant of the one it stands before, *)
(* which some property must notice.                                        *)
(***************************************************************************)
EXTENDS Integers, FiniteSets

CONSTANTS
  Players,       \* the 64-bit Steam ids that may join
  Maps,          \* AVAILABLE_MAPS
  Size,          \* the size the pug is created with
  NoPlayer,      \* admin of a pug nobody has joined: None
  NoMap,         \* no map, or no vote: None
  FirstTeam,     \* the team that iterating over the dict self.teams yields first
  CallOutcomes,  \* {TRUE} when no call of rcon or the database raises out of a
                 \* handler, BOOLEAN when one may
  MaxEntries     \* bound on the disconnect entries of a player

ASSUME PlayersAssumption == IsFiniteSet(Players) /\ NoPlayer \notin Players
ASSUME MapsAssumption == Maps # {} /\ NoMap \notin Maps
ASSUME SizeAssumption == Size \in Nat /\ Size >= 2
ASSUME TeamAssumption == FirstTeam \in {"red", "blue"}
ASSUME CallsAssumption == CallOutcomes \subseteq BOOLEAN /\ TRUE \in CallOutcomes
ASSUME EntriesAssumption == MaxEntries \in Nat

VARIABLES
  pug,      \* the Pug object
  listed,   \* it is in the manager's _pugs
  early     \* history: a replacement was put on a team before the shuffle

vars == <<pug, listed, early>>

-----------------------------------------------------------------------------
(* States, in the order the code compares them in.                         *)
GATHERING_PLAYERS == 0
MAP_VOTING == 1
MAPVOTE_COMPLETED == 2
TEAMS_SHUFFLED == 3
GAME_STARTED == 4
REPLACEMENT_REQUIRED == 5
GAME_OVER == 6

States == 0 .. 6
Teams == {"red", "blue"}

(* A deadline is in "due" once it has passed: start_time + 20 minutes,     *)
(* map_vote_end, replacement_timeout and game_over_time + 10 seconds.      *)
Clocks == {"gather", "vote", "replace", "grace"}

(* "ready": server.pug is this pug and its log listener is up; "silent":   *)
(* prepare() raised before the listener was registered; "released": the end*)
(* of the pug raised half way, so server.pug is None or another pug.       *)
ServerStates == {"ready", "silent", "released"}

PugType ==
  [state: States, prev: States, players: SUBSET Players,
   admin: Players \cup {NoPlayer}, teams: [Teams -> SUBSET Players],
   map: Maps \cup {NoMap}, forced: BOOLEAN,
   votes: [Players -> Maps \cup {NoMap}], disc: [Players -> Nat],
   stats_done: BOOLEAN, due: SUBSET Clocks, young: BOOLEAN,
   server: ServerStates]

NewPug(m) ==
  [state |-> GATHERING_PLAYERS, prev |-> GATHERING_PLAYERS, players |-> {},
   admin |-> NoPlayer, teams |-> [t \in Teams |-> {}],
   map |-> m, forced |-> m # NoMap,
   votes |-> [p \in Players |-> NoMap], disc |-> [p \in Players |-> 0],
   stats_done |-> FALSE, due |-> {}, young |-> FALSE, server |-> "ready"]

(* Nothing reads a pug that left the list; its object is kept in this form.*)
Gone == NewPug(NoMap)

-----------------------------------------------------------------------------
(* The properties of the Pug class.                                        *)
Full(g) == Cardinality(g.players) = Size

(* The state a pug is in, or goes back to when its replacements are found. *)
Phase(g) == IF g.state = REPLACEMENT_REQUIRED THEN g.prev ELSE g.state

GameStarted(g) == Phase(g) >= GAME_STARTED

(* player_team: the first team, in iteration order, that holds a member.   *)
OnTeam(g, p, t) ==
  /\ p \in g.players
  /\ p \in g.teams[t]
  /\ t # FirstTeam => p \notin g.teams[FirstTeam]

-----------------------------------------------------------------------------
(* The methods of the Pug class, as functions of the object.               *)

BeginMapVote_IgnoresForcedMap(g) ==
  IF g.state >= MAP_VOTING THEN g ELSE [g EXCEPT !.state = MAP_VOTING]

BeginMapVote(g) ==
  IF g.state >= MAP_VOTING THEN g
  ELSE [g EXCEPT !.state = IF g.forced THEN MAPVOTE_COMPLETED ELSE MAP_VOTING]

ShorterTeams_Any(g) == Teams

(* The team add_player may choose: the shorter one, and either one when    *)
(* they are level (team ratings, then a dice roll, decide).                *)
ShorterTeams(g) ==
  {t \in Teams : \A u \in Teams : Cardinality(g.teams[t]) <= Cardinality(g.teams[u])}

Seat(g, p) ==
  [g EXCEPT !.players = @ \cup {p},
            !.admin = IF g.players = {} THEN p ELSE @]

AddToTeam(g, p, t) == [g EXCEPT !.teams[t] = @ \cup {p}]

Resume(g) == [g EXCEPT !.state = g.prev, !.due = @ \ {"replace"}]

Substitute_AlwaysResumes(g, p, t) == Resume(AddToTeam(Seat(g, p), p, t))

Substitute(g, p, t) ==
  LET h == AddToTeam(Seat(g, p), p, t)
  IN  IF Full(h) THEN Resume(h) ELSE h

(* add_player, and the begin_map_vote of PugManager._add_player.           *)
AddPlayer(g, p, t) ==
  IF g.state = REPLACEMENT_REQUIRED THEN Substitute(g, p, t)
  ELSE IF Full(Seat(g, p)) THEN BeginMapVote(Seat(g, p)) ELSE Seat(g, p)

(* remove_player of every player in D, one after the other.  The next      *)
(* admin is the first key of a dict; when everybody goes it is whoever was *)
(* removed last.                                                           *)
NextAdmins(g, D) ==
  IF g.admin \notin D \cap g.players THEN {g.admin}
  ELSE IF g.players \subseteq D THEN g.players
  ELSE g.players \ D

AwaitReplacement_ForgetsState(g) ==
  [g EXCEPT !.state = REPLACEMENT_REQUIRED, !.due = @ \ {"replace"}]

AwaitReplacement_OverwritesState(g) ==
  [g EXCEPT !.prev = g.state, !.state = REPLACEMENT_REQUIRED, !.due = @ \ {"replace"}]

AwaitReplacement(g) ==
  IF g.state = REPLACEMENT_REQUIRED THEN g
  ELSE [g EXCEPT !.prev = g.state,
                 !.state = REPLACEMENT_REQUIRED,
                 !.due = @ \ {"replace"}]

TakeOffTeams_Nobody(g, D) == g

TakeOffTeams(g, D) ==
  [g EXCEPT !.teams = [t \in Teams |-> g.teams[t] \ {p \in D : OnTeam(g, p, t)}]]

Unseat_KeepsVotes(g, D, a) ==
  [g EXCEPT !.players = @ \ D, !.admin = a]

Unseat(g, D, a) ==
  [g EXCEPT !.players = @ \ D,
            !.admin = a,
            !.votes = [p \in Players |-> IF p \in D THEN NoMap ELSE g.votes[p]]]

RemovePlayers(g, D, a) ==
  IF g.state > GATHERING_PLAYERS /\ D \cap g.players # {}
  THEN Unseat(TakeOffTeams(AwaitReplacement(g), D), D, a)
  ELSE Unseat(g, D, a)

(* Counter.most_common(1) when somebody voted, random.choice otherwise.    *)
Votes(g, m) == Cardinality({p \in Players : g.votes[p] = m})
VoteWinners(g) ==
  IF g.forced THEN {g.map}
  ELSE {m \in Maps : \A n \in Maps : Votes(g, n) <= Votes(g, m)}

EndMapVote(g, m) == [g EXCEPT !.map = m, !.state = MAPVOTE_COMPLETED]

(* A medic for each team, then the others dealt alternately, red first,    *)
(* and swapped one for one: red ends with half of the players, rounded up. *)
RedHalves(g) == {R \in SUBSET g.players : Cardinality(R) = (Size + 1) \div 2}

ShuffleTeams(g, R) ==
  LET half(t) == IF t = "red" THEN R ELSE g.players \ R
  IN  [g EXCEPT !.teams = [t \in Teams |-> g.teams[t] \cup half(t)],
                !.state = TEAMS_SHUFFLED]

SetupConnectTimer(g) ==
  [g EXCEPT !.disc = [p \in Players |-> IF p \in g.players THEN @[p] + 1 ELSE @[p]]]

BeginGame_Again(g) == [g EXCEPT !.state = GAME_STARTED, !.young = TRUE]

BeginGame(g) ==
  IF GameStarted(g) THEN g
  ELSE [g EXCEPT !.state = GAME_STARTED, !.young = TRUE]

EndGame(g) == [g EXCEPT !.state = GAME_OVER, !.due = @ \ {"grace"}]

(* _update_ratings looks up the stats of everyone on a team, and raises    *)
(* KeyError for one who is no longer a player.                             *)
Ghosts(g) == (g.teams["red"] \cup g.teams["blue"]) \ g.players

-----------------------------------------------------------------------------
Init ==
  /\ pug = Gone
  /\ listed = FALSE
  /\ early = FALSE

(* What is left in the list of a pug whose end raised: server.pug is reset *)
(* before anything can raise, so the pug is without its server; when it is *)
(* flush_pug that raised the pug is over already, in a state that no game  *)
(* led to: game_over_time is 0 then, and the grace long past.              *)
Released(g) == [g EXCEPT !.server = "released"]

Abandoned(g) ==
  [g EXCEPT !.server = "released",
            !.state = GAME_OVER,
            !.due = IF Phase(g) = GAME_OVER THEN @ ELSE @ \cup {"grace"}]

(* PugManager._end_pug: reset(), flush_server(), flush_pug(), each of which*)
(* may raise, and the removal from the list, which is last.                *)
EndPug(g) ==
  /\ UNCHANGED early
  /\ \E ok \in CallOutcomes :
       \/ /\ ok
          /\ listed' = FALSE
          /\ pug' = Gone
       \/ /\ ~ok
          /\ listed' = TRUE
          /\ pug' \in {Released(g), Abandoned(g)}

(* create_pug.  When reserve() raises nothing is listed; when prepare()    *)
(* does, the pug is listed and its listener is missing.                    *)
Create(p, m) ==
  /\ ~listed
  /\ \E ok \in CallOutcomes :
       pug' = [AddPlayer(NewPug(m), p, FirstTeam) EXCEPT
                 !.server = IF ok THEN "ready" ELSE "silent"]
  /\ listed' = TRUE
  /\ early' = FALSE

(* PugManager.add_player.  It refuses a player who is in a pug and a full  *)
(* pug; bans and rating restrictions refuse others, which changes nothing. *)
Join(p) ==
  /\ listed
  /\ p \notin pug.players
  /\ ~Full(pug)
  /\ \E t \in ShorterTeams(pug) : pug' = AddPlayer(pug, p, t)
  /\ early' = (early \/ (pug.state = REPLACEMENT_REQUIRED /\ pug.prev < TEAMS_SHUFFLED))
  /\ UNCHANGED listed

(* PugManager.remove_player: too late while the map vote runs, and the     *)
(* last one to leave ends the pug.                                         *)
Leave(p) ==
  /\ listed
  /\ p \in pug.players
  /\ pug.state # MAP_VOTING
  /\ \E a \in NextAdmins(pug, {p}) :
       LET g == RemovePlayers(pug, {p}, a)
       IN  IF g.players = {} THEN EndPug(g)
           ELSE pug' = g /\ UNCHANGED <<listed, early>>

VoteMap(p, m) ==
  /\ listed
  /\ p \in pug.players
  /\ pug.state = MAP_VOTING
  /\ pug' = [pug EXCEPT !.votes[p] = m]
  /\ UNCHANGED <<listed, early>>

ForceMap(m) ==
  /\ listed
  /\ pug.state = GATHERING_PLAYERS
  /\ pug' = [pug EXCEPT !.forced = TRUE, !.map = m]
  /\ UNCHANGED <<listed, early>>

(* PugManager.end_pug, on request of the API.                              *)
ForceEnd == listed /\ EndPug(pug)

-----------------------------------------------------------------------------
(* Log lines.  They reach the pug through server.pug and the listener.     *)
LogLine == listed /\ pug.server = "ready" /\ UNCHANGED <<listed, early>>

RoundStart ==
  /\ LogLine
  /\ pug.state # REPLACEMENT_REQUIRED
  /\ pug' = BeginGame(pug)

(* The admin types !start in the game's chat.                              *)
AdminStart ==
  /\ LogLine
  /\ pug.admin # NoPlayer
  /\ pug' = BeginGame(pug)

GameOver ==
  /\ LogLine
  /\ pug' = EndGame(pug)

Connect(p) ==
  /\ LogLine
  /\ p \in pug.players
  /\ pug' = [pug EXCEPT !.disc[p] = 0]

Disconnect(p) ==
  /\ LogLine
  /\ p \in pug.players
  /\ pug.disc[p] < MaxEntries
  /\ pug' = [pug EXCEPT !.disc[p] = @ + 1]

-----------------------------------------------------------------------------
(* Time.  A deadline passes at some moment after it was set.               *)
Running(g) ==
  {c \in Clocks : \/ c = "gather" /\ g.state = GATHERING_PLAYERS
                  \/ c = "vote" /\ Phase(g) = MAP_VOTING
                  \/ c = "replace" /\ g.state = REPLACEMENT_REQUIRED
                  \/ c = "grace" /\ Phase(g) = GAME_OVER}

Passes(c) ==
  /\ listed
  /\ c \in Running(pug) \ pug.due
  /\ pug' = [pug EXCEPT !.due = @ \cup {c}]
  /\ UNCHANGED <<listed, early>>

(* Fifteen minutes since game_start_time.  It is 0, so always long ago, in *)
(* a pug that was never started.                                           *)
GameAges ==
  /\ listed
  /\ pug.young
  /\ pug' = [pug EXCEPT !.young = FALSE]
  /\ UNCHANGED <<listed, early>>

-----------------------------------------------------------------------------
(* PugManager.status_check, for this pug: a branch on the state, and then  *)
(* check_disconnects on what the branch left.                              *)

LateEntries_OfStaleCopy(g) == [Players -> 0 .. MaxEntries + 1]

(* Which entries are older than DISCONNECT_TIMEOUT.                        *)
LateEntries(g) ==
  {late \in [Players -> 0 .. MaxEntries + 1] : \A p \in Players : late[p] <= g.disc[p]}

CheckDisconnects_KeepsEmptyPug(g) ==
  \E late \in LateEntries(g) :
    LET D == {p \in Players : late[p] > 0}
    IN  /\ \E a \in NextAdmins(g, D) :
             pug' = [RemovePlayers(g, D, a) EXCEPT
                       !.disc = [p \in Players |-> g.disc[p] - late[p]]]
        /\ UNCHANGED <<listed, early>>

CheckDisconnects(g) ==
  \E late \in LateEntries(g) :
    LET D == {p \in Players : late[p] > 0}
    IN  \E a \in NextAdmins(g, D) :
          LET h == [RemovePlayers(g, D, a) EXCEPT
                      !.disc = [p \in Players |-> g.disc[p] - late[p]]]
          IN  IF h.players = {} /\ \E p \in Players : g.disc[p] > 0
              THEN EndPug(h)
              ELSE pug' = h /\ UNCHANGED <<listed, early>>

(* shuffle_teams, change_map and setup_connect_timer.  change_map raises   *)
(* when rcon does, and when server.pug is None; the check ends there.  A   *)
(* released server that was lent again has another pug, whose map it       *)
(* changes then without raising.                                           *)
ShuffleAndChangeMap(g) ==
  \E R \in RedHalves(g), ok \in CallOutcomes :
    LET s == ShuffleTeams(g, R)
    IN  IF ok
        THEN CheckDisconnects(SetupConnectTimer(s))
        ELSE pug' = s /\ UNCHANGED <<listed, early>>

CheckMapVote_WaitsForVoters ==
  /\ pug.state = MAP_VOTING
  /\ "vote" \in pug.due
  /\ \A p \in pug.players : pug.votes[p] # NoMap
  /\ \E m \in VoteWinners(pug) : ShuffleAndChangeMap(EndMapVote(pug, m))

CheckMapVote ==
  /\ pug.state = MAP_VOTING
  /\ "vote" \in pug.due
  /\ \E m \in VoteWinners(pug) : ShuffleAndChangeMap(EndMapVote(pug, m))

CheckVoteCompleted ==
  /\ pug.state = MAPVOTE_COMPLETED
  /\ ShuffleAndChangeMap(pug)

(* The flush of the statistics raises: they count as done, and the check   *)
(* ends there.                                                             *)
StatsRaise ==
  /\ FALSE \in CallOutcomes
  /\ ~pug.stats_done
  /\ pug' = [pug EXCEPT !.stats_done = TRUE]
  /\ UNCHANGED <<listed, early>>

Close(g) == IF "grace" \in g.due THEN EndPug(g) ELSE CheckDisconnects(g)

CheckGameOver_OnlyUnrecorded ==
  /\ pug.state = GAME_OVER
  /\ ~pug.stats_done
  /\ Ghosts(pug) = {}
  /\ StatsRaise \/ Close([pug EXCEPT !.stats_done = TRUE])

CheckGameOver ==
  /\ pug.state = GAME_OVER
  /\ pug.stats_done \/ Ghosts(pug) = {}
  /\ StatsRaise \/ Close([pug EXCEPT !.stats_done = TRUE])

CheckGathering_OnlyEmpty ==
  /\ pug.state = GATHERING_PLAYERS
  /\ "gather" \in pug.due
  /\ pug.players = {}
  /\ EndPug(pug)

CheckGathering ==
  /\ pug.state = GATHERING_PLAYERS
  /\ "gather" \in pug.due
  /\ EndPug(pug)

ReplacementFails_OnlyLive(g) ==
  /\ g.state = REPLACEMENT_REQUIRED
  /\ "replace" \in g.due
  /\ g.young

ReplacementFails(g) ==
  /\ g.state = REPLACEMENT_REQUIRED
  /\ "replace" \in g.due
  /\ ~GameStarted(g) \/ g.young

CheckReplacement == ReplacementFails(pug) /\ EndPug(pug)

(* No branch applies, and only the disconnects are checked.                *)
CheckOther ==
  /\ ~(pug.state = MAP_VOTING /\ "vote" \in pug.due)
  /\ pug.state \notin {MAPVOTE_COMPLETED, GAME_OVER}
  /\ ~(pug.state = GATHERING_PLAYERS /\ "gather" \in pug.due)
  /\ ~ReplacementFails(pug)
  /\ CheckDisconnects(pug)

StatusCheck ==
  /\ listed
  /\ \/ CheckMapVote
     \/ CheckVoteCompleted
     \/ CheckGameOver
     \/ CheckGathering
     \/ CheckReplacement
     \/ CheckOther

-----------------------------------------------------------------------------
Next ==
  \/ \E p \in Players, m \in Maps \cup {NoMap} : Create(p, m)
  \/ \E p \in Players : Join(p) \/ Leave(p) \/ Connect(p) \/ Disconnect(p)
  \/ \E p \in Players, m \in Maps : VoteMap(p, m)
  \/ \E m \in Maps : ForceMap(m)
  \/ ForceEnd
  \/ RoundStart \/ AdminStart \/ GameOver
  \/ \E c \in Clocks : Passes(c)
  \/ GameAges
  \/ StatusCheck

Spec == Init /\ [][Next]_vars

(* The status check runs every two seconds and every deadline that is set  *)
(* passes in the end.  A deadline that a later step may set again is fair  *)
(* only as long as it stands, except that Game_Over lines, each of which   *)
(* starts the ten seconds of grace again, do not keep coming forever.      *)
CloseFinished == listed /\ "grace" \in pug.due /\ CheckGameOver

Fairness ==
  /\ WF_vars(StatusCheck)
  /\ \A c \in Clocks : WF_vars(Passes(c))
  /\ SF_vars(CloseFinished)

FairSpec == Spec /\ Fairness

-----------------------------------------------------------------------------
(* Every field of the pug has the type its code gives it, and no player has*)
(* fewer than no disconnect entries.                                       *)
TypeOK ==
  /\ pug \in PugType
  /\ listed \in BOOLEAN
  /\ early \in BOOLEAN

(* The roster agrees with the state: a pug is full from the map vote until *)
(* the game starts, short of players while it waits for a replacement, and *)
(* waits only for a state that comes after gathering.                      *)
RosterMatches(g) ==
  /\ Cardinality(g.players) <= Size
  /\ g.state \in {MAP_VOTING, MAPVOTE_COMPLETED, TEAMS_SHUFFLED} => Full(g)
  /\ g.state = REPLACEMENT_REQUIRED =>
       ~Full(g) /\ g.prev \notin {GATHERING_PLAYERS, REPLACEMENT_REQUIRED}

RosterMatchesState == RosterMatches(pug)

(* Whoever may type !start is in the pug, and only members have a vote     *)
(* that counts, through any sequence of joins, leaves and kicks.           *)
RolesHeldByMembers(g) ==
  /\ g.players # {} => g.admin \in g.players
  /\ \A p \in Players : g.votes[p] # NoMap => p \in g.players

AdminAndVotersAreMembers == RolesHeldByMembers(pug)

(* A pug whose vote is over has a map, and a forced map is never voted on. *)
HasMap(g) ==
  /\ Phase(g) \in {MAPVOTE_COMPLETED, TEAMS_SHUFFLED} => g.map \in Maps
  /\ g.forced => g.map \in Maps /\ Phase(g) # MAP_VOTING

MapChosen == HasMap(pug)

(* Nobody is on two teams, nobody who left the pug is still on a team, and *)
(* nobody has a team before the shuffle.                                   *)
SoundTeams(g) ==
  /\ g.teams["red"] \cap g.teams["blue"] = {}
  /\ Ghosts(g) = {}
  /\ Phase(g) < TEAMS_SHUFFLED => \A t \in Teams : g.teams[t] = {}

(* SoundTeams, unless a replacement was put on a team before the shuffle.  *)
TeamsSound == ~early => SoundTeams(pug)

(* From the shuffle until the game starts every player has a team ...      *)
EveryoneHasTeam(g) ==
  Phase(g) = TEAMS_SHUFFLED => g.players \subseteq g.teams["red"] \cup g.teams["blue"]

(* ... which the teams hold nobody beside, and no team has more than half  *)
(* of the places.                                                          *)
BalancedTeams(g) ==
  Phase(g) = TEAMS_SHUFFLED =>
    /\ g.players = g.teams["red"] \cup g.teams["blue"]
    /\ \A t \in Teams : Cardinality(g.teams[t]) <= (Size + 1) \div 2

(* Whoever leaves and joins, and whatever raises, from the shuffle until   *)
(* the game starts everybody has a team; and the teams are balanced, unless*)
(* a replacement was on a team before the shuffle.                         *)
TeamsBalanced == EveryoneHasTeam(pug) /\ (~early => BalancedTeams(pug))

(* A pug in the list has players, or its end raised half way; and as long  *)
(* as no call raises it has its server, with the log listener up.          *)
Inhabited(g) ==
  /\ g.players = {} => g.server = "released"
  /\ CallOutcomes = {TRUE} => g.server = "ready"

ListedPugIsInhabited == listed => Inhabited(pug)

(* Only a pug whose game is over has its results recorded.                 *)
RecordedWhenOver(g) == g.stats_done => Phase(g) = GAME_OVER

StatsOnlyAfterGame == RecordedWhenOver(pug)

(* What every handler keeps, of the object g in a pug where a replacement  *)
(* was (e) or was not (~e) put on a team early: the inductive invariant.   *)
Good(g, e) ==
  /\ g \in PugType
  /\ RosterMatches(g)
  /\ RolesHeldByMembers(g)
  /\ HasMap(g)
  /\ RecordedWhenOver(g)
  /\ EveryoneHasTeam(g)
  /\ ~e => SoundTeams(g) /\ BalancedTeams(g)

(* Through leaves, replacements and restarts of the clock a listed pug     *)
(* never goes back to an earlier phase: a vote is not held twice, teams    *)
(* are not shuffled twice, and a finished game does not start again.       *)
PhaseNeverGoesBack ==
  [][listed /\ listed' => Phase(pug') >= Phase(pug)]_vars

(* A vote is always resolved: its pug moves on to the teams, or is ended,  *)
(* even when voters are replaced for not being on the server meanwhile.    *)
VoteResolves ==
  (listed /\ Phase(pug) = MAP_VOTING) ~> (~listed \/ Phase(pug) # MAP_VOTING)

(* A pug does not gather players forever.                                  *)
GatheringResolves ==
  (listed /\ pug.state = GATHERING_PLAYERS) ~> (~listed \/ pug.state # GATHERING_PLAYERS)

(* A pug that has not gone live does not wait for a replacement forever,   *)
(* even when the replacements that come leave again.                       *)
ReplacementResolves ==
  (listed /\ pug.state = REPLACEMENT_REQUIRED /\ ~GameStarted(pug))
     ~> (~listed \/ pug.state # REPLACEMENT_REQUIRED \/ GameStarted(pug))

(* A game that ends with sound teams is recorded and its pug closed, unless*)
(* somebody leaves the pug before that.                                    *)
FinishedPugCloses ==
  (listed /\ pug.state = GAME_OVER /\ Ghosts(pug) = {})
     ~> (~listed \/ pug.state = REPLACEMENT_REQUIRED)

-----------------------------------------------------------------------------
(* What the repository says of a pug, and the code does not do.            *)

(* test/pug_test.py:345-347: a full pug whose teams are shuffled has half  *)
(* of its players on each team.                                            *)
TeamsAreEven ==
  (listed /\ pug.state = TEAMS_SHUFFLED) =>
    \A t \in Teams : Cardinality(pug.teams[t]) = Size \div 2

(* interfaces/tflogging.py:215-217: the game cannot be started while the   *)
(* pug waits for a replacement.                                            *)
NoStartWhileWaiting ==
  [][(listed /\ listed' /\ pug.state = REPLACEMENT_REQUIRED /\ ~GameStarted(pug))
       => pug'.state # GAME_STARTED]_vars

(* puglib/PugManager.py:395-397: once the game is over the pug is flushed  *)
(* and removed from the internal list.                                     *)
GameOverIsFinal == (listed /\ Phase(pug) = GAME_OVER) ~> ~listed

=============================================================================
