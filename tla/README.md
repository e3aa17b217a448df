# A TLA+ verification of tf2pug-server

tf2pug-server is a daemon (Python 2, Tornado) that runs pick-up games, *pugs*,
of Team Fortress 2: players join a pug over an HTTP API, vote on a map, are
dealt to two teams and play on a game server that the daemon reserves,
configures over rcon and listens to over UDP. Line numbers are those of the
repository.

## Inventory

Everything runs on one Tornado IO loop. HTTP handlers, log lines, periodic
timers and rcon callbacks are each run to their end: no handler yields. The
hard behaviours come from the *order* in which handlers run, from exceptions
that leave one half done, from deadlines, and from what a restart finds in the
database.

| Component | State | Operations | Talks to |
|---|---|---|---|
| Pug (`entities/Pug.py`) | state and previous state, players, admin, teams, votes, map, disconnect entries, deadlines, statistics | add_player, remove_player, begin/end_map_vote, vote_map, force_map, shuffle_teams, begin_game, end_game, add/remove/check_disconnects | its Server |
| PugManager (`puglib/PugManager.py`) | the list of pugs, the other managers of its group | create_pug, add_player, remove_player, end_pug, vote_map, force_map, status_check (every 2 s), flush_all (every 10 s), __load_pugs | Pug, ServerManager, BanManager, database |
| Server, ServerManager (`entities/Server.py`, `serverlib/ServerManager.py`) | the pool of servers, the pug and pug id of each, its listener | allocate, prepare, reset, reset_orphans, late_load | rcon, UDP listener, database |
| Log interface (`interfaces/tflogging.py`, `BaseInterfaces.py`) | whether statistics are paused, the log secret | a handler per kind of line | Server, Pug |
| BanManager (`puglib/bans.py`) | the set of bans | add_ban, remove_ban, get_player_ban, check_bans (every 10 min), __load_bans | database |
| RconStream (`serverlib/RconStream.py`) | connection, authentication, command queue, callback of the command in flight | send_cmd, _auth, _exec, _process_queue, multi-packet replies | game server |
| UDP listener (`serverlib/UDPServer.py`) | a socket | start, close, the read handler | log interface |
| API server (`apiserver.py`) | managers by key, servers by group, cache of users, timers | get_pug_manager, get_server_manager, get_user_info, the timers, close | all |
| Ratings (`puglib/rating.py`) | none | calculate_rating | PugManager |
| Database (`interfaces/database.py`) | PostgreSQL tables | get_*, flush_* (most swallow failures, flush_ban raises) | - |
| HTTP handlers (`handlers/`) | none | arguments in, JSON out | managers |

What makes each correct, and what is hard:

* **Pug.** The roster agrees with the state, roles (admin, voter, team member)
  belong to members, teams are disjoint and even when a game starts, the pug
  never goes back to an earlier phase, and it does not stay for ever in a phase
  that has a deadline. Hard: leavers, replacements and disconnect timeouts in
  any order with the vote, the shuffle and the log lines; a removal of several
  players in one check; rcon raising in the middle of a handler.
* **BanManager.** What is enforced is what is stored, across flushes that raise
  and restarts; a player has one ban; a lifted ban stays lifted; a ban that
  should end does. Hard: the object is changed before the flush, and check_bans
  stops at the first flush that raises.
* **Servers and recovery.** A server serves one pug, is free when it serves
  none, and after a restart every unfinished pug has its server again. Hard:
  reserve, prepare and reset may raise half way; two managers share one
  ServerManager and load one after the other; a leave is not flushed.
* **Group of managers.** A player is in one pug of a group. Hard: managers
  created after the start, and players who left without a flush before a crash.
* **RconStream.** Commands are executed in order, once, after authentication,
  both ends agree where a reply ends, and a callback gets the whole reply to its
  own command. Hard: commands given while another one is being written, executed
  or answered, replies of many packets, a command that cannot be encoded.
* **Team allocation.** Both teams get their halves and a medic each, and the
  swaps never make the ratings less balanced. Hard: an index that is not reset,
  sizes of one and of odd numbers.

## Modules

| Module | What it is |
|---|---|
| `Pug` | One pug under all of its handlers |
| `MCPug` and `MCPug_*.cfg` | Its instances for TLC |
| `PugProofs` | Theorems about `Pug` |
| `PugLifecycle` | The phases of a pug as clients of the API see them |
| `PugRefinement` | `Pug` as an implementation of `PugLifecycle`: the refinement mapping |
| `PugRefinementProofs` | The proof that it is one |
| `Bans` | BanManager and its table, with restarts |
| `MCBans` and `MCBans_*.cfg` | Its instances for TLC |
| `BansProofs` | Theorems about `Bans` |
| `BanRegistry` | What the ban manager promises, without objects, rows and restarts |
| `BansRefinement`, `BansRefinementProofs` | `Bans` as an implementation of it, and the proof |
| `Fleet` | The managers of a group, their servers and the tables, with failures, crashes and restarts |
| `MCFleet` and `MCFleet_*.cfg` | Its instances for TLC |
| `FleetProofs` | Theorems about `Fleet` |
| `ServerPool` | What a group of managers promises about its servers, without tables and restarts |
| `FleetRefinement`, `FleetRefinementProofs` | `Fleet` as an implementation of it, and the proof |
| `RconStream` | The rcon connection of a server and its command queue |
| `MCRconStream` and `MCRconStream_*.cfg` | Its instances for TLC |
| `RconStreamProofs` | Theorems about `RconStream` |
| `RconService` | What a caller of Server.rcon may rely on, without packets and callbacks |
| `RconRefinement`, `RconRefinementProofs` | `RconStream` as an implementation of it, and the proof |

The modules describe the same daemon at two distances. `Pug` looks at one pug
and follows every handler through its states, with a server that is only
`"ready"`, `"silent"` or `"released"`; `Fleet` looks at all the pugs, keeps
of each its players and whether its game is over, and follows servers and
tables instead. An action of `Fleet` such as `End` stands for every handler of
`Pug` that ends a pug. What a failed reset means for another pug is in `Fleet`,
what it means for the pug itself in `Pug`. `Bans` and `RconStream` share no
state with the two: a ban is only looked at when a player joins, and rcon is
seen from a pug as a call that works or raises.

### Pug

`pug` is the Pug object as a record, `listed` says that the manager has it in
its list, `early` is a history variable (below). The operators over a record
are the methods of the class (`Seat`, `Substitute`, `RemovePlayers`,
`ShuffleTeams`, `BeginGame`, ...) and the actions are whole handlers:

* HTTP: `Create`, `Join`, `Leave`, `VoteMap`, `ForceMap`, `ForceEnd`, with the
  refusals of PugManager as guards.
* Log lines: `RoundStart`, `AdminStart`, `GameOver`, `Connect`, `Disconnect`.
  They need the listener and `server.pug`, the guard `LogLine`; an exception in
  one is caught by `parse` and changes nothing. A lost line is a step not taken.
* `StatusCheck`: the branches of status_check for the state of the pug, each
  followed by the check of disconnects that the code makes after it.
* Time: `Passes(c)` puts a deadline among the `due` ones at some moment after it
  was set; `GameAges` is the end of the fifteen minutes that decide what happens
  to a running game without a replacement. `LateEntries` are the disconnect
  entries that are older than three minutes, any of them.

Where ratings, medics, the order of a dict or a random choice decide, the model
takes any outcome the code can have: the team of a replacement when both are
equally long, the halves of the shuffle, the winner of a tied vote, the next
admin. A call of rcon or of the database may raise out of a handler
(`CallOutcomes`): a prepare that does leaves the server `"silent"`, a change of
map that does ends the check, and so does a flush of the statistics
(`StatsRaise`). An end that raises leaves the pug in the list and its server
`"released"`, in its old state when the reset raised (`Released`), as a game that
is over when the flush of the pug found no connection (`Abandoned`); the next
check that ends it tries again. A released server may be lent to another pug
before that, whose map a change of map would then change without raising.

### PugLifecycle

Two variables: the `phase` and whether the pug is `waiting` for a replacement.
The code has one variable, `state`, which forgets the phase while a replacement
is missing, and `previous_state`, which remembers it; the mapping of
`PugRefinement` puts the two together. A pug that no manager lists has the phase
`"none"`. The promise: phases come in their order, teams are made once and never
by a pug that waits, only phases after gathering wait, and a pug that waited
goes on where it was, unless its game starts or is over.

### Bans

`bans` is the set of ids that BanManager holds, `mem` the object of each, `rows`
the table, `up` whether the daemon runs. A handler changes the object, then
flushes: `Renew` and `Lift` show what stays in memory when the flush raises.
`Lift(D, F)` is _remove_ban of the bans in `D` and, if `F` is not empty, of one
whose flush raises; `CheckAll` and `CheckSome` are check_bans that gets to the
end and that does not. `Start` reads back the active rows; a query that fails
leaves the daemon down. The start of a ban is rounded to a second when its row is
written (`AsStored`). Reason and names of a ban are left out; so is a flush that
raises after it has committed, as when the answer to the commit is lost: it would
leave an active row that nobody holds, or a lifted one that is held, until the
next restart.

### BanRegistry

Who is `banned`, the `term` of each (the moments of the clock at which check_bans
would leave the ban alone), and for whom the manager is `unsure`: the ban was
renewed, or a flush of it raised, so that object and row differ. The promise:
nobody is banned twice, nobody stops to be banned but by `Unban` or once the term
is over, and a `Crash` takes no moment from the term of any ban but an unsure one,
and adds one at the most (the start of a stored ban is rounded). While the daemon
is up the mapping reads the objects, else the active rows; a start is not
seen at all.

### Fleet

`obj` are the Pug objects in the managers' lists, `srv` the Server objects (the
pug, the pug id, whether there is a listener), `row` the tables pugs and
pugs_index, `srow` the column pug_id of the table servers, `keys` the table
api_keys, `grouped` the managers that were told of each other. `boot` is how far
the daemon is with its start: the managers still to be loaded, the one that is
being loaded, and the pugs it has not read yet. `owner` and `home` name the
manager and the server a pug was created with; neither changes.

* `Create`, `Join`, `Leave`, `End`, `Progress` are the handlers, with the flushes
  the code makes and in its order. `Create` takes any free server; the code
  takes the first of its list. `Leave` makes none: the row of the pug keeps
  the player. `EndPug` flushes the server first, then the pug; a crash may come
  between them, as it may between the flushes of `create_pug`.
* `PeriodicFlush` is flush_all every ten seconds; `Stop` is close(), or a crash
  in the middle of it, or of nothing.
* `Start`, `GetPugs`, `LoadPug`, `LoadOld`, `ManagerLoaded`, `LateLoad` are the
  start: servers, then one manager after the other, each followed by
  reset_orphans for *all* servers, then the group and the listeners.
  `StopLoading` is a crash in it. `NewManager` is a key that is added later.
* `Faults` names the calls that may fail: `reserve` and `prepare` raise with the
  server half taken, `reset` with it half free, and the last flush of a pug that
  ends finds no `connection` and raises when its server is free already; a failed
  `flush_pug`, `flush_server` or `get_pugs` is swallowed. A pug whose reservation
  raised is `Unborn`: its server refers to it and no list or table does. `hurt`
  remembers the servers whose pugs were touched by a failure after which the
  code makes no promise, and `doubled` the players whom a restart put into two
  pugs: both are history, the properties name them as the exceptions.

Left out: servers whose row leaves the group or comes back while the daemon
runs, a get_servers or get_user_info that fails at the start, the failure of the
first INSERT of a pug (it has no id then), a late manager whose load raises, and
the pugs whose status check is skipped because the one of another pug raised. A
reset during the start only
queues its commands and cannot raise. A late manager knows no other and is known
by none, so `OnePugPerMember` speaks of managers that know each other: with a
late one a player can be in two pugs, as the code has it.

### ServerPool

Which pugs were `made`, the `server` each has, for which of them the game is
`over`, and the servers that failures have `broken`. The promise: a server is
lent to one pug at a time and to none twice, stays with the pug until it ends or
a failure touches the server, and when the daemon dies only pugs whose game was
over lose theirs (their rows may say they are finished). A pug that is being
created when the daemon dies has its server or was never made; one whose
reservation raises is made and never lent a server. The mapping reads
the lists of the managers while the daemon is up and the unfinished rows
otherwise; the whole start, with its loading, orphans and late managers, is a
stutter but for the failures in it. `over` may be forgotten by a crash: Game_Over
is not flushed.

### RconStream

`conn` is the RconConnection with its stream, `inbox` and `wire` are the packets
on their way to and from the game server; `given`, `executed`, `size` and
`reply` are history. What the stream does is `io`: a callback that was scheduled
(`"run"`) runs in a later step, and `send_cmd` may be called in between, which is
where a command would be started too early. `Rcon` and `RconAnew` are
Server.rcon with an open and with a closed connection; `Connected`, `Written`,
`Arrives` are the stream, `ReadNext`, `AuthResponse`, `ReplyPacket` the
callbacks; `Authenticate`, `Execute`, `Mirror` are the game server as the code
expects it: it answers in order, splits a reply as it likes, and mirrors the
empty packet that marks the end of a reply with two. The code reads the length
of a packet and then its body; that is one `Arrives`. Packets that a game server
still handles after its connection closed are not followed.

### RconService

Commands are `given`, `executed` one at a time, each when the one before it has
been answered, with an `output`, and `answer` is what the callback got. `Connect`
forgets what the old connection had queued. The mapping takes the packets that a
reply was made of; packets, stages, the queue and the two ends of a reply are
not seen.

## Runs

| Run | Instance | Shows |
|---|---|---|
| `pair` | size 2, 3 players, 1 map, calls may raise | `TypeOK`, `AdminAndVotersAreMembers`, `MapChosen`, `TeamsSound`, `StatsOnlyAfterGame`, `PhaseNeverGoesBack`, `ImplementsLifecycle` |
| `trio` | size 3, 4 players, calls may raise | `RosterMatchesState`, `TeamsBalanced`, `ListedPugIsInhabited` |
| `live` | fair, 2 players, 2 maps, no call raises | `VoteResolves`, `GatheringResolves`, `ReplacementResolves`, `FinishedPugCloses` |
| `even_teams` | | `TeamsAreEven` fails |
| `start_waiting` | | `NoStartWhileWaiting` fails |
| `over_final` | fair | `GameOverIsFinal` fails |
| `bans` | fair, 2 players, 2 rows, 5 moments, flushes may raise | `TypeOK`, `HeldIsActive`, `OneBanPerPlayer`, `FlushedBansAgree`, `LiftedStaysLifted`, `BanEnds`, `ImplementsBanRegistry` |
| `ban_start` | no flush raises | `DatabaseConsistent` fails |
| `fleet` | 2 managers, one of them late, 2 servers, 2 players, 2 pugs, every failure, 1 server hurt | `TypeOK`, `OnePugPerServer`, `NoServerForgotten`, `NoPugForgotten`, `PugsSurvive`, `OnePugPerMember`, `ImplementsServerPool` |
| `fleet_orphans` | 2 managers, no failures | `OnlyOrphansAreReset` fails |
| `rcon` | fair, 6 commands, the 5th not encodable, replies of up to 3 packets | `TypeOK`, `InStep`, `OwnReply`, `ExecutedInOrder`, `NoneWaitsIdle`, `ReadIsAnswered`, `ImplementsService`, `EveryCommandIsAnswered` |
| `rcon_jam` | 3 commands, the 2nd not encodable | `BusyOnlyInTransfer` fails |

**Bounds.** A pug of two with a third player has a replacement, a removal of
everybody at once, and a leaver who comes back; a pug of three adds two leavers
with a member left, one of two replacements, and halves that differ in size.
Voting only distinguishes whether a vote exists, who has one, and which maps
lead. `MaxEntries` bounds the disconnect entries a player may have from
disconnecting; with the one of the connect timer one player has two, which is
where a stale entry hits a player who came back. For bans, two rows are a
lifted ban and its successor, or the bans of two players in one round of
check_bans; the clock lets a renewal move the end of a ban after it was due.
`AddBan` is limited to bans that end before the clock stops, so that every ban
can run out: `BanEnds` says nothing of a ban that somebody renews for ever. Two
pugs on two servers are the least that lets one pug, its manager's restart or a
failed reset hurt another one, and that lets a server have a second pug;
`MaxHurt` keeps one of the servers intact, so that the invariants say something
of it while the other is in any state; the theorems of `FleetProofs` have no
bounds. For rcon, four commands that can be sent are one in flight, two waiting
in order and one that is given while the reply is read; the fifth is the jam,
the sixth waits behind it. Players in `pair`, `trio` and `fleet`, and servers in
`fleet`, are symmetric: the code never compares two of them, and the order in
which it tries servers is that of a query without one.

**Fairness.** The status check is a PeriodicCallback of two seconds and
deadlines are moments in time, hence weak fairness of `StatusCheck` and of each
`Passes(c)`. No fairness is assumed of players, of log lines or of rcon. The
one strong fairness, `CloseFinished`, says that Game_Over lines, each of which
starts the ten seconds of grace again (`game_over_time` is set anew), do not
come again before every check for ever: a game server logs one per game. The
live run has no call raise: when every reset does, nothing is ever closed. It has
one pug; an exception in the check of another pug would skip the check of this
one, and with it the fairness. For
bans, check_bans runs every ten minutes and some later round finds the database
accepting every flush. For rcon, the IO loop runs what is ready (`Loop`); that
the game server answers what it gets (`GameServer`) is an assumption about it,
since the code has no timeout. Nobody has to give commands and no connection has
to close.

**What the passing runs leave open.** `TeamsSound` and `TeamsBalanced` hold as
long as no replacement was put on a team before the shuffle; `early` records
that one was, and `even_teams` shows what happens then. `FinishedPugCloses`
assumes the teams are sound, for the same reason: a team member who is not a
player makes `_update_ratings` raise at every check. `EveryCommandIsAnswered`
speaks of the commands before one that cannot be encoded, and `rcon_jam` shows
the fate of the others; connections that close or jam are exempt from it. In
`fleet`, `hurt` and `doubled` are the exceptions: after a reset that raised, the
server of a pug counts as free and may be given to the next one; an ended pug
whose last flush was swallowed comes back at the next start; a player who left
without a flush is back after a crash, maybe while in another pug; and the
players of a late manager may be in two pugs. For these the code promises
nothing, and PROJECT.json lists them as hazards that no property covers.

**Disagreements found.**

* `even_teams`: `add_player` adds every replacement to a team
  (`entities/Pug.py:150-191`), also when the map vote is still on and teams are
  empty. The shuffle then deals the same player again without clearing the
  teams. The tests expect half of the players on each team
  (`test/pug_test.py:345-347`).
* `start_waiting`: `!start` (`interfaces/tflogging.py:295`) has no check for a
  missing replacement; Round_Start answers "Cannot start the game while waiting
  for a replacement" (215-217).
* `over_final`: a player who leaves a finished pug turns it back to waiting for
  a replacement (`entities/Pug.py:204-217`). After 15 minutes of play, or when
  the game was never started, no branch of status_check ends it, against
  `puglib/PugManager.py:395-397`.
* `ban_start`: a renewed ban starts anew in memory (`puglib/bans.py:142`) and
  not in the table (`interfaces/database.py:446`), against the comment at
  `puglib/bans.py:199-202`.
* `fleet_orphans`: every manager calls reset_orphans when its own pugs are
  loaded, so the first one frees the servers of the pugs of the next
  (`serverlib/ServerManager.py:58`), against the comment above it (52-57). The
  pug gets its server object back, but the players are kicked, the id is gone
  and there is no listener.
* `rcon_jam`: `_exec` marks the connection as busy before it encodes the command
  (`serverlib/RconStream.py:184`). A name with a character outside of ASCII
  makes the encoding raise, and nothing ever clears the mark; 291-293 says the
  queue goes on when the socket has been read.

## Proofs

`PugProofs` proves, for every finite set of players, every set of maps, every
size of at least two and whatever calls raise, the invariants and the action
property of the safety runs. `ListedPugIsInhabited` has an invariant of its own
(`Inhabited`): only an end that raised leaves a listed pug without players. For
the others the inductive
invariant is `Good(pug, early)`. None of its parts is inductive alone: that a
pug waiting for a replacement is not full needs the roster to be bounded and the
previous state to be a later one than gathering; that a resumed shuffle finds
empty teams needs the team part before the shuffle; balance needs the teams to
be disjoint and made of players; the map needs the forced flag. `Good` is a
predicate over a record, so the proof goes up in layers: what a method does to
each field (`...Fields`), that it keeps `Good` and does not lower the phase
(`...Good`), that an action does (`...Step`), and the theorems. Cardinalities
rest on the library's facts about finite sets. The assumptions used are those
named in `Pug`: the players are a finite set, `Size` is at least two (the loop
that looks for two medics does not end for less), the null values are no
members.

`PugRefinementProofs` proves `ImplementsLifecycle`: under the mapping, an initial
state of `Pug` is one of `PugLifecycle`, and a step of `Pug` is one of its steps
or none. Each method is reduced to what it does to the state and the previous
state (`Stays`, `Waits`, `Moves`), an action that makes several calls to their
composition, and `Good` excludes what no pug is in: a pug that waits while it
gathers, or one that has forgotten its phase.

`BansProofs` proves the invariants and the action property of the run `bans`
for every set of players and durations and every bound. The inductive
invariant adds that nothing is held while the daemon is down: uniqueness must
hold of the active rows for the next start to be sound, and that a lifted row
is never written again rests on held bans being active ones.

`BansRefinementProofs` proves `ImplementsBanRegistry` from that invariant. What
makes the mapping a function is that a player has one ban (`OneEach`): his term
is that of the one object, or row, and lifting it leaves nothing behind. A crash
swaps objects for rows, and they say the same except of those in `Unsure`.

`FleetProofs` proves the invariants of the run `fleet` for any number of
managers, servers, players and pugs, any bounds and any set of calls that fail.
The properties speak of a daemon that is up, and what they say must be found
again by a restart that starts at any moment, in any order of managers. The
inductive invariant therefore says at all times which pugs were made and given
a server (`Made`), that listed pugs and the servers that know them are pairs, but
for a server whose reservation raised (`Paired`; `Stored`, a small invariant beside
it, says that rows are those of pugs that were created, so that a new pug has
none), and that no two pugs a restart would load share a server (`Apart`);
of a daemon that is up, what its rows hold (`Managed`); and of one that loads,
how far it is (`Booting`, `Loading`: an unfinished pug is listed, unread, or
owned by a manager that is still to come, and once one manager is loaded no
server keeps an id without a pug). Each action is shown to keep each part.

`FleetRefinementProofs` proves `ImplementsServerPool` from that invariant, again
for any number of managers, servers and pugs and any failures. Four lemmas carry
it: a step changes nothing for the pool but for the servers a failure touches
(`Unseen`), a pug ends and its server is free (`Returned`), the daemon dies
(`Dying`), and a server is lent (`CreateSeen`). `Managed` says that at a crash the
rows can stand in for the objects, `Loading` that at the end of a start the
objects can stand in for the rows, and `Paired` that a server that is not in use
is lent to nobody, whatever the tables say.
`OneHolderTheorem` draws the conclusion from the pool alone: two pugs never hold
one server that no failure has touched, whether the daemon runs, is down or is
loading.

`RconStreamProofs` proves the invariants of the run `rcon` for any number of
commands, any length of replies and any set of commands that cannot be encoded.
`OwnReply` is not inductive: the inductive invariant describes the connection
stage by stage, `Authing`, `Resting` and `InFlight`, the last as `Sending` (the
command is on its way) or `Replying`: what was read, the packet in the callback
and what is on the wire are together the data of the command, the mirror, and
the end. That commands before the one in flight have all been answered
(`AllAnswered`), and that the packet that completes a reply is handled by the
callback that is about to run, makes `ReadIsAnswered` part of it.

`RconRefinementProofs` proves `ImplementsService` from it. A command is executed
when the game server takes it from the wire; that everything before it has been
answered by then is what the queue and `_busy` are for, and follows from
`Sending` and `AllAnswered`. The packet that ends a reply is one step of the
service, since `Replying` says that what was read is the whole output.

The assumptions of all modules are the named ones, which TLC evaluates in the
runs.

Every invariant, action property and refinement of the passing runs is stated by
a theorem. Only model-checked: the liveness properties (`VoteResolves`, `GatheringResolves`,
`ReplacementResolves`, `FinishedPugCloses`, `BanEnds`, `EveryCommandIsAnswered`),
since fairness is out of the prover's reach.

## Not modelled, and the plan

Not modelled for good: JSON and HTTP arguments (no state; the refusals of the
managers behind them are guards of the actions), rating arithmetic (floating
point), the legacy `Rcon.py` (not imported by the daemon), `pesapi` and
`Livelogs` (single HTTP posts), the socket of the UDP listener (a lost datagram
is a log line that never comes).

Left, and covered by no run:

1. `Shuffle`: medic selection and the swaps of `__allocate_players` against the
   definition of a balanced split, over bounded ratings. `Pug` takes any equal
   split that has room for a medic each.
2. `GameStats`: scores and statistics, pauses between rounds, late lines.
3. `AuthCache`: the users' cache with its expiry and the creation of managers.
4. In `Fleet`, servers that leave and rejoin the group, and a new pug whose
   INSERT fails.
