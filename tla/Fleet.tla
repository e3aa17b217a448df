------------------------------- MODULE Fleet -------------------------------
(***************************************************************************)
(* The daemon around the pugs: the pug managers of one group, the game     *)
(* servers they share, and the tables both are kept in, through crashes,   *)
(* shutdowns and restarts (apiserver.py, puglib/PugManager.py,             *)
(* serverlib/ServerManager.py, entities/Server.py, interfaces/database.py).*)
(*                                                                         *)
(* A handler runs to its end or is cut short by a crash, which leaves what *)
(* it had written to the tables by then.  Faults names the calls that may  *)
(* fail; "hurt" remembers the servers whose pugs a failure has touched.    *)
(* Of a pug only its players are kept, and whether its game is over; bans, *)
(* ratings and the phases of a pug are in the modules Bans and Pug.  A     *)
(* definition with an underscore in its name is a faulty variant of the one*)
(* it stands before, which some property must notice.                      *)
(***************************************************************************)
EXTENDS Integers, FiniteSets

CONSTANTS
  Managers,    \* the API keys, each with its PugManager, all in one group
  Late,        \* the keys that are added to api_keys while the daemon runs
  Servers,     \* the rows of the servers table, all in one group
  Players,
  MaxPugs,     \* bound on the pugs that are created
  Size,        \* the size of every pug
  Faults,      \* the calls that may fail
  MaxHurt,     \* bound on the servers that failures touch
  Nobody,      \* no manager
  Nowhere      \* no server

ASSUME ManagersAssumption == Late \subseteq Managers /\ Late # Managers /\ Nobody \notin Managers
ASSUME ServersAssumption == IsFiniteSet(Servers) /\ Nowhere \notin Servers
ASSUME PlayersAssumption == IsFiniteSet(Players)
ASSUME BoundsAssumption == MaxPugs \in Nat /\ Size \in Nat /\ MaxHurt \in Nat
ASSUME FaultsAssumption ==
  Faults \subseteq {"reserve", "prepare", "reset", "connection",
                    "flush_pug", "flush_server", "get_pugs"}

VARIABLES
  boot,      \* how far the daemon is with its start
  grouped,   \* the managers that know each other: they were loaded together
  obj,       \* the Pug objects in the managers' lists
  srv,       \* the Server objects
  keys,      \* table api_keys
  row,       \* tables pugs and pugs_index
  srow,      \* table servers: the column pug_id
  owner,     \* the manager whose create_pug made a pug
  home,      \* the server it was given; neither ever changes
  hurt,      \* history: the servers whose pugs were touched by a failure
  doubled    \* history: the players a restart put back into two pugs

memory == <<boot, grouped, obj, srv, doubled>>
tables == <<keys, row, srow>>
vars == <<boot, grouped, obj, srv, keys, row, srow, owner, home, hurt, doubled>>

Pugs == 1 .. MaxPugs
None == 0        \* None as a pug; -1, or whatever is not positive, as an id

-----------------------------------------------------------------------------
(* "over" is GAME_OVER; "reopened" a pug somebody left after that.         *)
PugStates == {"none", "open", "over", "reopened"}
NoPug == [players |-> {}, state |-> "none"]

(* A row is "finished" when pugs_index says so; nobody reads it again.     *)
RowStates == {"none", "open", "reopened", "finished"}
Finished == [players |-> {}, state |-> "finished"]

Free == [pug |-> None, pid |-> None, listens |-> FALSE]

Down == [phase |-> "down", todo |-> {}, cur |-> Nobody, unread |-> {}]
Up == [phase |-> "up", todo |-> {}, cur |-> Nobody, unread |-> {}]

Listed == {q \in Pugs : obj[q].state # "none"}
Unfinished == {q \in Pugs : row[q].state \in {"open", "reopened"}}

InUse_ById(s) == srv[s].pid # None

(* Server.in_use.                                                          *)
InUse(s) == srv[s].pug # None \/ srv[s].pid # None

(* A manager and those it has in group_managers.                           *)
View(m) == IF m \in grouped THEN grouped ELSE {m}

InPug_OwnManagerOnly(p, m) == \E q \in Listed : owner[q] = m /\ p \in obj[q].players

(* PugManager._player_in_pug.                                              *)
InPug(p, m) == \E q \in Listed : owner[q] \in View(m) /\ p \in obj[q].players

-----------------------------------------------------------------------------
(* Tables, and what failures do to them.                                   *)
Hurts(s) ==
  /\ hurt' = hurt \cup {s}
  /\ Cardinality(hurt') <= MaxHurt

FlushedRow_WithoutIndex(r, o) == o

(* flush_pug of the object o over the row r.  A row that once was finished *)
(* stays so.                                                               *)
FlushedRow(r, o) ==
  IF r.state = "finished" \/ o.state = "over" THEN Finished ELSE o

(* The flush of one pug; its failure is logged and nobody is told.  When   *)
(* there is no connection to be had it raises, which makes a difference in *)
(* EndPug only: elsewhere nothing is left to do that this module keeps.    *)
FlushPug(q, o) ==
  \/ /\ row' = [row EXCEPT ![q] = FlushedRow(row[q], o)]
     /\ UNCHANGED hurt
  \/ /\ "flush_pug" \in Faults
     /\ Hurts(home[q])
     /\ UNCHANGED row

(* The flush of one server.                                                *)
FlushServer(s, pid) ==
  \/ srow' = [srow EXCEPT ![s] = pid]
  \/ "flush_server" \in Faults /\ UNCHANGED srow

(* What a flush would change.                                              *)
Unwritten == {q \in Listed : row[q] # FlushedRow(row[q], obj[q])}
Stale == {s \in Servers : srow[s] # srv[s].pid}

(* flush_all of every manager: the pugs in P and the servers in S are      *)
(* written.                                                                *)
FlushAll(P, S) ==
  /\ row' = [q \in Pugs |-> IF q \in P THEN FlushedRow(row[q], obj[q]) ELSE row[q]]
  /\ srow' = [s \in Servers |-> IF s \in S THEN srv[s].pid ELSE srow[s]]

(* The process ends, and its memory with it.                               *)
Dies ==
  /\ boot' = Down
  /\ grouped' = {}
  /\ obj' = [q \in Pugs |-> NoPug]
  /\ srv' = [s \in Servers |-> Free]
  /\ doubled' = {}

-----------------------------------------------------------------------------
Init ==
  /\ boot = Down
  /\ grouped = {}
  /\ obj = [q \in Pugs |-> NoPug]
  /\ srv = [s \in Servers |-> Free]
  /\ keys = Managers \ Late
  /\ row = [q \in Pugs |-> NoPug]
  /\ srow = [s \in Servers |-> None]
  /\ owner = [q \in Pugs |-> Nobody]
  /\ home = [q \in Pugs |-> Nowhere]
  /\ hurt = {}
  /\ doubled = {}

Ended_TooLate(o) == o

(* What _end_pug sets before it flushes the pug.                           *)
Ended(o) == [o EXCEPT !.state = "over"]

(* PugManager._end_pug of the object o: the server is reset and flushed,   *)
(* then the pug, which leaves the list.  A crash may come between the two  *)
(* flushes.  When the reset raises, or the flush of the pug for want of a  *)
(* connection, the server is free of the pug, and the pug stays listed.  A *)
(* flush of the server that raises is taken for a reset that does: that it *)
(* would close the listener too only takes log lines away.                 *)
EndPug(q, o) ==
  LET s == home[q]
  IN  /\ UNCHANGED <<keys, owner, home>>
      /\ \/ /\ FlushServer(s, None)
            /\ FlushPug(q, Ended(o))
            /\ srv' = [srv EXCEPT ![s] = Free]
            /\ obj' = [obj EXCEPT ![q] = NoPug]
            /\ UNCHANGED <<boot, grouped, doubled>>
         \/ /\ srow' = [srow EXCEPT ![s] = None]
            /\ Dies
            /\ UNCHANGED <<row, hurt>>
         \/ /\ "reset" \in Faults
            /\ boot.phase = "up"
            /\ Hurts(s)
            /\ srv' = [srv EXCEPT ![s].pug = None, ![s].pid = None]
            /\ obj' = [obj EXCEPT ![q] = o]
            /\ UNCHANGED <<boot, grouped, doubled, row, srow>>
         \/ /\ "connection" \in Faults
            /\ boot.phase = "up"
            /\ Hurts(s)
            /\ srv' = [srv EXCEPT ![s] = Free]
            /\ obj' = [obj EXCEPT ![q] = Ended(o)]
            /\ srow' = [srow EXCEPT ![s] = None]
            /\ UNCHANGED <<boot, grouped, doubled, row>>

(* PugManager.create_pug: the first server that is not in use is reserved, *)
(* the pug is listed and flushed, and the server prepared and flushed.     *)
(* When the reservation raises, the server keeps a pug that nobody lists;  *)
(* when prepare() does, there is neither a listener nor a flush.           *)
Create(m, p, q, s) ==
  LET new == [players |-> {p}, state |-> "open"]
  IN  /\ boot.phase = "up"
      /\ m \in keys
      /\ ~InPug(p, m)
      /\ owner[q] = Nobody
      /\ \A r \in Pugs : r < q => owner[r] # Nobody
      /\ ~InUse(s)
      /\ owner' = [owner EXCEPT ![q] = m]
      /\ home' = [home EXCEPT ![q] = s]
      /\ UNCHANGED keys
      /\ \/ /\ obj' = [obj EXCEPT ![q] = new]
            /\ row' = [row EXCEPT ![q] = new]
            /\ \/ /\ srv' = [srv EXCEPT ![s] = [pug |-> q, pid |-> q, listens |-> TRUE]]
                  /\ FlushServer(s, q)
               \/ /\ "prepare" \in Faults
                  /\ srv' = [srv EXCEPT ![s].pug = q, ![s].pid = q]
                  /\ UNCHANGED srow
            /\ UNCHANGED <<boot, grouped, doubled, hurt>>
         \/ /\ row' = [row EXCEPT ![q] = new]
            /\ Dies
            /\ UNCHANGED <<srow, hurt>>
         \/ /\ "reserve" \in Faults
            /\ srv' = [srv EXCEPT ![s].pug = q]
            /\ UNCHANGED <<boot, grouped, obj, doubled, row, srow, hurt>>

(* add_player.  The pug is flushed.  One who completes a reopened pug takes*)
(* it back to the state it was left in.                                    *)
Joined(o, p) ==
  LET all == o.players \cup {p}
  IN  [players |-> all,
       state |-> IF o.state = "reopened" /\ Cardinality(all) = Size THEN "over" ELSE o.state]

CanJoin(p, q) ==
  /\ boot.phase = "up"
  /\ q \in Listed
  /\ ~InPug(p, owner[q])
  /\ Cardinality(obj[q].players) < Size
  /\ UNCHANGED <<boot, grouped, srv, doubled, keys, srow, owner, home>>

Join_WithoutFlush(p, q) ==
  /\ CanJoin(p, q)
  /\ obj' = [obj EXCEPT ![q] = Joined(obj[q], p)]
  /\ UNCHANGED <<row, hurt>>

Join(p, q) ==
  /\ CanJoin(p, q)
  /\ obj' = [obj EXCEPT ![q] = Joined(obj[q], p)]
  /\ FlushPug(q, Joined(obj[q], p))

(* remove_player, and the removal of one who is disconnected: no flush,    *)
(* unless it was the last player.                                          *)
Leave(p, q) ==
  LET o == [players |-> obj[q].players \ {p},
            state |-> IF obj[q].state = "over" THEN "reopened" ELSE obj[q].state]
  IN  /\ boot.phase = "up"
      /\ q \in Listed
      /\ p \in obj[q].players
      /\ IF o.players = {} THEN EndPug(q, o)
         ELSE /\ obj' = [obj EXCEPT ![q] = o]
              /\ UNCHANGED <<boot, grouped, srv, doubled, tables, owner, home, hurt>>

(* end_pug, and every branch of status_check that ends a pug.              *)
End(q) ==
  /\ boot.phase = "up"
  /\ q \in Listed
  /\ EndPug(q, obj[q])

(* vote_map, force_map, and the shuffle in status_check: a pug is flushed. *)
Progress(q) ==
  /\ boot.phase = "up"
  /\ q \in Listed
  /\ obj[q].state = "open"
  /\ FlushPug(q, obj[q])
  /\ UNCHANGED <<memory, keys, srow, owner, home>>

(* Game_Over, a log line: it needs the server's listener.                  *)
GameOver(s) ==
  /\ boot.phase = "up"
  /\ srv[s].listens
  /\ srv[s].pug \in Listed
  /\ obj' = [obj EXCEPT ![srv[s].pug].state = "over"]
  /\ UNCHANGED <<boot, grouped, srv, doubled, tables, owner, home, hurt>>

(* _periodic_flush: all pugs and then all servers, except where it fails.  *)
PeriodicFlush ==
  /\ boot.phase = "up"
  /\ \E P \in SUBSET Unwritten, S \in SUBSET Stale :
       /\ P # Unwritten => "flush_pug" \in Faults
       /\ S # Stale => "flush_server" \in Faults
       /\ FlushAll(P, S)
  /\ UNCHANGED <<memory, keys, owner, home, hurt>>

-----------------------------------------------------------------------------
(* Death and restart.                                                      *)

(* close() writes everything and the daemon exits; a crash in the middle   *)
(* of that, of a periodic flush, or of nothing writes some of it.          *)
Stop ==
  /\ boot.phase = "up"
  /\ \E P \in SUBSET Unwritten, S \in SUBSET Stale :
       /\ S # {} => P = Unwritten
       /\ FlushAll(P, S)
  /\ Dies
  /\ UNCHANGED <<keys, owner, home, hurt>>

(* __load_servers: the objects have the id in the table, no pug and no     *)
(* listener.                                                               *)
Start ==
  /\ boot.phase = "down"
  /\ boot' = [Down EXCEPT !.phase = "loading", !.todo = keys]
  /\ srv' = [s \in Servers |-> [Free EXCEPT !.pid = srow[s]]]
  /\ UNCHANGED <<grouped, obj, doubled, tables, owner, home, hurt>>

(* PugManager.__load_pugs of one manager after the other: get_pugs, ...    *)
GetPugs(m) ==
  LET mine == {q \in Unfinished : owner[q] = m}
  IN  /\ boot.phase = "loading"
      /\ boot.cur = Nobody
      /\ m \in boot.todo
      /\ \/ /\ boot' = [boot EXCEPT !.cur = m, !.unread = mine]
            /\ UNCHANGED hurt
         \/ /\ "get_pugs" \in Faults
            /\ boot' = [boot EXCEPT !.cur = m]
            /\ hurt' = hurt \cup {home[q] : q \in mine}
            /\ Cardinality(hurt') <= MaxHurt
      /\ UNCHANGED <<grouped, obj, srv, doubled, tables, owner, home>>

(* ... then each pug is given back its server, ...                         *)
LoadPug(q) ==
  /\ q \in boot.unread
  /\ boot' = [boot EXCEPT !.unread = @ \ {q}]
  /\ obj' = [obj EXCEPT ![q] = row[q]]
  /\ srv' = [srv EXCEPT ![home[q]].pug = q]
  /\ UNCHANGED <<grouped, doubled, tables, owner, home, hurt>>

(* ... unless it is more than two hours old and is ended: rcon only queues *)
(* its commands then, and cannot raise, ...                                *)
LoadOld(q) ==
  LET s == home[q]
  IN  /\ q \in boot.unread
      /\ UNCHANGED <<keys, owner, home>>
      /\ \/ /\ boot' = [boot EXCEPT !.unread = @ \ {q}]
            /\ srv' = [srv EXCEPT ![s] = Free]
            /\ FlushServer(s, None)
            /\ FlushPug(q, Ended(row[q]))
            /\ UNCHANGED <<grouped, obj, doubled>>
         \/ /\ srow' = [srow EXCEPT ![s] = None]
            /\ Dies
            /\ UNCHANGED <<row, hurt>>

Orphans_None == {}

(* ... and at last reset_orphans frees the servers that have an id and no  *)
(* pug, those of the managers that have not been loaded yet included.      *)
Orphans == {s \in Servers : srv[s].pid # None /\ srv[s].pug = None}

FlushOrphans(S) == srow' = [s \in Servers |-> IF s \in S THEN None ELSE srow[s]]

ResetOrphans ==
  /\ srv' = [s \in Servers |-> IF s \in Orphans THEN Free ELSE srv[s]]
  /\ \E S \in SUBSET Orphans :
       /\ S # Orphans => "flush_server" \in Faults
       /\ FlushOrphans(S)

ManagerLoaded ==
  /\ boot.cur # Nobody
  /\ boot.unread = {}
  /\ ResetOrphans
  /\ boot' = [boot EXCEPT !.todo = @ \ {boot.cur}, !.cur = Nobody]
  /\ UNCHANGED <<grouped, obj, doubled, keys, row, owner, home, hurt>>

(* A crash while pugs are loaded, or when some orphans have been flushed.  *)
StopLoading ==
  /\ boot.phase = "loading"
  /\ \E S \in SUBSET Orphans :
       /\ S # {} => boot.cur # Nobody /\ boot.unread = {}
       /\ FlushOrphans(S)
  /\ Dies
  /\ UNCHANGED <<keys, row, owner, home, hurt>>

InTwoPugs(p) == \E q, r \in Listed : q # r /\ p \in obj[q].players \cap obj[r].players

(* All managers are loaded: they are told of each other, and late_load     *)
(* puts a listener on every server with an id.                             *)
LateLoad ==
  /\ boot.phase = "loading"
  /\ boot.todo = {}
  /\ boot' = Up
  /\ grouped' = keys
  /\ srv' = [s \in Servers |-> [srv[s] EXCEPT !.listens = srv[s].pid # None]]
  /\ doubled' = {p \in Players : InTwoPugs(p)}
  /\ UNCHANGED <<obj, tables, owner, home, hurt>>

(* get_pug_manager for a key that is new in api_keys: its manager knows no *)
(* other manager and none knows it.                                        *)
NewManager(m) ==
  /\ boot.phase = "up"
  /\ m \in Managers \ keys
  /\ keys' = keys \cup {m}
  /\ ResetOrphans
  /\ UNCHANGED <<boot, grouped, obj, doubled, row, owner, home, hurt>>

-----------------------------------------------------------------------------
Next ==
  \/ \E m \in Managers, p \in Players, q \in Pugs, s \in Servers : Create(m, p, q, s)
  \/ \E p \in Players, q \in Pugs : Join(p, q) \/ Leave(p, q)
  \/ \E q \in Pugs : End(q) \/ Progress(q) \/ LoadPug(q) \/ LoadOld(q)
  \/ \E s \in Servers : GameOver(s)
  \/ \E m \in Managers : GetPugs(m) \/ NewManager(m)
  \/ PeriodicFlush \/ Stop \/ StopLoading
  \/ Start \/ ManagerLoaded \/ LateLoad

Spec == Init /\ [][Next]_vars

-----------------------------------------------------------------------------
(* Objects, rows and columns keep their types; an index row is either      *)
(* unfinished, with a pug that may be loaded, or finished.                 *)
TypeOK ==
  /\ boot \in [phase: {"down", "loading", "up"}, todo: SUBSET Managers,
               cur: Managers \cup {Nobody}, unread: SUBSET Pugs]
  /\ grouped \subseteq keys /\ keys \subseteq Managers
  /\ obj \in [Pugs -> [players: SUBSET Players, state: PugStates]]
  /\ row \in [Pugs -> [players: SUBSET Players, state: RowStates]]
  /\ srv \in [Servers -> [pug: Pugs \cup {None}, pid: Pugs \cup {None}, listens: BOOLEAN]]
  /\ srow \in [Servers -> Pugs \cup {None}]
  /\ owner \in [Pugs -> Managers \cup {Nobody}]
  /\ home \in [Pugs -> Servers \cup {Nowhere}]
  /\ hurt \subseteq Servers
  /\ doubled \subseteq Players

IsUp == boot.phase = "up"

(* A server that no failure has touched has at most one pug, whichever     *)
(* manager made it, and knows that pug: also after any crash, restart and  *)
(* shutdown, when the pairs are put together again from the two tables.    *)
OnePugPerServer ==
  IsUp => \A q \in Listed : home[q] \notin hurt => srv[home[q]].pug = q

(* The pugs whose reservation raised: neither listed nor ever stored.      *)
Unborn == {q \in Pugs \ Listed : owner[q] # Nobody /\ row[q].state = "none"}

(* No server is lost: one that is in use has a listed pug, so that ending  *)
(* that pug frees it; or its reservation raised, and then it has no id that*)
(* could be stored, so that a restart frees it.  A crash between the       *)
(* flushes of a pug and its server takes no server out of the pool.        *)
NoServerForgotten ==
  IsUp => \A s \in Servers \ hurt :
            InUse(s) => /\ srv[s].pug \in Listed \cup Unborn
                        /\ home[srv[s].pug] = s
                        /\ srv[s].pug \in Unborn => srv[s].pid = None

(* No pug comes back from the dead: when the daemon is up, every unfinished*)
(* row belongs to a pug it manages.                                        *)
NoPugForgotten ==
  IsUp => \A q \in Unfinished : home[q] \notin hurt => q \in Listed

(* A crash at any moment loses no pug whose game is not over, and nobody   *)
(* who joined it: the row lags behind only for those who left.             *)
PugsSurvive ==
  IsUp => \A q \in Listed :
            (obj[q].state = "open" /\ home[q] \notin hurt) =>
               row[q].state = "open" /\ obj[q].players \subseteq row[q].players

(* Nobody is in two pugs of managers that know each other, unless a restart*)
(* put back a player who had left without a flush.                         *)
OnePugPerMember ==
  IsUp => \A q, r \in Listed :
            (q # r /\ owner[r] \in View(owner[q])) =>
               obj[q].players \cap obj[r].players \subseteq doubled

-----------------------------------------------------------------------------
(* What the repository says, and the code does not do.                     *)

(* serverlib/ServerManager.py:52-57: an orphan is a server whose pug is not*)
(* coming back, so a server loses its id while pugs are loaded only when it*)
(* has no unfinished pug.                                                  *)
OnlyOrphansAreReset ==
  [][\A s \in Servers :
       (boot.phase = "loading" /\ boot'.phase = "loading"
          /\ srv[s].pid # None /\ srv'[s].pid = None)
         => home[srv[s].pid] # s \/ row'[srv[s].pid].state = "finished"]_vars

=============================================================================
