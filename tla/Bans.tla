-------------------------------- MODULE Bans --------------------------------
(***************************************************************************)
(* BanManager (puglib/bans.py) over the table "bans" (get_bans and         *)
(* flush_ban of interfaces/database.py), with crashes and restarts of the  *)
(* daemon.  A handler changes the ban object first and flushes it after, a *)
(* flush may raise, and what was changed in memory by then stays changed.  *)
(* A flush that raises has not committed: one that raises after its commit *)
(* is not modelled.  The reason of a ban is treated as its duration is, and*)
(* left out.  A definition with an underscore in its name is a faulty      *)
(* variant of the one it stands before, which some property must notice.   *)
(***************************************************************************)
EXTENDS Integers, FiniteSets

CONSTANTS
  Players,        \* Steam ids
  Durations,      \* seconds, 0 (or None) for a permanent ban
  FlushOutcomes,  \* {TRUE} when no flush raises, BOOLEAN when one may
  NoBan,          \* the content of a row that was never inserted
  MaxRows,        \* bound on the rows ever inserted
  MaxTime         \* bound on the clock

ASSUME DurationsAssumption == Durations \subseteq Nat
ASSUME FlushAssumption == FlushOutcomes \subseteq BOOLEAN
ASSUME BoundsAssumption == MaxRows \in Nat /\ MaxTime \in Nat

VARIABLES
  up,     \* the daemon runs
  bans,   \* the ids of the bans in self.bans
  mem,    \* the Ban object with each id
  rows,   \* the row with each id
  dirty,  \* history: held bans whose last flush raised
  now     \* time.time()

vars == <<up, bans, mem, rows, dirty, now>>

Ids == 1 .. MaxRows

Ban == [who: Players, start: 0 .. MaxTime, duration: Durations, expired: BOOLEAN]

ASSUME NoBanAssumption == NoBan \notin Ban

-----------------------------------------------------------------------------
(* The rows that get_bans returns: those with expired = false.             *)
Active == {i \in Ids : rows[i] # NoBan /\ ~rows[i].expired}

(* get_player_ban, which the pug managers ask before a player may join.    *)
BansOf(p) == {i \in bans : mem[i].who = p}

(* check_expiration, of a ban that may have expired before.                *)
Over_NeverRetried(b) ==
  ~b.expired /\ b.duration # 0 /\ now > b.start + b.duration

Over(b) ==
  b.expired \/ (b.duration # 0 /\ now > b.start + b.duration)

UpdatedRow_WithoutDuration(r, b) == [r EXCEPT !.expired = b.expired]

(* The column of the start is an integer, and time.time() is rounded to the*)
(* nearest second when it is stored.                                       *)
Rounded(t) == {t, t + 1}

AsStored(b) == {[b EXCEPT !.start = t] : t \in Rounded(b.start)}

(* The UPDATE of flush_ban leaves the other columns as they are.           *)
UpdatedRow(r, b) == [r EXCEPT !.duration = b.duration, !.expired = b.expired]

-----------------------------------------------------------------------------
Init ==
  /\ up = FALSE
  /\ bans = {}
  /\ mem = [i \in Ids |-> NoBan]
  /\ rows = [i \in Ids |-> NoBan]
  /\ dirty = {}
  /\ now = 0

Start_NotHydrated ==
  /\ ~up
  /\ up' = TRUE
  /\ bans' = Active
  /\ UNCHANGED <<mem, rows, dirty, now>>

Start_LoadsHistory ==
  /\ ~up
  /\ up' = TRUE
  /\ bans' = {i \in Ids : rows[i] # NoBan}
  /\ mem' = rows
  /\ UNCHANGED <<rows, dirty, now>>

(* __load_bans.  When the query fails the daemon does not come up.         *)
Start ==
  /\ ~up
  /\ up' = TRUE
  /\ bans' = Active
  /\ mem' = rows
  /\ UNCHANGED <<rows, dirty, now>>

Crash ==
  /\ up
  /\ up' = FALSE
  /\ bans' = {}
  /\ mem' = [i \in Ids |-> NoBan]
  /\ dirty' = {}
  /\ UNCHANGED <<rows, now>>

(* The id column is a serial.                                              *)
FreeIds == {i \in Ids : rows[i] = NoBan}
NextId == CHOOSE i \in FreeIds : \A j \in FreeIds : i <= j

(* add_ban for a player who has no ban: the row is inserted, and only then *)
(* is the ban held.  A flush that raises leaves nothing behind.            *)
AddNew_Regardless(b) ==
  \E i \in FreeIds, r \in AsStored(b) :
    /\ TRUE \in FlushOutcomes
    /\ i = NextId
    /\ rows' = [rows EXCEPT ![i] = r]
    /\ mem' = [mem EXCEPT ![i] = b]
    /\ bans' = bans \cup {i}
    /\ UNCHANGED dirty

AddNew(b) ==
  \E i \in FreeIds, r \in AsStored(b) :
    /\ TRUE \in FlushOutcomes
    /\ BansOf(b.who) = {}
    /\ i = NextId
    /\ rows' = [rows EXCEPT ![i] = r]
    /\ mem' = [mem EXCEPT ![i] = b]
    /\ bans' = bans \cup {i}
    /\ UNCHANGED dirty

(* add_ban for a player who has one: the object takes the new values, its  *)
(* start and expired among them, before the row does.                      *)
Renew(b) ==
  \E i \in BansOf(b.who), ok \in FlushOutcomes :
    /\ mem' = [mem EXCEPT ![i] = b]
    /\ rows' = IF ok THEN [rows EXCEPT ![i] = UpdatedRow(@, b)] ELSE rows
    /\ dirty' = IF ok THEN dirty \ {i} ELSE dirty \cup {i}
    /\ UNCHANGED bans

(* add_ban.  MaxTime bounds the bans to those that end before it, as they  *)
(* are stored: no ban is renewed for ever.                                 *)
AddBan(p, d) ==
  /\ up
  /\ now + d + 1 < MaxTime
  /\ LET b == [who |-> p, start |-> now, duration |-> d, expired |-> FALSE]
     IN  AddNew(b) \/ Renew(b)
  /\ UNCHANGED <<up, now>>

(* _remove_ban of every ban in D; then, unless F is empty, of the one ban  *)
(* in F, whose flush raises and leaves the object expired and held.        *)
Lift_RemovesFirst(D, F) ==
  /\ mem' = [i \in Ids |-> IF i \in D \cup F THEN [mem[i] EXCEPT !.expired = TRUE] ELSE mem[i]]
  /\ rows' = [i \in Ids |-> IF i \in D THEN UpdatedRow(rows[i], mem'[i]) ELSE rows[i]]
  /\ bans' = bans \ (D \cup F)
  /\ dirty' = dirty \ (D \cup F)
  /\ UNCHANGED <<up, now>>

Lift(D, F) ==
  /\ mem' = [i \in Ids |-> IF i \in D \cup F THEN [mem[i] EXCEPT !.expired = TRUE] ELSE mem[i]]
  /\ rows' = [i \in Ids |-> IF i \in D THEN UpdatedRow(rows[i], mem'[i]) ELSE rows[i]]
  /\ bans' = bans \ D
  /\ dirty' = (dirty \ D) \cup F
  /\ UNCHANGED <<up, now>>

RemoveBan(p) ==
  /\ up
  /\ \E i \in BansOf(p), ok \in FlushOutcomes :
       IF ok THEN Lift({i}, {}) ELSE Lift({}, {i})

(* check_bans goes over the bans in the order of a set and stops at the    *)
(* first flush that raises.                                                *)
Lapsed == {i \in bans : Over(mem[i])}

CheckAll ==
  /\ up
  /\ TRUE \in FlushOutcomes
  /\ Lapsed # {}
  /\ Lift(Lapsed, {})

CheckSome ==
  /\ up
  /\ FALSE \in FlushOutcomes
  /\ \E i \in Lapsed : \E D \in SUBSET (Lapsed \ {i}) :
       (D # {} => TRUE \in FlushOutcomes) /\ Lift(D, {i})

Tick ==
  /\ now < MaxTime
  /\ now' = now + 1
  /\ UNCHANGED <<up, bans, mem, rows, dirty>>

Next ==
  \/ Start \/ Crash \/ Tick
  \/ \E p \in Players, d \in Durations : AddBan(p, d)
  \/ \E p \in Players : RemoveBan(p)
  \/ CheckAll \/ CheckSome

Spec == Init /\ [][Next]_vars

(* check_bans runs every ten minutes, and the database accepts every flush *)
(* of some later round.                                                    *)
FairSpec == Spec /\ WF_vars(Tick) /\ WF_vars(CheckAll)

-----------------------------------------------------------------------------
(* Every ban that is held or stored is a ban.                              *)
TypeOK ==
  /\ up \in BOOLEAN
  /\ bans \in SUBSET Ids
  /\ mem \in [Ids -> Ban \cup {NoBan}]
  /\ rows \in [Ids -> Ban \cup {NoBan}]
  /\ dirty \in SUBSET bans
  /\ now \in 0 .. MaxTime
  /\ \A i \in bans : mem[i] # NoBan

(* The manager holds exactly the bans that the table has as active, and    *)
(* under the same players, whatever flushes raised before they committed   *)
(* and after any restart: no banned player slips in, and no lifted ban is  *)
(* still enforced.                                                         *)
HeldIsActive ==
  up => bans = Active /\ \A i \in bans : mem[i].who = rows[i].who

(* A player has one ban at the most, held or stored: a second one would    *)
(* survive remove_ban, which removes the first it finds.                   *)
OneBanPerPlayer ==
  /\ \A i, j \in bans : mem[i].who = mem[j].who => i = j
  /\ \A i, j \in Active : rows[i].who = rows[j].who => i = j

(* Unless its last flush raised, a held ban has in its row the duration and*)
(* the expiry that the manager goes by.                                    *)
FlushedBansAgree ==
  \A i \in bans \ dirty :
    rows[i].duration = mem[i].duration /\ rows[i].expired = mem[i].expired

(* The table keeps the history of bans: a ban that was lifted is never in  *)
(* force again, and never handed to another player.                        *)
LiftedStaysLifted ==
  [][\A i \in Ids : (rows[i] # NoBan /\ rows[i].expired) => rows'[i] = rows[i]]_vars

(* A ban that is timed, or that somebody tried to lift, goes away, even    *)
(* when flushes raise, unless it is made permanent or the daemon dies.  A  *)
(* ban that is renewed before it ends, again and again, does not: MaxTime  *)
(* leaves every ban a last renewal.                                        *)
BanEnds ==
  \A i \in Ids :
    (up /\ i \in bans /\ (mem[i].expired \/ mem[i].duration # 0))
      ~> (~up \/ i \notin bans \/ (~mem[i].expired /\ mem[i].duration = 0))

-----------------------------------------------------------------------------
(* puglib/bans.py:199-202: the database is consistent with what the manager*)
(* holds, but for the rounding (and when no flush raised, as dirty tells). *)
DatabaseConsistent == \A i \in bans \ dirty : rows[i] \in AsStored(mem[i])

=============================================================================
