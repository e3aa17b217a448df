---------------------------- MODULE FleetProofs ----------------------------
(***************************************************************************)
(* Theorems about Fleet, for every set of managers, servers and players,   *)
(* every bound and every combination of the failures in Faults.            *)
(*                                                                         *)
(* The properties speak of a daemon that is up.  That they hold again      *)
(* after a restart depends on what the tables say while it is down, and on *)
(* how far the loading of the pugs has come: IInv says both.               *)
(***************************************************************************)
EXTENDS Fleet, TLAPS

(* A pug that is listed or has a row was made by a manager with a key, and *)
(* was given a server.                                                     *)
Made ==
  \A q \in Pugs :
    /\ owner[q] # Nobody => owner[q] \in keys /\ home[q] \in Servers
    /\ q \in Listed \cup Unfinished => owner[q] # Nobody

(* How far the start is: the manager being loaded is one of those that are *)
(* still to be loaded, and what it has not read yet is its own.            *)
Booting ==
  /\ Managers \ Late \subseteq keys
  /\ boot.todo \subseteq keys
  /\ boot.cur # Nobody => boot.cur \in boot.todo
  /\ boot.cur # Nobody => boot.phase = "loading"
  /\ boot.unread \subseteq {q \in Unfinished : owner[q] = boot.cur}
  /\ boot.phase = "down" => Listed = {}

(* The two directions between pugs and servers.                            *)
Paired ==
  /\ \A q \in Listed : home[q] \notin hurt => srv[home[q]].pug = q
  /\ \A s \in Servers \ hurt :
       srv[s].pug # None =>
         /\ srv[s].pug \in Listed \cup Unborn
         /\ home[srv[s].pug] = s
         /\ srv[s].pug \in Unborn => srv[s].pid = None

(* No two pugs that a restart would load have the same server.             *)
Apart ==
  \A q, r \in Listed \cup Unfinished :
    home[q] = home[r] /\ home[q] \notin hurt => q = r

(* While the daemon is up.                                                 *)
Managed ==
  IsUp =>
    /\ \A q \in Unfinished : home[q] \notin hurt => q \in Listed
    /\ \A q \in Listed :
         (obj[q].state = "open" /\ home[q] \notin hurt) =>
            row[q].state = "open" /\ obj[q].players \subseteq row[q].players
    /\ \A s \in Servers \ hurt : srv[s].pug = None => srv[s].pid = None

(* While pugs are loaded: a pug of a manager that has been loaded is listed*)
(* as its row says, and after the first manager no orphan is left.         *)
Loading ==
  boot.phase = "loading" =>
    /\ \A q \in Listed :
         /\ q \in Unfinished
         /\ obj[q] = row[q]
         /\ q \notin boot.unread
         /\ owner[q] \in boot.todo => owner[q] = boot.cur
    /\ \A q \in Unfinished : home[q] \notin hurt =>
         /\ q \in Listed \/ owner[q] \in boot.todo
         /\ owner[q] = boot.cur => q \in Listed \cup boot.unread
    /\ boot.todo # keys => \A s \in Servers \ hurt : srv[s].pug = None => srv[s].pid = None

(* Only a pug that was made has a row.                                     *)
Stored == \A q \in Pugs : row[q].state # "none" => owner[q] # Nobody

IInv == TypeOK /\ Made /\ Booting /\ Paired /\ Apart /\ Managed /\ Loading

-----------------------------------------------------------------------------
(* The types of a Pug object, of a row, and of an object that is flushed.  *)
Objs == [players: SUBSET Players, state: PugStates]
Rows == [players: SUBSET Players, state: RowStates]
Live == [players: SUBSET Players, state: {"open", "over", "reopened"}]
Srvs == [pug: Pugs \cup {None}, pid: Pugs \cup {None}, listens: BOOLEAN]

(* A server is given another pug, or another pug and id.                   *)
LEMMA ServerTaken ==
  ASSUME srv \in [Servers -> Srvs], NEW s \in Servers, NEW q \in Pugs \cup {None}
  PROVE  /\ [srv EXCEPT ![s].pug = q] \in [Servers -> Srvs]
         /\ [srv EXCEPT ![s].pug = q, ![s].pid = q] \in [Servers -> Srvs]
<1> DEFINE x == [srv[s] EXCEPT !.pug = q]
           y == [srv[s] EXCEPT !.pug = q, !.pid = q]
<1>1. x \in Srvs /\ y \in Srvs
  BY DEF Srvs
<1>2. [srv EXCEPT ![s].pug = q] = [srv EXCEPT ![s] = x]
  OBVIOUS
<1>3. [srv EXCEPT ![s].pug = q, ![s].pid = q] = [srv EXCEPT ![s] = y]
  OBVIOUS
<1> HIDE DEF x, y
<1> QED BY <1>1, <1>2, <1>3

(* What a row becomes: finished, or the object that was flushed.           *)
LEMMA FlushedRowIs ==
  ASSUME NEW r \in Rows, NEW o \in Live
  PROVE  /\ FlushedRow(r, o) \in Rows
         /\ FlushedRow(r, o) \in {o, Finished}
         /\ o.state = "over" => FlushedRow(r, o) = Finished
         /\ (o.state = "open" /\ r.state # "finished") => FlushedRow(r, o) = o
<1> QED BY DEF FlushedRow, Rows, Live, Finished, RowStates

(* The flush of one pug: no other row changes, and when it is lost its     *)
(* server is marked.                                                       *)
LEMMA FlushPugDoes ==
  ASSUME TypeOK, NEW q \in Pugs, NEW o \in Live, home[q] \in Servers, FlushPug(q, o)
  PROVE  /\ row' \in [Pugs -> Rows]
         /\ \A r \in Pugs : r # q => row'[r] = row[r]
         /\ row'[q] \in {row[q], FlushedRow(row[q], o)}
         /\ home[q] \notin hurt' => row'[q] = FlushedRow(row[q], o)
         /\ hurt \subseteq hurt' /\ hurt' \subseteq Servers
<1> USE DEF Rows, TypeOK
<1>1. FlushedRow(row[q], o) \in Rows
  BY FlushedRowIs
<1>2. CASE row' = [row EXCEPT ![q] = FlushedRow(row[q], o)] /\ UNCHANGED hurt
  BY <1>1, <1>2
<1>3. CASE Hurts(home[q]) /\ UNCHANGED row
  BY <1>3 DEF Hurts
<1> QED BY <1>2, <1>3 DEF FlushPug

(* A step of a daemon that is up, and that changes pugs but neither the    *)
(* list of them nor the servers.                                           *)
LEMMA PugStepKeeps ==
  ASSUME IInv, IsUp, TypeOK',
         UNCHANGED <<boot, keys, owner, home, srv>>,
         hurt \subseteq hurt',
         Listed' = Listed,
         Unfinished' \subseteq Unfinished \cup Listed,
         \A r \in Pugs \ Listed : row'[r] = row[r],
         \A r \in Listed : (obj'[r].state = "open" /\ home[r] \notin hurt') =>
            row'[r].state = "open" /\ obj'[r].players \subseteq row'[r].players
  PROVE  IInv'
<1> USE DEF IInv
<1>0. boot.unread = {} /\ boot.cur = Nobody /\ boot.phase = "up"
  BY DEF IsUp, Booting, TypeOK, Made
<1>1. Made'
  BY DEF Made
<1>2. Booting'
  BY <1>0 DEF Booting
<1>3. Paired'
  BY DEF Paired, Unborn
<1>4. Apart'
  BY DEF Apart
<1>5. Managed'
  BY DEF Managed, IsUp
<1>6. Loading'
  BY <1>0 DEF Loading
<1> QED BY <1>1, <1>2, <1>3, <1>4, <1>5, <1>6

(* The process dies and leaves the tables in a state from which no two pugs*)
(* would be given one server.                                              *)
LEMMA DiesKeeps ==
  ASSUME IInv, Dies, TypeOK', keys' = keys, Made', hurt' = hurt,
         \A q, r \in Unfinished' : home'[q] = home'[r] /\ home'[q] \notin hurt => q = r
  PROVE  IInv'
<1> USE DEF IInv, Dies
<1>1. boot' = Down /\ Listed' = {} /\ \A s \in Servers : srv'[s].pug = None
  BY DEF Listed, NoPug, Free
<1>2. Booting'
  BY <1>1 DEF Booting, Down
<1>3. Paired'
  BY <1>1 DEF Paired
<1>4. Apart'
  BY <1>1 DEF Apart
<1>5. Managed' /\ Loading'
  BY <1>1 DEF Managed, Loading, IsUp, Down
<1> QED BY <1>2, <1>3, <1>4, <1>5

-----------------------------------------------------------------------------
(* Handlers that leave the list and the servers alone.                     *)
LEMMA JoinKeeps ==
  ASSUME IInv, NEW p \in Players, NEW q \in Pugs, Join(p, q)
  PROVE  IInv'
<1> DEFINE o == Joined(obj[q], p)
<1> USE DEF IInv
<1>1. IsUp /\ q \in Listed /\ home[q] \in Servers
  BY DEF Join, CanJoin, IsUp, Made
<1>2. /\ o \in Live
      /\ o.state = "open" => obj[q].state = "open"
  BY <1>1 DEF Joined, Live, TypeOK, Listed, PugStates
<1>3. /\ obj' = [obj EXCEPT ![q] = o]
      /\ FlushPug(q, o)
      /\ UNCHANGED <<boot, grouped, srv, doubled, keys, srow, owner, home>>
  BY DEF Join, CanJoin
<1> HIDE DEF o
<1>4. /\ row' \in [Pugs -> Rows]
      /\ \A r \in Pugs : r # q => row'[r] = row[r]
      /\ row'[q] \in {row[q], FlushedRow(row[q], o)}
      /\ home[q] \notin hurt' => row'[q] = FlushedRow(row[q], o)
      /\ hurt \subseteq hurt' /\ hurt' \subseteq Servers
  BY <1>1, <1>2, <1>3, FlushPugDoes
<1>5. TypeOK'
  BY <1>2, <1>3, <1>4 DEF TypeOK, Live, PugStates, Rows
<1>6. Listed' = Listed
  BY <1>1, <1>2, <1>3 DEF Listed, Live, TypeOK
<1>7. Unfinished' \subseteq Unfinished \cup Listed
  BY <1>1, <1>4 DEF Unfinished
<1>8. \A r \in Listed : (obj'[r].state = "open" /\ home[r] \notin hurt') =>
         row'[r].state = "open" /\ obj'[r].players \subseteq row'[r].players
  <2> SUFFICES ASSUME NEW r \in Listed, obj'[r].state = "open", home[r] \notin hurt'
               PROVE  row'[r].state = "open" /\ obj'[r].players \subseteq row'[r].players
    OBVIOUS
  <2>1. CASE r = q
    <3>1. obj'[q] = o /\ row[q].state = "open" /\ row[q] \in Rows
      BY <1>1, <1>2, <1>3, <1>4, <2>1 DEF TypeOK, Managed, Rows
    <3> QED BY <1>2, <1>4, <2>1, <3>1, FlushedRowIs
  <2>2. CASE r # q
    BY <1>1, <1>3, <1>4, <2>2 DEF Managed, Listed, TypeOK
  <2> QED BY <2>1, <2>2
<1> QED BY <1>1, <1>3, <1>4, <1>5, <1>6, <1>7, <1>8, PugStepKeeps

(* A flush changes nothing that the row did not already say.               *)
LEMMA ProgressKeeps ==
  ASSUME IInv, NEW q \in Pugs, Progress(q)
  PROVE  IInv'
<1> USE DEF IInv
<1>1. IsUp /\ q \in Listed /\ obj[q].state = "open" /\ home[q] \in Servers
  BY DEF Progress, IsUp, Made
<1>2. obj[q] \in Live
  BY <1>1 DEF Live, TypeOK, PugStates
<1>3. FlushPug(q, obj[q]) /\ UNCHANGED <<boot, grouped, obj, srv, doubled, keys, srow, owner, home>>
  BY DEF Progress, memory
<1>4. /\ row' \in [Pugs -> Rows]
      /\ \A r \in Pugs : r # q => row'[r] = row[r]
      /\ row'[q] \in {row[q], FlushedRow(row[q], obj[q])}
      /\ home[q] \notin hurt' => row'[q] = FlushedRow(row[q], obj[q])
      /\ hurt \subseteq hurt' /\ hurt' \subseteq Servers
  BY <1>1, <1>2, <1>3, FlushPugDoes
<1>5. TypeOK'
  BY <1>3, <1>4 DEF TypeOK, Rows
<1>6. Listed' = Listed
  BY <1>3 DEF Listed
<1>7. Unfinished' \subseteq Unfinished \cup Listed
  BY <1>1, <1>4 DEF Unfinished
<1>8. \A r \in Listed : (obj'[r].state = "open" /\ home[r] \notin hurt') =>
         row'[r].state = "open" /\ obj'[r].players \subseteq row'[r].players
  <2> SUFFICES ASSUME NEW r \in Listed, obj[r].state = "open", home[r] \notin hurt'
               PROVE  row'[r].state = "open" /\ obj[r].players \subseteq row'[r].players
    BY <1>3
  <2>1. CASE r = q
    <3>1. row[q].state = "open" /\ row[q] \in Rows
      BY <1>1, <1>4, <2>1 DEF TypeOK, Managed, Rows
    <3> QED BY <1>1, <1>2, <1>4, <2>1, <3>1, FlushedRowIs
  <2>2. CASE r # q
    BY <1>1, <1>4, <2>2 DEF Managed, Listed
  <2> QED BY <2>1, <2>2
<1> QED BY <1>1, <1>3, <1>4, <1>5, <1>6, <1>7, <1>8, PugStepKeeps

(* The game of a listed pug ends.                                          *)
LEMMA GameOverKeeps ==
  ASSUME IInv, NEW s \in Servers, GameOver(s)
  PROVE  IInv'
<1> DEFINE q == srv[s].pug
<1> USE DEF IInv
<1>1. IsUp /\ q \in Listed /\ q \in Pugs
  BY DEF GameOver, IsUp, Listed
<1>2. /\ obj' = [obj EXCEPT ![q].state = "over"]
      /\ UNCHANGED <<boot, grouped, srv, doubled, keys, row, srow, owner, home, hurt>>
  BY DEF GameOver, tables
<1> HIDE DEF q
<1>3. obj'[q].state = "over" /\ \A r \in Pugs : r # q => obj'[r] = obj[r]
  BY <1>1, <1>2 DEF TypeOK
<1>4. TypeOK'
  BY <1>1, <1>2 DEF TypeOK, PugStates
<1>5. Listed' = Listed
  BY <1>1, <1>3 DEF Listed
<1>6. Unfinished' = Unfinished
  BY <1>2 DEF Unfinished
<1>7. \A r \in Listed : (obj'[r].state = "open" /\ home[r] \notin hurt') =>
         row'[r].state = "open" /\ obj'[r].players \subseteq row'[r].players
  BY <1>1, <1>2, <1>3 DEF Managed, Listed
<1> QED BY <1>1, <1>2, <1>4, <1>5, <1>6, <1>7, PugStepKeeps

(* What a flush of many writes.                                            *)
LEMMA FlushAllDoes ==
  ASSUME TypeOK, NEW P \in SUBSET Listed, NEW S \in SUBSET Servers, FlushAll(P, S)
  PROVE  /\ row' \in [Pugs -> Rows]
         /\ srow' \in [Servers -> Pugs \cup {None}]
         /\ \A q \in Pugs : q \notin P => row'[q] = row[q]
         /\ \A q \in P : row'[q] = FlushedRow(row[q], obj[q])
<1>1. \A q \in P : q \in Pugs /\ obj[q] \in Live /\ row[q] \in Rows
  BY DEF Listed, TypeOK, Live, PugStates, Rows
<1>2. \A q \in P : FlushedRow(row[q], obj[q]) \in Rows
  BY <1>1, FlushedRowIs
<1>3. srow' \in [Servers -> Pugs \cup {None}]
  BY DEF FlushAll, TypeOK
<1>4. row' = [q \in Pugs |-> IF q \in P THEN FlushedRow(row[q], obj[q]) ELSE row[q]]
  BY DEF FlushAll
<1>5. row \in [Pugs -> Rows]
  BY DEF TypeOK, Rows
<1>6. row' \in [Pugs -> Rows]
  BY <1>2, <1>4, <1>5
<1> QED BY <1>1, <1>3, <1>4, <1>6

(* Every pug that is written is listed.                                    *)
LEMMA PeriodicFlushKeeps ==
  ASSUME IInv, PeriodicFlush
  PROVE  IInv'
<1> USE DEF IInv
<1>1. PICK P \in SUBSET Listed, S \in SUBSET Servers : FlushAll(P, S)
  BY DEF PeriodicFlush, Unwritten, Stale
<1>2. IsUp /\ UNCHANGED <<boot, grouped, obj, srv, doubled, keys, owner, home, hurt>>
  BY DEF PeriodicFlush, IsUp, memory
<1>3. /\ row' \in [Pugs -> Rows]
      /\ srow' \in [Servers -> Pugs \cup {None}]
      /\ \A q \in Pugs : q \notin P => row'[q] = row[q]
      /\ \A q \in P : row'[q] = FlushedRow(row[q], obj[q])
  BY <1>1, FlushAllDoes
<1>4. TypeOK'
  BY <1>2, <1>3 DEF TypeOK, Rows
<1>5. Listed' = Listed
  BY <1>2 DEF Listed
<1>6. Unfinished' \subseteq Unfinished \cup Listed
  BY <1>3 DEF Unfinished
<1>7. \A r \in Listed : (obj'[r].state = "open" /\ home[r] \notin hurt') =>
         row'[r].state = "open" /\ obj'[r].players \subseteq row'[r].players
  <2> SUFFICES ASSUME NEW r \in Listed, obj[r].state = "open", home[r] \notin hurt
               PROVE  row'[r].state = "open" /\ obj[r].players \subseteq row'[r].players
    BY <1>2
  <2>1. row[r].state = "open" /\ obj[r].players \subseteq row[r].players /\ r \in Pugs
    BY <1>2 DEF Managed, Listed
  <2>2. row[r] \in Rows /\ obj[r] \in Live
    BY <2>1 DEF TypeOK, Rows, Live
  <2> QED BY <1>3, <2>1, <2>2, FlushedRowIs
<1>8. \A r \in Pugs \ Listed : row'[r] = row[r]
  BY <1>3
<1> QED BY <1>2, <1>4, <1>5, <1>6, <1>7, <1>8, PugStepKeeps

-----------------------------------------------------------------------------
(* Handlers that end a pug.                                                *)
LEMMA EndPugKeeps ==
  ASSUME IInv, NEW q \in Listed, IsUp, NEW o \in Live, EndPug(q, o),
         o.players \subseteq obj[q].players, o.state = "open" => obj[q].state = "open"
  PROVE  IInv'
<1> DEFINE s == home[q]
<1> USE DEF IInv
<1>1. q \in Pugs /\ s \in Servers /\ UNCHANGED <<keys, owner, home>>
  BY DEF Listed, Made, EndPug
<1>0. boot.unread = {} /\ boot.cur = Nobody /\ boot.phase = "up"
  BY DEF IsUp, Booting, TypeOK, Made
<1> DEFINE e == Ended(o)
<1>2. e \in Live /\ e.state = "over"
  BY DEF Ended, Live
<1>3. CASE /\ FlushServer(s, None)
           /\ FlushPug(q, Ended(o))
           /\ srv' = [srv EXCEPT ![s] = Free]
           /\ obj' = [obj EXCEPT ![q] = NoPug]
           /\ UNCHANGED <<boot, grouped, doubled>>
  <2> HIDE DEF e
  <2>1. /\ row' \in [Pugs -> Rows]
        /\ \A r \in Pugs : r # q => row'[r] = row[r]
        /\ row'[q] \in {row[q], FlushedRow(row[q], e)}
        /\ home[q] \notin hurt' => row'[q] = FlushedRow(row[q], e)
        /\ hurt \subseteq hurt' /\ hurt' \subseteq Servers
    BY <1>1, <1>2, <1>3, FlushPugDoes DEF e
  <2>2. FlushedRow(row[q], e) = Finished
    BY <1>1, <1>2, FlushedRowIs DEF TypeOK, Rows
  <2>3. TypeOK'
    BY <1>1, <1>3, <2>1 DEF TypeOK, FlushServer, Free, NoPug, PugStates, Rows, None
  <2>4. Listed' = Listed \ {q} /\ \A r \in Pugs : r # q => obj'[r] = obj[r]
    BY <1>1, <1>3 DEF Listed, NoPug, TypeOK
  <2>5. Unfinished' \subseteq Unfinished /\ (q \in Unfinished' => s \in hurt')
    BY <1>1, <2>1, <2>2 DEF Unfinished, Finished
  <2>6. srv'[s] = Free /\ \A t \in Servers : t # s => srv'[t] = srv[t]
    BY <1>1, <1>3 DEF TypeOK
  <2>7. Made'
    BY <1>1, <2>4, <2>5 DEF Made
  <2>8. Booting'
    BY <1>0, <1>1, <1>3 DEF Booting
  <2>9. Apart'
    BY <1>1, <2>1, <2>4, <2>5 DEF Apart
  <2>10. Paired'
    <3>1. ASSUME NEW r \in Listed', home[r] \notin hurt'
          PROVE  srv'[home[r]].pug = r
      BY <1>1, <2>1, <2>4, <2>6, <3>1 DEF Paired, Apart, Listed, Made
    <3>2. ASSUME NEW t \in Servers \ hurt', srv'[t].pug # None
          PROVE  /\ srv'[t].pug \in Listed' \cup Unborn'
                 /\ home[srv'[t].pug] = t
                 /\ srv'[t].pug \in Unborn' => srv'[t].pid = None
      <4>1. t # s /\ srv'[t] = srv[t] /\ srv[t].pug # q
        BY <1>1, <2>1, <2>6, <3>2 DEF Paired, Unborn, Free
      <4> QED BY <1>1, <2>1, <2>4, <3>2, <4>1 DEF Paired, Unborn, Listed
    <3> QED BY <1>1, <3>1, <3>2 DEF Paired
  <2>11. Managed'
    BY <1>1, <1>3, <2>1, <2>4, <2>5, <2>6 DEF Managed, IsUp, Free, Unfinished, Listed
  <2>12. Loading'
    BY <1>0, <1>3 DEF Loading
  <2> QED BY <2>3, <2>7, <2>8, <2>9, <2>10, <2>11, <2>12
<1>4. CASE srow' = [srow EXCEPT ![s] = None] /\ Dies /\ UNCHANGED <<row, hurt>>
  <2>1. TypeOK'
    BY <1>1, <1>4 DEF TypeOK, Dies, Down, NoPug, Free, PugStates, None
  <2>2. Unfinished' = Unfinished /\ Listed' = {}
    BY <1>4 DEF Unfinished, Listed, Dies, NoPug
  <2>3. Made'
    BY <1>1, <2>2 DEF Made
  <2> QED BY <1>1, <1>4, <2>1, <2>2, <2>3, DiesKeeps DEF Apart
<1>5. ASSUME NEW o2 \in {o, e}, NEW v \in Srvs,
             Hurts(s),
             srv' = [srv EXCEPT ![s] = v],
             obj' = [obj EXCEPT ![q] = o2],
             srow' \in [Servers -> Pugs \cup {None}],
             UNCHANGED <<boot, grouped, doubled, row>>
      PROVE  IInv'
  <2>0. o2 \in Live /\ (o2.state = "open" => obj[q].state = "open")
    BY <1>2
  <2>1. hurt' = hurt \cup {s}
    BY <1>5 DEF Hurts
  <2>2. TypeOK'
    <3>1. srv' \in [Servers -> Srvs]
      BY <1>1, <1>5 DEF TypeOK, Srvs
    <3>2. obj' \in [Pugs -> [players: SUBSET Players, state: PugStates]]
      BY <1>1, <1>5, <2>0 DEF TypeOK, Live, PugStates
    <3> QED BY <1>1, <1>5, <2>1, <3>1, <3>2 DEF TypeOK, Srvs
  <2>3. Listed' = Listed /\ Unfinished' = Unfinished /\ \A r \in Pugs : r # q => obj'[r] = obj[r]
    BY <1>1, <1>5, <2>0 DEF Listed, Unfinished, TypeOK, Live
  <2>4. \A t \in Servers : t # s => srv'[t] = srv[t]
    BY <1>1, <1>5 DEF TypeOK
  <2>5. Made' /\ Booting' /\ Apart'
    BY <1>0, <1>1, <1>5, <2>1, <2>3 DEF Made, Booting, Apart
  <2>6. Paired'
    <3>1. ASSUME NEW r \in Listed, home[r] \notin hurt'
          PROVE  srv'[home[r]].pug = r
      BY <2>1, <2>4, <3>1 DEF Paired, Made, Listed
    <3>2. Unborn' = Unborn
      BY <1>1, <1>5, <2>3 DEF Unborn
    <3>3. ASSUME NEW t \in Servers \ hurt', srv'[t].pug # None
          PROVE  /\ srv'[t].pug \in Listed \cup Unborn
                 /\ home[srv'[t].pug] = t
                 /\ srv'[t].pug \in Unborn => srv'[t].pid = None
      BY <2>1, <2>4, <3>3 DEF Paired
    <3> QED BY <1>1, <2>3, <3>1, <3>2, <3>3 DEF Paired
  <2>7. Managed'
    BY <1>1, <1>5, <2>1, <2>3, <2>4 DEF Managed, IsUp, Listed
  <2>8. Loading'
    BY <1>0, <1>5 DEF Loading
  <2> QED BY <2>2, <2>5, <2>6, <2>7, <2>8
<1>6. CASE /\ Hurts(s)
           /\ srv' = [srv EXCEPT ![s].pug = None, ![s].pid = None]
           /\ obj' = [obj EXCEPT ![q] = o]
           /\ UNCHANGED <<boot, grouped, doubled, row, srow>>
  <2> DEFINE v == [srv[s] EXCEPT !.pug = None, !.pid = None]
  <2>1. v \in Srvs
    <3>1. srv[s] \in Srvs
      BY <1>1 DEF TypeOK, Srvs
    <3> HIDE DEF s
    <3> QED BY <3>1 DEF Srvs
  <2>2. srv' = [srv EXCEPT ![s] = v]
    BY <1>6
  <2>3. srow' \in [Servers -> Pugs \cup {None}]
    BY <1>6 DEF TypeOK
  <2> HIDE DEF v, e, s
  <2> QED BY <1>5, <1>6, <2>1, <2>2, <2>3
<1>7. CASE /\ Hurts(s)
           /\ srv' = [srv EXCEPT ![s] = Free]
           /\ obj' = [obj EXCEPT ![q] = Ended(o)]
           /\ srow' = [srow EXCEPT ![s] = None]
           /\ UNCHANGED <<boot, grouped, doubled, row>>
  <2>1. Free \in Srvs /\ srow' \in [Servers -> Pugs \cup {None}]
    BY <1>7 DEF TypeOK, Srvs, Free
  <2> HIDE DEF s
  <2> QED BY <1>5, <1>7, <2>1
<1> QED BY <1>3, <1>4, <1>6, <1>7 DEF EndPug

(* end_pug, and the status check that ends a pug.                          *)
LEMMA EndKeeps ==
  ASSUME IInv, NEW q \in Pugs, End(q)
  PROVE  IInv'
<1>1. q \in Listed /\ IsUp /\ EndPug(q, obj[q])
  BY DEF End, IsUp
<1>2. obj[q] \in Live
  BY <1>1 DEF Live, IInv, TypeOK, Listed, PugStates
<1> QED BY <1>1, <1>2, EndPugKeeps

(* One who leaves a pug may be its last player, and ends it.               *)
LEMMA LeaveKeeps ==
  ASSUME IInv, NEW p \in Players, NEW q \in Pugs, Leave(p, q)
  PROVE  IInv'
<1> DEFINE o == [players |-> obj[q].players \ {p},
                 state |-> IF obj[q].state = "over" THEN "reopened" ELSE obj[q].state]
<1> USE DEF IInv
<1>1. /\ IsUp /\ q \in Listed
      /\ \/ EndPug(q, o)
         \/ /\ obj' = [obj EXCEPT ![q] = o]
            /\ UNCHANGED <<boot, grouped, srv, doubled, tables, owner, home, hurt>>
  BY DEF Leave, IsUp
<1>2. /\ o \in Live
      /\ o.players \subseteq obj[q].players
      /\ o.state = "open" => obj[q].state = "open"
  BY <1>1 DEF Live, TypeOK, Listed, PugStates
<1> HIDE DEF o
<1>3. CASE EndPug(q, o)
  BY <1>1, <1>2, <1>3, EndPugKeeps
<1>4. CASE /\ obj' = [obj EXCEPT ![q] = o]
           /\ UNCHANGED <<boot, grouped, srv, doubled, tables, owner, home, hurt>>
  <2>1. UNCHANGED <<boot, grouped, srv, doubled, keys, row, srow, owner, home, hurt>>
    BY <1>4 DEF tables
  <2>2. TypeOK'
    BY <1>2, <1>4, <2>1 DEF TypeOK, Live, PugStates
  <2>3. Listed' = Listed /\ Unfinished' = Unfinished
    BY <1>1, <1>2, <1>4, <2>1 DEF Listed, Unfinished, Live, TypeOK
  <2>4. obj'[q] = o /\ \A r \in Pugs : r # q => obj'[r] = obj[r]
    BY <1>4 DEF TypeOK
  <2>5. \A r \in Listed : (obj'[r].state = "open" /\ home[r] \notin hurt') =>
           row'[r].state = "open" /\ obj'[r].players \subseteq row'[r].players
    <3> SUFFICES ASSUME NEW r \in Listed, obj'[r].state = "open", home[r] \notin hurt
                 PROVE  row[r].state = "open" /\ obj'[r].players \subseteq row[r].players
      BY <2>1
    <3>1. obj[r].state = "open" /\ obj'[r].players \subseteq obj[r].players
      BY <1>2, <2>4 DEF Listed
    <3> QED BY <1>1, <3>1 DEF Managed
  <2> QED BY <1>1, <2>1, <2>2, <2>3, <2>5, PugStepKeeps
<1> QED BY <1>1, <1>3, <1>4

-----------------------------------------------------------------------------
(* A new pug takes a server that no listed pug has.                        *)
LEMMA CreateKeeps ==
  ASSUME IInv, Stored,
         NEW m \in Managers, NEW p \in Players, NEW q \in Pugs, NEW s \in Servers,
         Create(m, p, q, s)
  PROVE  IInv'
<1> DEFINE new == [players |-> {p}, state |-> "open"]
<1> USE DEF IInv
<1>1. /\ IsUp /\ m \in keys /\ owner[q] = Nobody /\ ~InUse(s) /\ keys' = keys
      /\ owner' = [owner EXCEPT ![q] = m]
      /\ home' = [home EXCEPT ![q] = s]
  BY DEF Create, IsUp
<1>2. boot.unread = {} /\ boot.cur = Nobody /\ boot.phase = "up"
  BY <1>1 DEF IsUp, Booting, TypeOK, Made
<1>3. q \notin Listed /\ q \notin Unfinished
  BY <1>1 DEF Made
<1>4. /\ owner'[q] = m /\ home'[q] = s /\ m # Nobody
      /\ \A r \in Pugs : r # q => owner'[r] = owner[r] /\ home'[r] = home[r]
  BY <1>1, ManagersAssumption DEF TypeOK
<1>5. \A r \in Listed \cup Unfinished : home[r] = s => s \in hurt
  BY <1>1 DEF InUse, Paired, Unborn, Managed, Listed, Unfinished, None, Pugs
<1>6. new \in Live /\ new.state = "open"
  BY DEF Live
<1> HIDE DEF new
<1>7. CASE /\ obj' = [obj EXCEPT ![q] = new]
           /\ row' = [row EXCEPT ![q] = new]
           /\ \/ /\ srv' = [srv EXCEPT ![s] = [pug |-> q, pid |-> q, listens |-> TRUE]]
                 /\ FlushServer(s, q)
              \/ /\ srv' = [srv EXCEPT ![s].pug = q, ![s].pid = q]
                 /\ UNCHANGED srow
           /\ UNCHANGED <<boot, grouped, doubled, hurt>>
  <2>1. /\ srv' \in [Servers -> Srvs]
        /\ srv'[s].pug = q
        /\ \A t \in Servers : t # s => srv'[t] = srv[t]
    <3>1. CASE srv' = [srv EXCEPT ![s] = [pug |-> q, pid |-> q, listens |-> TRUE]]
      BY <3>1 DEF TypeOK, Srvs
    <3>2. CASE srv' = [srv EXCEPT ![s].pug = q, ![s].pid = q]
      <4>1. srv' \in [Servers -> Srvs]
        BY <3>2, ServerTaken DEF TypeOK, Srvs
      <4>2. srv'[s].pug = q /\ \A t \in Servers : t # s => srv'[t] = srv[t]
        BY <3>2 DEF TypeOK
      <4> QED BY <4>1, <4>2
    <3> QED BY <1>7, <3>1, <3>2
  <2>2. /\ Listed' = Listed \cup {q}
        /\ Unfinished' = Unfinished \cup {q}
        /\ obj'[q] = new /\ row'[q] = new
        /\ \A r \in Pugs : r # q => obj'[r] = obj[r] /\ row'[r] = row[r]
    BY <1>6, <1>7 DEF TypeOK, Listed, Unfinished
  <2>3. TypeOK'
    <3>1. srow' \in [Servers -> Pugs \cup {None}]
      BY <1>7 DEF TypeOK, FlushServer
    <3>2. /\ obj' \in [Pugs -> [players: SUBSET Players, state: PugStates]]
          /\ row' \in [Pugs -> [players: SUBSET Players, state: RowStates]]
      BY <1>6, <1>7 DEF TypeOK, Live, PugStates, RowStates
    <3> QED BY <1>1, <1>7, <2>1, <3>1, <3>2 DEF TypeOK, Srvs
  <2>4. Made'
    BY <1>1, <1>4, <2>2 DEF Made
  <2>5. Booting'
    BY <1>1, <1>2, <1>7 DEF Booting
  <2>6. Paired'
    <3>1. ASSUME NEW r \in Listed', home'[r] \notin hurt
          PROVE  srv'[home'[r]].pug = r
      <4>1. CASE r = q
        BY <1>4, <2>1, <4>1
      <4>2. CASE r # q
        BY <1>4, <1>5, <2>1, <2>2, <3>1, <4>2 DEF Paired, Made, Listed
      <4> QED BY <4>1, <4>2
    <3>2. ASSUME NEW t \in Servers \ hurt, srv'[t].pug # None
          PROVE  /\ srv'[t].pug \in Listed' \cup Unborn'
                 /\ home'[srv'[t].pug] = t
                 /\ srv'[t].pug \in Unborn' => srv'[t].pid = None
      <4>1. CASE t = s
        BY <1>4, <2>1, <2>2, <4>1 DEF Unborn
      <4>2. CASE t # s
        <5>1. srv'[t] = srv[t] /\ srv[t].pug \in Listed \cup Unborn /\ srv[t].pug # q
          BY <1>1, <1>3, <2>1, <3>2, <4>2 DEF Paired, Unborn
        <5> QED BY <1>4, <2>2, <3>2, <4>2, <5>1 DEF Paired, Unborn, Listed
      <4> QED BY <4>1, <4>2
    <3> QED BY <1>7, <3>1, <3>2 DEF Paired
  <2>7. Apart'
    BY <1>4, <1>5, <1>7, <2>2 DEF Apart, Listed, Unfinished
  <2>8. Managed'
    <3>1. ASSUME NEW r \in Unfinished', home'[r] \notin hurt
          PROVE  r \in Listed'
      BY <1>1, <1>4, <2>2, <3>1 DEF Managed, Unfinished
    <3>2. ASSUME NEW r \in Listed', obj'[r].state = "open", home'[r] \notin hurt
          PROVE  row'[r].state = "open" /\ obj'[r].players \subseteq row'[r].players
      BY <1>1, <1>4, <1>6, <2>2, <3>2 DEF Managed, Listed
    <3>3. ASSUME NEW t \in Servers \ hurt, srv'[t].pug = None
          PROVE  srv'[t].pid = None
      BY <1>1, <2>1, <3>3 DEF Managed, None, Pugs
    <3> QED BY <1>1, <1>7, <3>1, <3>2, <3>3 DEF Managed, IsUp
  <2>9. Loading'
    BY <1>2, <1>7 DEF Loading
  <2> QED BY <2>3, <2>4, <2>5, <2>6, <2>7, <2>8, <2>9
<1>8. CASE row' = [row EXCEPT ![q] = new] /\ Dies /\ UNCHANGED <<srow, hurt>>
  <2>1. /\ Unfinished' = Unfinished \cup {q} /\ Listed' = {}
    BY <1>6, <1>8 DEF TypeOK, Listed, Unfinished, Dies, NoPug
  <2>2. TypeOK'
    <3>1. row' \in [Pugs -> [players: SUBSET Players, state: RowStates]]
      BY <1>6, <1>8 DEF TypeOK, Live, RowStates
    <3> QED BY <1>1, <1>8, <3>1 DEF TypeOK, Dies, Down, NoPug, Free, PugStates, None
  <2>3. Made'
    BY <1>1, <1>4, <2>1 DEF Made
  <2>4. \A r, t \in Unfinished' : home'[r] = home'[t] /\ home'[r] \notin hurt => r = t
    BY <1>4, <1>5, <2>1 DEF Apart, Unfinished
  <2> QED BY <1>1, <1>8, <2>2, <2>3, <2>4, DiesKeeps
<1>9. CASE /\ srv' = [srv EXCEPT ![s].pug = q]
           /\ UNCHANGED <<boot, grouped, obj, doubled, row, srow, hurt>>
  <2>1. Listed' = Listed /\ Unfinished' = Unfinished
    BY <1>9 DEF Listed, Unfinished
  <2>2. /\ srv' \in [Servers -> Srvs]
        /\ srv'[s].pug = q /\ srv'[s].pid = None
        /\ \A t \in Servers : t # s => srv'[t] = srv[t]
    <3>1. srv' \in [Servers -> Srvs]
      BY <1>9, ServerTaken DEF TypeOK, Srvs
    <3>2. /\ srv'[s].pug = q /\ srv'[s].pid = srv[s].pid
          /\ \A t \in Servers : t # s => srv'[t] = srv[t]
      BY <1>9 DEF TypeOK
    <3> QED BY <1>1, <3>1, <3>2 DEF InUse
  <2>3. TypeOK'
    BY <1>1, <1>9, <2>2 DEF TypeOK, Srvs
  <2>4. Made' /\ Booting' /\ Loading'
    BY <1>1, <1>2, <1>4, <1>9, <2>1 DEF Made, Booting, Loading
  <2>5. \A r \in Listed \cup Unfinished : r # q /\ home'[r] = home[r] /\ home[r] \in Servers
    BY <1>3, <1>4 DEF Made, Listed, Unfinished
  <2>6. Paired'
    <3>1. ASSUME NEW r \in Listed, home[r] \notin hurt
          PROVE  srv'[home[r]].pug = r
      BY <1>5, <2>2, <2>5, <3>1 DEF Paired
    <3>2. q \in Unborn'
      <4>1. row[q].state = "none"
        BY <1>1 DEF Stored
      <4> QED BY <1>3, <1>4, <1>9, <2>1, <4>1 DEF Unborn
    <3>3. ASSUME NEW t \in Servers \ hurt, t # s, srv'[t].pug # None
          PROVE  /\ srv'[t].pug \in Listed \cup Unborn'
                 /\ home'[srv'[t].pug] = t
                 /\ srv'[t].pug \in Unborn' => srv'[t].pid = None
      <4>1. srv'[t] = srv[t] /\ srv[t].pug \in Listed \cup Unborn /\ srv[t].pug # q
        BY <1>1, <1>3, <2>2, <3>3, ManagersAssumption DEF Paired, Unborn
      <4> QED BY <1>4, <1>9, <2>1, <3>3, <4>1 DEF Paired, Unborn, Listed
    <3> QED BY <1>4, <1>9, <2>1, <2>2, <2>5, <3>1, <3>2, <3>3 DEF Paired
  <2>7. Apart'
    BY <1>9, <2>1, <2>5 DEF Apart
  <2>8. Managed'
    BY <1>1, <1>9, <2>1, <2>2, <2>5 DEF Managed, IsUp
  <2> QED BY <2>3, <2>4, <2>6, <2>7, <2>8
<1> QED BY <1>7, <1>8, <1>9 DEF Create, new

-----------------------------------------------------------------------------
(* Death and restart.  At first nothing is made, listed or in use.         *)
LEMMA InitHolds ==
  ASSUME Init
  PROVE  IInv
<1>1. Listed = {} /\ Unfinished = {}
  BY DEF Init, Listed, Unfinished, NoPug
<1>2. TypeOK
  BY ManagersAssumption DEF Init, TypeOK, Down, NoPug, Free, None, PugStates, RowStates
<1>3. Made /\ Booting /\ Paired
  BY <1>1 DEF Init, Made, Booting, Paired, Unborn, Down, Free
<1>4. Apart /\ Managed /\ Loading
  BY <1>1 DEF Init, Apart, Managed, Loading, IsUp, Down
<1> QED BY <1>2, <1>3, <1>4 DEF IInv

(* A shutdown, and a crash in the middle of one.                           *)
LEMMA StopKeeps ==
  ASSUME IInv, Stop
  PROVE  IInv'
<1> USE DEF IInv
<1>1. PICK P \in SUBSET Listed, S \in SUBSET Servers : FlushAll(P, S)
  BY DEF Stop, Unwritten, Stale
<1>2. IsUp /\ Dies /\ UNCHANGED <<keys, owner, home, hurt>>
  BY DEF Stop, IsUp
<1>3. /\ row' \in [Pugs -> Rows]
      /\ srow' \in [Servers -> Pugs \cup {None}]
      /\ \A q \in Pugs : q \notin P => row'[q] = row[q]
  BY <1>1, FlushAllDoes
<1>4. TypeOK'
  BY <1>2, <1>3 DEF TypeOK, Rows, Dies, Down, NoPug, Free, PugStates, None
<1>5. Unfinished' \subseteq Unfinished \cup Listed /\ Listed' = {}
  BY <1>2, <1>3 DEF Unfinished, Listed, Dies, NoPug
<1>6. Made'
  BY <1>2, <1>5 DEF Made
<1> QED BY <1>2, <1>4, <1>5, <1>6, DiesKeeps DEF Apart

(* A crash while pugs are loaded.                                          *)
LEMMA StopLoadingKeeps ==
  ASSUME IInv, StopLoading
  PROVE  IInv'
<1> USE DEF IInv
<1>1. Dies /\ UNCHANGED <<keys, row, owner, home, hurt>> /\ \E S \in SUBSET Orphans : FlushOrphans(S)
  BY DEF StopLoading
<1>2. srow' \in [Servers -> Pugs \cup {None}]
  BY <1>1 DEF FlushOrphans, TypeOK, None
<1>3. TypeOK'
  BY <1>1, <1>2 DEF TypeOK, Dies, Down, NoPug, Free, PugStates, None
<1>4. Unfinished' = Unfinished /\ Listed' = {}
  BY <1>1 DEF Unfinished, Listed, Dies, NoPug
<1>5. Made'
  BY <1>1, <1>4 DEF Made
<1> QED BY <1>1, <1>3, <1>4, <1>5, DiesKeeps DEF Apart

(* The pugs and servers of the tables are apart, as the dead objects were. *)
LEMMA StartKeeps ==
  ASSUME IInv, Start
  PROVE  IInv'
<1> USE DEF IInv
<1>1. /\ boot' = [phase |-> "loading", todo |-> keys, cur |-> Nobody, unread |-> {}]
      /\ srv' = [s \in Servers |-> [Free EXCEPT !.pid = srow[s]]]
      /\ UNCHANGED <<grouped, obj, doubled, keys, row, srow, owner, home, hurt>>
  <2>1. boot' = [phase |-> "loading", todo |-> keys, cur |-> Nobody, unread |-> {}]
    BY DEF Start, Down
  <2> QED BY <2>1 DEF Start, tables
<1>2. Listed = {} /\ Listed' = Listed /\ Unfinished' = Unfinished
  BY <1>1 DEF Start, Booting, Listed, Unfinished
<1>3. TypeOK'
  BY <1>1 DEF TypeOK, Free
<1>4. Made' /\ Booting'
  BY <1>1, <1>2 DEF Made, Booting
<1>5. Paired'
  BY <1>1, <1>2 DEF Paired, Unborn, Free
<1>6. Apart'
  BY <1>1, <1>2 DEF Apart
<1>7. Managed' /\ Loading'
  BY <1>1, <1>2 DEF Managed, Loading, IsUp, Made, Unfinished
<1> QED BY <1>3, <1>4, <1>5, <1>6, <1>7

(* A query that fails marks every server whose pug it misses.              *)
LEMMA GetPugsKeeps ==
  ASSUME IInv, NEW m \in Managers, GetPugs(m)
  PROVE  IInv'
<1> DEFINE mine == {q \in Unfinished : owner[q] = m}
<1> USE DEF IInv
<1>1. /\ boot.phase = "loading" /\ boot.cur = Nobody /\ m \in boot.todo /\ m # Nobody
      /\ UNCHANGED <<grouped, obj, srv, doubled, keys, row, srow, owner, home>>
  BY ManagersAssumption DEF GetPugs, tables
<1>2. boot.unread = {} /\ mine \subseteq Pugs
  BY <1>1 DEF Booting, Made, Unfinished
<1>3. /\ boot'.phase = "loading" /\ boot'.todo = boot.todo /\ boot'.cur = m
      /\ boot' \in [phase: {"down", "loading", "up"}, todo: SUBSET Managers,
                    cur: Managers \cup {Nobody}, unread: SUBSET Pugs]
      /\ hurt \subseteq hurt' /\ hurt' \subseteq Servers
      /\ boot'.unread \subseteq mine
      /\ \A q \in mine : home[q] \notin hurt' => q \in boot'.unread
  <2>1. CASE boot' = [boot EXCEPT !.cur = m, !.unread = mine] /\ UNCHANGED hurt
    BY <1>1, <1>2, <2>1 DEF TypeOK
  <2>2. CASE boot' = [boot EXCEPT !.cur = m] /\ hurt' = hurt \cup {home[q] : q \in mine}
    BY <1>1, <1>2, <2>2 DEF TypeOK, Made, Unfinished
  <2> QED BY <2>1, <2>2 DEF GetPugs
<1>4. Listed' = Listed /\ Unfinished' = Unfinished
  BY <1>1 DEF Listed, Unfinished
<1>5. TypeOK'
  BY <1>1, <1>3 DEF TypeOK
<1>6. Made' /\ Booting'
  BY <1>1, <1>3, <1>4 DEF Made, Booting
<1>7. Paired' /\ Apart'
  BY <1>1, <1>3, <1>4 DEF Paired, Unborn, Apart
<1>8. Managed'
  BY <1>3 DEF Managed, IsUp
<1>9. Loading'
  <2>1. ASSUME NEW q \in Listed
        PROVE  /\ q \in Unfinished /\ obj[q] = row[q] /\ q \notin boot'.unread
               /\ owner[q] \notin boot.todo
    BY <1>1, <1>3 DEF Loading, Made, Listed
  <2>2. ASSUME NEW q \in Unfinished, home[q] \notin hurt'
        PROVE  /\ q \in Listed \/ owner[q] \in boot.todo
               /\ owner[q] = m => q \in boot'.unread
    BY <1>1, <1>3, <2>2 DEF Loading
  <2> QED BY <1>1, <1>3, <1>4, <2>1, <2>2 DEF Loading
<1> QED BY <1>5, <1>6, <1>7, <1>8, <1>9

(* A pug is given the server that no other unfinished pug has.             *)
LEMMA LoadPugKeeps ==
  ASSUME IInv, NEW q \in Pugs, LoadPug(q)
  PROVE  IInv'
<1> DEFINE s == home[q]
<1> USE DEF IInv
<1>1. /\ q \in boot.unread /\ q \in Unfinished /\ owner[q] = boot.cur /\ owner[q] # Nobody
      /\ boot.cur \in boot.todo /\ s \in Servers /\ boot.phase = "loading"
  BY DEF LoadPug, Booting, Made
<1>2. q \notin Listed
  BY <1>1 DEF Loading
<1>3. /\ boot' = [boot EXCEPT !.unread = @ \ {q}]
      /\ obj' = [obj EXCEPT ![q] = row[q]]
      /\ srv' = [srv EXCEPT ![s].pug = q]
      /\ UNCHANGED <<grouped, doubled, keys, row, srow, owner, home, hurt>>
  BY DEF LoadPug, tables
<1>4. /\ srv' \in [Servers -> Srvs]
      /\ srv'[s].pug = q
      /\ \A t \in Servers : t # s => srv'[t] = srv[t]
  <2>1. srv' \in [Servers -> Srvs]
    BY <1>1, <1>3, ServerTaken DEF TypeOK, Srvs
  <2>2. srv'[s].pug = q /\ \A t \in Servers : t # s => srv'[t] = srv[t]
    BY <1>1, <1>3 DEF TypeOK
  <2> QED BY <2>1, <2>2
<1>5. /\ boot'.phase = "loading" /\ boot'.todo = boot.todo /\ boot'.cur = boot.cur
      /\ boot'.unread = boot.unread \ {q}
      /\ boot' \in [phase: {"down", "loading", "up"}, todo: SUBSET Managers,
                    cur: Managers \cup {Nobody}, unread: SUBSET Pugs]
  BY <1>1, <1>3 DEF TypeOK
<1>6. /\ Listed' = Listed \cup {q} /\ Unfinished' = Unfinished
      /\ obj'[q] = row[q] /\ \A r \in Pugs : r # q => obj'[r] = obj[r]
  BY <1>1, <1>3 DEF Listed, Unfinished, TypeOK
<1>7. TypeOK'
  <2>1. row[q].state \in PugStates
    BY <1>1 DEF Unfinished, PugStates
  <2>2. obj' \in [Pugs -> [players: SUBSET Players, state: PugStates]]
    BY <1>3, <2>1 DEF TypeOK
  <2> QED BY <1>3, <1>4, <1>5, <2>2 DEF TypeOK, Srvs
<1>8. Made' /\ Booting'
  BY <1>1, <1>3, <1>5, <1>6 DEF Made, Booting
<1>9. Paired'
  <2>1. ASSUME NEW r \in Listed', home[r] \notin hurt
        PROVE  srv'[home[r]].pug = r
    <3>1. CASE r = q
      BY <1>4, <3>1
    <3>2. CASE r # q
      <4>1. r \in Listed /\ home[r] # s /\ home[r] \in Servers
        BY <1>1, <1>6, <2>1, <3>2 DEF Apart, Made, Listed
      <4> QED BY <1>4, <2>1, <4>1 DEF Paired
    <3> QED BY <3>1, <3>2
  <2>2. ASSUME NEW t \in Servers \ hurt, srv'[t].pug # None
        PROVE  /\ srv'[t].pug \in Listed' \cup Unborn'
               /\ home[srv'[t].pug] = t
               /\ srv'[t].pug \in Unborn' => srv'[t].pid = None
    <3>1. CASE t = s
      BY <1>4, <1>6, <3>1 DEF Unborn
    <3>2. CASE t # s
      <4>1. /\ srv'[t] = srv[t]
            /\ srv[t].pug \in Listed \cup Unborn
            /\ home[srv[t].pug] = t
            /\ srv[t].pug \in Unborn => srv[t].pid = None
        BY <1>4, <2>2, <3>2 DEF Paired
      <4>2. Unborn' = Unborn
        BY <1>1, <1>3, <1>6 DEF Unborn, Unfinished
      <4> QED BY <1>6, <4>1, <4>2
    <3> QED BY <3>1, <3>2
  <2> QED BY <1>3, <2>1, <2>2 DEF Paired
<1>10. Apart'
  BY <1>1, <1>3, <1>6 DEF Apart
<1>11. Managed'
  BY <1>5 DEF Managed, IsUp
<1>12. Loading'
  <2>1. ASSUME NEW r \in Listed'
        PROVE  /\ r \in Unfinished /\ obj'[r] = row[r] /\ r \notin boot'.unread
               /\ owner[r] \in boot.todo => owner[r] = boot.cur
    BY <1>1, <1>5, <1>6 DEF Loading, Listed
  <2>2. ASSUME NEW r \in Unfinished, home[r] \notin hurt
        PROVE  /\ r \in Listed' \/ owner[r] \in boot.todo
               /\ owner[r] = boot.cur => r \in Listed' \cup boot'.unread
    BY <1>1, <1>5, <1>6, <2>2 DEF Loading
  <2>3. ASSUME boot.todo # keys, NEW t \in Servers \ hurt, srv'[t].pug = None
        PROVE  srv'[t].pid = None
    BY <1>1, <1>4, <2>3 DEF Loading, None, Pugs
  <2> QED BY <1>3, <1>5, <1>6, <2>1, <2>2, <2>3 DEF Loading
<1> QED BY <1>7, <1>8, <1>9, <1>10, <1>11, <1>12

(* A pug that is ended as it is loaded, and a crash in the middle of that. *)
LEMMA LoadOldKeeps ==
  ASSUME IInv, NEW q \in Pugs, LoadOld(q)
  PROVE  IInv'
<1> DEFINE s == home[q]
           e == Ended(row[q])
<1> USE DEF IInv
<1>1. /\ q \in boot.unread /\ q \in Unfinished /\ owner[q] = boot.cur /\ owner[q] # Nobody
      /\ boot.cur \in boot.todo /\ s \in Servers /\ boot.phase = "loading"
      /\ UNCHANGED <<keys, owner, home>>
  BY DEF LoadOld, Booting, Made
<1>2. q \notin Listed /\ e \in Live /\ e.state = "over"
  BY <1>1 DEF Loading, Ended, Live, TypeOK
<1>3. CASE /\ boot' = [boot EXCEPT !.unread = @ \ {q}]
           /\ srv' = [srv EXCEPT ![s] = Free]
           /\ FlushServer(s, None)
           /\ FlushPug(q, Ended(row[q]))
           /\ UNCHANGED <<grouped, obj, doubled>>
  <2> HIDE DEF e
  <2>1. /\ row' \in [Pugs -> Rows]
        /\ \A r \in Pugs : r # q => row'[r] = row[r]
        /\ row'[q] \in {row[q], FlushedRow(row[q], e)}
        /\ home[q] \notin hurt' => row'[q] = FlushedRow(row[q], e)
        /\ hurt \subseteq hurt' /\ hurt' \subseteq Servers
    BY <1>1, <1>2, <1>3, FlushPugDoes DEF e
  <2>2. FlushedRow(row[q], e) = Finished
    BY <1>1, <1>2, FlushedRowIs DEF TypeOK, Rows
  <2>3. /\ Listed' = Listed
        /\ Unfinished' \subseteq Unfinished
        /\ q \in Unfinished' => s \in hurt'
    BY <1>1, <1>3, <2>1, <2>2 DEF Listed, Unfinished, Finished
  <2>4. /\ srv' \in [Servers -> Srvs]
        /\ srv'[s] = Free
        /\ \A t \in Servers : t # s => srv'[t] = srv[t]
    BY <1>1, <1>3 DEF TypeOK, Srvs, Free
  <2>5. /\ boot'.phase = "loading" /\ boot'.todo = boot.todo /\ boot'.cur = boot.cur
        /\ boot'.unread = boot.unread \ {q}
        /\ boot' \in [phase: {"down", "loading", "up"}, todo: SUBSET Managers,
                      cur: Managers \cup {Nobody}, unread: SUBSET Pugs]
    BY <1>1, <1>3 DEF TypeOK
  <2>6. TypeOK'
    <3>1. srow' \in [Servers -> Pugs \cup {None}]
      BY <1>3 DEF TypeOK, FlushServer
    <3> QED BY <1>1, <1>3, <2>1, <2>4, <2>5, <3>1 DEF TypeOK, Srvs, Rows
  <2>7. Made'
    BY <1>1, <2>3 DEF Made
  <2>8. Booting'
    <3>1. ASSUME NEW r \in boot'.unread
          PROVE  r \in Unfinished' /\ owner[r] = boot.cur
      BY <1>1, <2>1, <2>5 DEF Booting, Unfinished
    <3> QED BY <1>1, <2>5, <3>1 DEF Booting
  <2>9. Paired'
    <3>1. ASSUME NEW r \in Listed, home[r] \notin hurt'
          PROVE  srv'[home[r]].pug = r
      <4>1. home[r] # s /\ home[r] \in Servers /\ home[r] \notin hurt
        BY <1>1, <1>2, <2>1, <3>1 DEF Apart, Made, Listed
      <4> QED BY <2>4, <3>1, <4>1 DEF Paired
    <3>2. ASSUME NEW t \in Servers \ hurt', srv'[t].pug # None
          PROVE  /\ srv'[t].pug \in Listed' \cup Unborn'
                 /\ home[srv'[t].pug] = t
                 /\ srv'[t].pug \in Unborn' => srv'[t].pid = None
      <4>1. t # s /\ srv'[t] = srv[t] /\ t \notin hurt
        BY <2>1, <2>4, <3>2 DEF Free
      <4>2. /\ srv[t].pug # q
            /\ srv[t].pug \in Listed \cup Unborn
            /\ home[srv[t].pug] = t
            /\ srv[t].pug \in Unborn => srv[t].pid = None
        BY <1>1, <1>2, <3>2, <4>1 DEF Paired, Unborn, Unfinished
      <4>3. \A r \in Pugs \ {q} : r \in Unborn' <=> r \in Unborn
        BY <1>1, <1>3, <2>1, <2>3 DEF Unborn
      <4> QED BY <2>3, <4>1, <4>2, <4>3 DEF Listed, Unborn
    <3> QED BY <1>1, <2>3, <3>1, <3>2 DEF Paired
  <2>10. Apart'
    BY <1>1, <2>1, <2>3 DEF Apart
  <2>11. Managed'
    BY <2>5 DEF Managed, IsUp
  <2>12. Loading'
    <3>1. ASSUME NEW r \in Listed
          PROVE  /\ r \in Unfinished' /\ obj[r] = row'[r] /\ r \notin boot'.unread
                 /\ owner[r] \in boot.todo => owner[r] = boot.cur
      BY <1>1, <1>2, <2>1, <2>5 DEF Loading, Listed, Unfinished
    <3>2. ASSUME NEW r \in Unfinished', home[r] \notin hurt'
          PROVE  /\ r \in Listed \/ owner[r] \in boot.todo
                 /\ owner[r] = boot.cur => r \in Listed \cup boot'.unread
      BY <1>1, <2>1, <2>3, <2>5, <3>2 DEF Loading
    <3>3. ASSUME boot.todo # keys, NEW t \in Servers \ hurt', srv'[t].pug = None
          PROVE  srv'[t].pid = None
      BY <1>1, <2>1, <2>4, <3>3 DEF Loading, Free
    <3> QED BY <1>1, <1>3, <2>3, <2>5, <3>1, <3>2, <3>3 DEF Loading
  <2> QED BY <2>6, <2>7, <2>8, <2>9, <2>10, <2>11, <2>12
<1>4. CASE srow' = [srow EXCEPT ![s] = None] /\ Dies /\ UNCHANGED <<row, hurt>>
  <2>1. TypeOK'
    BY <1>1, <1>4 DEF TypeOK, Dies, Down, NoPug, Free, PugStates, None
  <2>2. Unfinished' = Unfinished /\ Listed' = {}
    BY <1>4 DEF Unfinished, Listed, Dies, NoPug
  <2>3. Made'
    BY <1>1, <2>2 DEF Made
  <2> QED BY <1>1, <1>4, <2>1, <2>2, <2>3, DiesKeeps DEF Apart
<1> QED BY <1>3, <1>4 DEF LoadOld

(* An orphan has no pug, so that no pair of a pug and a server is split.   *)
LEMMA ResetOrphansDoes ==
  ASSUME TypeOK, ResetOrphans
  PROVE  /\ srv' \in [Servers -> Srvs]
         /\ srow' \in [Servers -> Pugs \cup {None}]
         /\ \A s \in Servers : srv'[s].pug = srv[s].pug
         /\ \A s \in Servers : srv'[s].pug = None => srv'[s].pid = None
         /\ \A s \in Servers : srv[s].pug # None => srv'[s] = srv[s]
<1>1. srow' \in [Servers -> Pugs \cup {None}]
  BY DEF ResetOrphans, FlushOrphans, TypeOK
<1>2. srv' = [s \in Servers |-> IF s \in Orphans THEN Free ELSE srv[s]] /\ Free \in Srvs
  BY DEF ResetOrphans, Free, Srvs
<1>3. srv' \in [Servers -> Srvs]
  BY <1>2 DEF TypeOK, Srvs
<1>4. ASSUME NEW s \in Servers
      PROVE  /\ srv'[s].pug = srv[s].pug
             /\ srv'[s].pug = None => srv'[s].pid = None
             /\ srv[s].pug # None => srv'[s] = srv[s]
  BY <1>2 DEF Orphans, Free
<1> QED BY <1>1, <1>3, <1>4

(* A manager has all its pugs, and the orphans go.                         *)
LEMMA ManagerLoadedKeeps ==
  ASSUME IInv, ManagerLoaded
  PROVE  IInv'
<1> USE DEF IInv
<1>1. /\ boot.cur # Nobody /\ boot.unread = {} /\ boot.phase = "loading" /\ boot.cur \in boot.todo
      /\ ResetOrphans
      /\ UNCHANGED <<grouped, obj, doubled, keys, row, owner, home, hurt>>
  BY DEF ManagerLoaded, Booting
<1>2. /\ boot'.phase = "loading" /\ boot'.todo = boot.todo \ {boot.cur} /\ boot'.cur = Nobody
      /\ boot'.unread = {}
      /\ boot' \in [phase: {"down", "loading", "up"}, todo: SUBSET Managers,
                    cur: Managers \cup {Nobody}, unread: SUBSET Pugs]
  BY <1>1 DEF ManagerLoaded, TypeOK
<1>3. /\ srv' \in [Servers -> Srvs]
      /\ srow' \in [Servers -> Pugs \cup {None}]
      /\ \A s \in Servers : srv'[s].pug = srv[s].pug
      /\ \A s \in Servers : srv'[s].pug = None => srv'[s].pid = None
      /\ \A s \in Servers : srv[s].pug # None => srv'[s] = srv[s]
  BY <1>1, ResetOrphansDoes
<1>4. Listed' = Listed /\ Unfinished' = Unfinished
  BY <1>1 DEF Listed, Unfinished
<1>5. TypeOK'
  BY <1>1, <1>2, <1>3 DEF TypeOK, Srvs
<1>6. Made' /\ Booting'
  BY <1>1, <1>2, <1>4 DEF Made, Booting
<1>7. Paired'
  <2>1. ASSUME NEW q \in Listed, home[q] \notin hurt
        PROVE  srv'[home[q]].pug = q
    BY <1>3, <2>1 DEF Paired, Made, Listed
  <2>2. ASSUME NEW s \in Servers \ hurt, srv'[s].pug # None
        PROVE  /\ srv'[s].pug \in Listed \cup Unborn
               /\ home[srv'[s].pug] = s
               /\ srv'[s].pug \in Unborn => srv'[s].pid = None
    BY <1>3, <2>2 DEF Paired
  <2>3. Unborn' = Unborn
    BY <1>1, <1>4 DEF Unborn
  <2> QED BY <1>1, <1>4, <2>1, <2>2, <2>3 DEF Paired
<1>8. Apart'
  BY <1>1, <1>4 DEF Apart
<1>9. Managed'
  BY <1>2 DEF Managed, IsUp
<1>10. Loading'
  <2>1. ASSUME NEW q \in Listed
        PROVE  q \in Unfinished /\ obj[q] = row[q] /\ owner[q] \notin boot'.todo
    BY <1>1, <1>2 DEF Loading
  <2>2. ASSUME NEW q \in Unfinished, home[q] \notin hurt
        PROVE  (q \in Listed \/ owner[q] \in boot'.todo) /\ owner[q] # Nobody
    BY <1>1, <1>2, <2>2 DEF Loading, Made, Unfinished
  <2> QED BY <1>1, <1>2, <1>3, <1>4, <2>1, <2>2 DEF Loading
<1> QED BY <1>5, <1>6, <1>7, <1>8, <1>9, <1>10

(* At least one manager has been loaded, so that no orphan is left.        *)
LEMMA LateLoadKeeps ==
  ASSUME IInv, LateLoad
  PROVE  IInv'
<1> USE DEF IInv
<1>1. /\ boot.phase = "loading" /\ boot.todo = {} /\ boot' = Up /\ grouped' = keys
      /\ srv' = [s \in Servers |-> [srv[s] EXCEPT !.listens = srv[s].pid # None]]
      /\ doubled' \subseteq Players
      /\ UNCHANGED <<obj, keys, row, srow, owner, home, hurt>>
  BY DEF LateLoad, tables
<1>2. keys # {} /\ keys \subseteq Managers
  BY ManagersAssumption DEF Booting, TypeOK
<1>3. /\ srv' \in [Servers -> Srvs]
      /\ \A s \in Servers : srv'[s].pug = srv[s].pug /\ srv'[s].pid = srv[s].pid
  <2>1. \A s \in Servers : srv[s] \in Srvs
    BY DEF TypeOK, Srvs
  <2>2. ASSUME NEW s \in Servers
        PROVE  /\ [srv[s] EXCEPT !.listens = srv[s].pid # None] \in Srvs
               /\ srv'[s].pug = srv[s].pug /\ srv'[s].pid = srv[s].pid
    BY <1>1, <2>1 DEF Srvs
  <2> QED BY <1>1, <2>2
<1>4. Listed' = Listed /\ Unfinished' = Unfinished
  BY <1>1 DEF Listed, Unfinished
<1>5. TypeOK'
  BY <1>1, <1>3 DEF TypeOK, Srvs, Up
<1>6. Made' /\ Booting'
  BY <1>1, <1>4 DEF Made, Booting, Up
<1>7. Paired'
  <2>1. ASSUME NEW q \in Listed, home[q] \notin hurt
        PROVE  srv'[home[q]].pug = q
    BY <1>3, <2>1 DEF Paired, Made, Listed
  <2>2. ASSUME NEW s \in Servers \ hurt, srv'[s].pug # None
        PROVE  /\ srv'[s].pug \in Listed \cup Unborn
               /\ home[srv'[s].pug] = s
               /\ srv'[s].pug \in Unborn => srv'[s].pid = None
    BY <1>3, <2>2 DEF Paired
  <2>3. Unborn' = Unborn
    BY <1>1, <1>4 DEF Unborn
  <2> QED BY <1>1, <1>4, <2>1, <2>2, <2>3 DEF Paired
<1>8. Apart'
  BY <1>1, <1>4 DEF Apart
<1>9. Managed'
  <2>1. ASSUME NEW q \in Unfinished, home[q] \notin hurt
        PROVE  q \in Listed
    BY <1>1, <2>1 DEF Loading
  <2>2. ASSUME NEW q \in Listed, obj[q].state = "open"
        PROVE  row[q].state = "open" /\ obj[q].players \subseteq row[q].players
    BY <1>1, <2>2 DEF Loading
  <2>3. ASSUME NEW s \in Servers \ hurt, srv'[s].pug = None
        PROVE  srv'[s].pid = None
    BY <1>1, <1>2, <1>3, <2>3 DEF Loading
  <2> QED BY <1>1, <1>4, <2>1, <2>2, <2>3 DEF Managed
<1>10. Loading'
  BY <1>1 DEF Loading, Up
<1> QED BY <1>5, <1>6, <1>7, <1>8, <1>9, <1>10

(* While the daemon is up only servers that failures touched are orphans.  *)
LEMMA NewManagerKeeps ==
  ASSUME IInv, NEW m \in Managers, NewManager(m)
  PROVE  IInv'
<1> USE DEF IInv
<1>1. /\ IsUp /\ keys' = keys \cup {m} /\ ResetOrphans
      /\ UNCHANGED <<boot, grouped, obj, doubled, row, owner, home, hurt>>
  BY DEF NewManager, IsUp
<1>2. boot.unread = {} /\ boot.cur = Nobody /\ boot.phase = "up"
  BY <1>1 DEF IsUp, Booting, TypeOK, Made
<1>3. /\ srv' \in [Servers -> Srvs]
      /\ srow' \in [Servers -> Pugs \cup {None}]
      /\ \A s \in Servers : srv'[s].pug = srv[s].pug
      /\ \A s \in Servers : srv'[s].pug = None => srv'[s].pid = None
      /\ \A s \in Servers : srv[s].pug # None => srv'[s] = srv[s]
  BY <1>1, ResetOrphansDoes
<1>4. Listed' = Listed /\ Unfinished' = Unfinished
  BY <1>1 DEF Listed, Unfinished
<1>5. TypeOK'
  BY <1>1, <1>3 DEF TypeOK, Srvs
<1>6. Made' /\ Booting'
  BY <1>1, <1>2, <1>4 DEF Made, Booting
<1>7. Paired'
  <2>1. ASSUME NEW q \in Listed, home[q] \notin hurt
        PROVE  srv'[home[q]].pug = q
    BY <1>3, <2>1 DEF Paired, Made, Listed
  <2>2. ASSUME NEW s \in Servers \ hurt, srv'[s].pug # None
        PROVE  /\ srv'[s].pug \in Listed \cup Unborn
               /\ home[srv'[s].pug] = s
               /\ srv'[s].pug \in Unborn => srv'[s].pid = None
    BY <1>3, <2>2 DEF Paired
  <2>3. Unborn' = Unborn
    BY <1>1, <1>4 DEF Unborn
  <2> QED BY <1>1, <1>4, <2>1, <2>2, <2>3 DEF Paired
<1>8. Apart'
  BY <1>1, <1>4 DEF Apart
<1>9. Managed'
  BY <1>1, <1>3, <1>4 DEF Managed, IsUp
<1>10. Loading'
  BY <1>1, <1>2 DEF Loading
<1> QED BY <1>5, <1>6, <1>7, <1>8, <1>9, <1>10

-----------------------------------------------------------------------------
(* Every step keeps the invariant.                                         *)
LEMMA NextKeeps ==
  ASSUME IInv, Stored, [Next]_vars
  PROVE  IInv'
<1>1. CASE UNCHANGED vars
  <2>1. UNCHANGED <<boot, grouped, obj, srv, keys, row, srow, owner, home, hurt, doubled>>
    BY <1>1 DEF vars
  <2>2. Listed' = Listed /\ Unfinished' = Unfinished
    BY <2>1 DEF Listed, Unfinished
  <2>3. TypeOK' /\ Made' /\ Booting'
    BY <2>1, <2>2 DEF IInv, TypeOK, Made, Booting
  <2>4. Paired' /\ Apart' /\ Managed' /\ Loading'
    BY <2>1, <2>2 DEF IInv, Paired, Unborn, Apart, Managed, Loading, IsUp
  <2> QED BY <2>3, <2>4 DEF IInv
<1>2. ASSUME NEW m \in Managers, NEW p \in Players, NEW q \in Pugs, NEW s \in Servers,
             Create(m, p, q, s)
      PROVE  IInv'
  BY <1>2, CreateKeeps
<1>3. ASSUME NEW p \in Players, NEW q \in Pugs, Join(p, q) \/ Leave(p, q)
      PROVE  IInv'
  BY <1>3, JoinKeeps, LeaveKeeps
<1>4. ASSUME NEW q \in Pugs, End(q) \/ Progress(q)
      PROVE  IInv'
  BY <1>4, EndKeeps, ProgressKeeps
<1>5. ASSUME NEW q \in Pugs, LoadPug(q) \/ LoadOld(q)
      PROVE  IInv'
  BY <1>5, LoadPugKeeps, LoadOldKeeps
<1>6. ASSUME NEW s \in Servers, GameOver(s)
      PROVE  IInv'
  BY <1>6, GameOverKeeps
<1>7. ASSUME NEW m \in Managers, GetPugs(m) \/ NewManager(m)
      PROVE  IInv'
  BY <1>7, GetPugsKeeps, NewManagerKeeps
<1>8. CASE PeriodicFlush \/ Stop \/ StopLoading \/ Start \/ ManagerLoaded \/ LateLoad
  BY <1>8, PeriodicFlushKeeps, StopKeeps, StopLoadingKeeps, StartKeeps, ManagerLoadedKeeps,
     LateLoadKeeps
<1> QED BY <1>1, <1>2, <1>3, <1>4, <1>5, <1>6, <1>7, <1>8 DEF Next

(* A row is written for a pug that is created, that is listed, or that is  *)
(* about to be.                                                            *)
LEMMA StoredKeeps ==
  ASSUME IInv, Stored, [Next]_vars
  PROVE  Stored'
<1> USE DEF IInv
<1>1. ASSUME UNCHANGED owner,
             \A r \in Pugs : row'[r] = row[r] \/ r \in Listed \cup Unfinished
      PROVE  Stored'
  BY <1>1 DEF Stored, Made
<1>2. ASSUME NEW m \in Managers, NEW p \in Players, NEW q \in Pugs, NEW s \in Servers,
             Create(m, p, q, s)
      PROVE  Stored'
  <2>1. owner' = [owner EXCEPT ![q] = m] /\ \A r \in Pugs : r # q => row'[r] = row[r]
    BY <1>2 DEF Create, TypeOK
  <2> QED BY <2>1, ManagersAssumption DEF Stored, TypeOK
<1>3. ASSUME NEW q \in Pugs, NEW o, FlushPug(q, o)
      PROVE  \A r \in Pugs : r # q => row'[r] = row[r]
  BY <1>3 DEF FlushPug, TypeOK
<1>4. ASSUME NEW q \in Pugs, NEW o, EndPug(q, o)
      PROVE  UNCHANGED owner /\ \A r \in Pugs : r # q => row'[r] = row[r]
  BY <1>3, <1>4 DEF EndPug
<1>5. ASSUME NEW q \in Pugs, NEW p \in Players, Join(p, q) \/ Leave(p, q)
      PROVE  Stored'
  <2>1. CASE Join(p, q)
    BY <1>1, <1>3, <2>1 DEF Join, CanJoin
  <2>2. CASE Leave(p, q)
    BY <1>1, <1>4, <2>2 DEF Leave, tables
  <2> QED BY <1>5, <2>1, <2>2
<1>6. ASSUME NEW q \in Pugs, End(q) \/ Progress(q)
      PROVE  Stored'
  <2>1. CASE End(q)
    BY <1>1, <1>4, <2>1 DEF End
  <2>2. CASE Progress(q)
    BY <1>1, <1>3, <2>2 DEF Progress
  <2> QED BY <1>6, <2>1, <2>2
<1>7. ASSUME NEW q \in Pugs, LoadPug(q) \/ LoadOld(q)
      PROVE  Stored'
  <2>1. q \in Unfinished /\ UNCHANGED owner
    BY <1>7 DEF LoadPug, LoadOld, Booting
  <2>2. \A r \in Pugs : r # q => row'[r] = row[r]
    BY <1>3, <1>7 DEF LoadPug, LoadOld, tables
  <2> QED BY <1>1, <2>1, <2>2
<1>8. CASE PeriodicFlush \/ Stop
  <2>1. UNCHANGED owner /\ \E P \in SUBSET Listed, S \in SUBSET Servers : FlushAll(P, S)
    BY <1>8 DEF PeriodicFlush, Stop, Unwritten, Stale
  <2>2. \A r \in Pugs : row'[r] = row[r] \/ r \in Listed
    BY <2>1 DEF FlushAll
  <2> QED BY <1>1, <2>1, <2>2
<1>9. CASE \/ StopLoading \/ Start \/ ManagerLoaded \/ LateLoad \/ UNCHANGED vars
           \/ \E s \in Servers : GameOver(s)
           \/ \E m \in Managers : GetPugs(m) \/ NewManager(m)
  <2>1. UNCHANGED <<owner, row>>
    BY <1>9 DEF StopLoading, Start, ManagerLoaded, LateLoad, GameOver, GetPugs, NewManager,
                tables, vars
  <2> QED BY <1>1, <2>1
<1> QED BY <1>2, <1>5, <1>6, <1>7, <1>8, <1>9 DEF Next

-----------------------------------------------------------------------------
(* Pugs that lose players, or go, bring nobody together.                   *)
LEMMA FewerPlayers ==
  ASSUME OnePugPerMember, IsUp, UNCHANGED <<grouped, owner, doubled>>,
         \A q \in Pugs : q \in Listed' => q \in Listed /\ obj'[q].players \subseteq obj[q].players
  PROVE  OnePugPerMember'
<1> SUFFICES ASSUME IsUp', NEW q \in Listed', NEW r \in Listed', q # r,
                    owner[r] \in View(owner[q])
             PROVE  obj'[q].players \cap obj'[r].players \subseteq doubled
  BY DEF OnePugPerMember, View
<1>1. q \in Pugs /\ r \in Pugs
  BY DEF Listed
<1>2. q \in Listed /\ r \in Listed
  BY <1>1
<1>3. obj[q].players \cap obj[r].players \subseteq doubled
  BY <1>2 DEF OnePugPerMember
<1> QED BY <1>1, <1>3

(* A player is let into a pug only when in no other pug that its manager   *)
(* knows of, and managers know each other or neither does.                 *)
LEMMA OneMore ==
  ASSUME TypeOK, OnePugPerMember, IsUp, NEW p \in Players, NEW q \in Pugs, NEW m \in Managers,
         ~InPug(p, m), m = owner'[q],
         UNCHANGED <<grouped, doubled>>,
         obj'[q].players \subseteq {p} \cup (IF q \in Listed THEN obj[q].players ELSE {}),
         q \in Listed => owner[q] = m,
         \A r \in Pugs \ {q} : obj'[r] = obj[r] /\ owner'[r] = owner[r]
  PROVE  OnePugPerMember'
<1>1. \A r \in Listed' \ {q} : r \in Listed /\ r \in Pugs
  BY DEF Listed
<1>2. ASSUME NEW r \in Listed' \ {q}, owner[r] \in View(m)
      PROVE  obj'[q].players \cap obj'[r].players \subseteq doubled
  <2>1. p \notin obj[r].players
    BY <1>1, <1>2 DEF InPug
  <2>2. CASE q \in Listed
    <3>1. obj[q].players \cap obj[r].players \subseteq doubled
      BY <1>1, <1>2, <2>2 DEF OnePugPerMember
    <3> QED BY <1>1, <2>1, <2>2, <3>1
  <2>3. CASE q \notin Listed
    BY <1>1, <2>1, <2>3
  <2> QED BY <2>2, <2>3
<1>3. ASSUME NEW r \in Listed' \ {q}, m \in View(owner[r])
      PROVE  owner[r] \in View(m)
  BY <1>3 DEF View
<1>4. ASSUME NEW r \in Listed' \ {q}, NEW t \in Listed' \ {q}, r # t, owner[t] \in View(owner[r])
      PROVE  obj'[r].players \cap obj'[t].players \subseteq doubled
  <2>1. obj[r].players \cap obj[t].players \subseteq doubled
    BY <1>1, <1>4 DEF OnePugPerMember
  <2> QED BY <1>1, <2>1
<1>5. ASSUME NEW r \in Listed', NEW t \in Listed', r # t, owner'[t] \in View(owner'[r])
      PROVE  obj'[r].players \cap obj'[t].players \subseteq doubled
  <2>1. CASE r = q
    <3>1. t \in Listed' \ {q} /\ owner[t] \in View(m)
      BY <1>1, <1>5, <2>1
    <3> QED BY <1>2, <2>1, <3>1
  <2>2. CASE t = q
    <3>1. r \in Listed' \ {q} /\ m \in View(owner[r])
      BY <1>1, <1>5, <2>2
    <3>2. obj'[q].players \cap obj'[r].players \subseteq doubled
      BY <1>2, <1>3, <3>1
    <3> QED BY <2>2, <3>2
  <2>3. CASE r # q /\ t # q
    <3>1. owner[t] \in View(owner[r])
      BY <1>1, <1>5, <2>3
    <3> QED BY <1>4, <1>5, <2>3, <3>1
  <2> QED BY <2>1, <2>2, <2>3
<1>6. \A n : View(n)' = View(n)
  BY DEF View
<1> QED BY <1>5, <1>6 DEF OnePugPerMember

(* A pug that ends is gone, or keeps the players of the object it is.      *)
LEMMA EndingKeepsMembers ==
  ASSUME TypeOK, OnePugPerMember, IsUp, NEW q \in Listed, NEW o \in Live,
         o.players \subseteq obj[q].players, EndPug(q, o)
  PROVE  OnePugPerMember'
<1>1. q \in Pugs
  BY DEF Listed
<1>2. CASE boot' = Down
  BY <1>2 DEF OnePugPerMember, IsUp, Down
<1>3. CASE obj' = [obj EXCEPT ![q] = NoPug] /\ UNCHANGED <<grouped, owner, doubled>>
  BY <1>1, <1>3, FewerPlayers DEF TypeOK, Listed, NoPug
<1>4. CASE obj' = [obj EXCEPT ![q] = o] /\ UNCHANGED <<grouped, owner, doubled>>
  BY <1>1, <1>4, FewerPlayers DEF TypeOK, Listed
<1>5. CASE obj' = [obj EXCEPT ![q] = Ended(o)] /\ UNCHANGED <<grouped, owner, doubled>>
  <2>1. Ended(o).players = o.players /\ Ended(o) \in Live
    BY DEF Ended, Live
  <2> QED BY <1>1, <1>5, <2>1, FewerPlayers DEF TypeOK, Listed
<1> QED BY <1>2, <1>3, <1>4, <1>5 DEF EndPug, Dies

(* Every handler of a daemon that is up keeps players of managers that know*)
(* each other in one pug, and the start records whom it found in two.      *)
LEMMA MembersKept ==
  ASSUME IInv, OnePugPerMember, [Next]_vars
  PROVE  OnePugPerMember'
<1> USE DEF IInv
<1>1. CASE UNCHANGED <<grouped, owner, doubled, obj>> /\ IsUp
  BY <1>1, FewerPlayers DEF Listed
<1>2. CASE ~IsUp'
  BY <1>2 DEF OnePugPerMember
<1>3. ASSUME NEW m \in Managers, NEW p \in Players, NEW q \in Pugs, NEW s \in Servers,
             Create(m, p, q, s)
      PROVE  OnePugPerMember'
  <2> DEFINE new == [players |-> {p}, state |-> "open"]
  <2>1. /\ IsUp /\ ~InPug(p, m) /\ owner' = [owner EXCEPT ![q] = m] /\ owner[q] = Nobody
        /\ q \notin Listed /\ owner'[q] = m
    BY <1>3 DEF Create, IsUp, Made, TypeOK
  <2>2. CASE obj' = [obj EXCEPT ![q] = new] /\ UNCHANGED <<grouped, doubled>>
    <3>1. obj'[q] = new /\ \A r \in Pugs \ {q} : obj'[r] = obj[r] /\ owner'[r] = owner[r]
      BY <2>1, <2>2 DEF TypeOK
    <3> QED BY <2>1, <2>2, <3>1, OneMore
  <2>3. CASE boot' = Down
    BY <2>3 DEF OnePugPerMember, IsUp, Down
  <2>4. CASE UNCHANGED <<obj, grouped, doubled>>
    <3>1. Listed' = Listed /\ \A r \in Listed : r \in Pugs /\ owner'[r] = owner[r]
      BY <2>1, <2>4 DEF Listed, TypeOK
    <3> QED BY <2>1, <2>4, <3>1 DEF OnePugPerMember, View
  <2> QED BY <1>3, <2>2, <2>3, <2>4 DEF Create, Dies
<1>4. ASSUME NEW p \in Players, NEW q \in Pugs, Join(p, q)
      PROVE  OnePugPerMember'
  <2>1. /\ IsUp /\ q \in Listed /\ ~InPug(p, owner[q]) /\ obj' = [obj EXCEPT ![q] = Joined(obj[q], p)]
        /\ UNCHANGED <<grouped, owner, doubled>>
    BY <1>4 DEF Join, CanJoin, IsUp
  <2>2. owner[q] \in Managers
    BY <2>1 DEF Made, TypeOK
  <2>3. obj'[q].players = obj[q].players \cup {p} /\ \A r \in Pugs \ {q} : obj'[r] = obj[r]
    BY <2>1 DEF Joined, TypeOK
  <2> QED BY <2>1, <2>2, <2>3, OneMore
<1>5. ASSUME NEW p \in Players, NEW q \in Pugs, Leave(p, q)
      PROVE  OnePugPerMember'
  <2> DEFINE o == [players |-> obj[q].players \ {p},
                   state |-> IF obj[q].state = "over" THEN "reopened" ELSE obj[q].state]
  <2>1. IsUp /\ q \in Listed /\ o \in Live /\ o.players \subseteq obj[q].players
    BY <1>5 DEF Leave, IsUp, Live, Listed, TypeOK, PugStates
  <2>2. CASE EndPug(q, o)
    BY <2>1, <2>2, EndingKeepsMembers
  <2>3. CASE obj' = [obj EXCEPT ![q] = o] /\ UNCHANGED <<grouped, owner, doubled>>
    BY <2>1, <2>3, FewerPlayers DEF TypeOK, Listed
  <2> QED BY <1>5, <2>2, <2>3 DEF Leave
<1>6. ASSUME NEW q \in Pugs, End(q)
      PROVE  OnePugPerMember'
  <2>1. IsUp /\ q \in Listed /\ obj[q] \in Live
    BY <1>6 DEF End, IsUp, Live, Listed, TypeOK, PugStates
  <2> QED BY <1>6, <2>1, EndingKeepsMembers DEF End
<1>7. ASSUME NEW s \in Servers, GameOver(s)
      PROVE  OnePugPerMember'
  <2>1. /\ IsUp /\ srv[s].pug \in Listed /\ obj' = [obj EXCEPT ![srv[s].pug].state = "over"]
        /\ UNCHANGED <<grouped, owner, doubled>>
    BY <1>7 DEF GameOver, IsUp
  <2> QED BY <2>1, FewerPlayers DEF TypeOK, Listed
<1>8. ASSUME NEW q \in Pugs, LoadPug(q) \/ LoadOld(q)
      PROVE  OnePugPerMember'
  <2>1. boot.phase # "up"
    BY <1>8 DEF LoadPug, LoadOld, Booting, Made, TypeOK
  <2>2. boot'.phase # "up"
    BY <1>8, <2>1 DEF LoadPug, LoadOld, Dies, Down, TypeOK
  <2> QED BY <2>2 DEF OnePugPerMember, IsUp
<1>9. ASSUME NEW m \in Managers, GetPugs(m)
      PROVE  OnePugPerMember'
  <2>1. boot'.phase = "loading"
    BY <1>9 DEF GetPugs, TypeOK
  <2> QED BY <2>1 DEF OnePugPerMember, IsUp
<1>10. CASE LateLoad
  BY <1>10 DEF LateLoad, OnePugPerMember, InTwoPugs, Listed, TypeOK
<1>11. ASSUME Stop \/ StopLoading \/ Start \/ ManagerLoaded
       PROVE  OnePugPerMember'
  <2>1. CASE Stop \/ StopLoading \/ Start
    <3>1. boot' = Down \/ boot' = [Down EXCEPT !.phase = "loading", !.todo = keys]
      BY <2>1 DEF Stop, StopLoading, Start, Dies
    <3>2. Down.phase = "down" /\ [Down EXCEPT !.phase = "loading", !.todo = keys].phase = "loading"
      BY DEF Down
    <3>3. boot'.phase # "up"
      BY <3>1, <3>2
    <3> QED BY <3>3 DEF OnePugPerMember, IsUp
  <2>2. CASE ManagerLoaded
    <3>1. boot.phase = "loading" /\ boot' = [boot EXCEPT !.todo = @ \ {boot.cur}, !.cur = Nobody]
      BY <2>2 DEF ManagerLoaded, Booting
    <3>2. boot'.phase = "loading"
      BY <3>1 DEF TypeOK
    <3> QED BY <3>2 DEF OnePugPerMember, IsUp
  <2> QED BY <1>11, <2>1, <2>2
<1>12. CASE UNCHANGED vars
  BY <1>1, <1>2, <1>12 DEF vars, IsUp
<1>13. CASE \E q \in Pugs : Progress(q)
  BY <1>1, <1>13 DEF Progress, memory, IsUp
<1>14. CASE PeriodicFlush
  BY <1>1, <1>14 DEF PeriodicFlush, memory, IsUp
<1>15. CASE \E m \in Managers : NewManager(m)
  BY <1>1, <1>15 DEF NewManager, IsUp
<1> QED BY <1>3, <1>4, <1>5, <1>6, <1>7, <1>8, <1>9, <1>10, <1>11, <1>12, <1>13, <1>14, <1>15
        DEF Next

-----------------------------------------------------------------------------
(* The tables and the objects stay consistent, through every failure.      *)
THEOREM FleetInvariance == Spec => []IInv
<1>1. Init => IInv /\ Stored
  BY InitHolds DEF Init, Stored, NoPug
<1>2. IInv /\ Stored /\ [Next]_vars => (IInv /\ Stored)'
  BY NextKeeps, StoredKeeps
<1> QED BY <1>1, <1>2, PTL DEF Spec

(* Objects, rows and columns keep their types.                             *)
THEOREM FleetTypeCorrect == Spec => []TypeOK
<1>1. IInv => TypeOK
  BY DEF IInv
<1> QED BY <1>1, FleetInvariance, PTL

(* A server that no failure has touched knows the one pug it has, after any*)
(* number of crashes and restarts.                                         *)
THEOREM OnePugPerServerTheorem == Spec => []OnePugPerServer
<1>1. IInv => OnePugPerServer
  BY DEF IInv, Paired, Unborn, OnePugPerServer
<1> QED BY <1>1, FleetInvariance, PTL

(* A server that is in use has a listed pug whose end frees it.            *)
THEOREM NoServerForgottenTheorem == Spec => []NoServerForgotten
<1>1. IInv => NoServerForgotten
  BY DEF IInv, Paired, Unborn, Managed, InUse, NoServerForgotten
<1> QED BY <1>1, FleetInvariance, PTL

(* Every unfinished row belongs to a pug that a manager has.               *)
THEOREM NoPugForgottenTheorem == Spec => []NoPugForgotten
<1>1. IInv => NoPugForgotten
  BY DEF IInv, Managed, NoPugForgotten
<1> QED BY <1>1, FleetInvariance, PTL

(* A crash loses no open pug and nobody who joined it.                     *)
THEOREM PugsSurviveTheorem == Spec => []PugsSurvive
<1>1. IInv => PugsSurvive
  BY DEF IInv, Managed, PugsSurvive
<1> QED BY <1>1, FleetInvariance, PTL

(* Whatever happens in between, nobody gets into a second pug of managers  *)
(* that know each other, except by a restart.                              *)
THEOREM OnePugPerMemberTheorem == Spec => []OnePugPerMember
<1>1. Init => OnePugPerMember
  BY DEF Init, OnePugPerMember, IsUp, Down
<1>2. IInv /\ OnePugPerMember /\ [Next]_vars => OnePugPerMember'
  BY MembersKept
<1> QED BY <1>1, <1>2, FleetInvariance, PTL DEF Spec

=============================================================================
