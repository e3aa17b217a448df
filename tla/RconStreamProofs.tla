-------------------------- MODULE RconStreamProofs --------------------------
(***************************************************************************)
(* Theorems about RconStream, for any number of commands, any length of a  *)
(* reply and any set of commands that cannot be encoded.                   *)
(***************************************************************************)
EXTENDS RconStream, SequenceTheorems, TLAPS

(* The types of the object, and of the packets in each place.              *)
Replied == PacketsOf({"data", "mirror", "end"})
Incoming == PacketsOf({"data", "auth", "mirror", "end"})
Outgoing == PacketsOf({"auth", "exec", "mirror"})

ConnType ==
  [closed: BOOLEAN, authed: BOOLEAN, refused: BOOLEAN, busy: BOOLEAN,
   queue: Seq(Cmds), request_id: Nat, io: Io, next: Callbacks,
   data: PacketsOf({"none", "data", "auth", "mirror", "end"}),
   previous: Seq(Replied), cmd: Cmds \cup {None}]

(* The queue ends with the command that was given last.                    *)
InOrder(queue, last) ==
  \A i \in 1 .. Len(queue) : queue[i] = last - Len(queue) + i

Stage(io, next) == conn.io = io /\ conn.next = next

(* How many commands wait, how many have been executed, and how many       *)
(* packets the game server sends for the one in flight.                    *)
Waiting == Len(conn.queue)
Done == Len(executed)
Size == size[conn.cmd]

(* The first n commands were answered.                                     *)
AllAnswered(n) == \A c \in Cmds : c <= n => reply[c] # <<>>

(* Not authenticated: everything is in the queue, and the two packets that *)
(* answer the password are read one after the other.                       *)
Authing ==
  /\ ~conn.authed /\ ~conn.busy
  /\ Done = 0 /\ Waiting = given /\ conn.previous = <<>>
  /\ \/ Stage("connect", "none") /\ inbox = <<>> /\ wire = <<>>
     \/ /\ Stage("write", "auth_sent") \/ Stage("run", "auth_sent") \/ Stage("read", "auth_junk")
        /\ \/ inbox = <<Packet(conn.request_id, "auth", None)>> /\ wire = <<>>
           \/ inbox = <<>> /\ Len(wire) = 2
     \/ /\ Stage("run", "auth_junk") \/ Stage("read", "auth_response")
        /\ inbox = <<>> /\ Len(wire) = 1
     \/ /\ Stage("run", "auth_response") \/ Stage("idle", "none")
        /\ inbox = <<>> /\ wire = <<>>

(* Nothing to do, or jammed by a command that could not be encoded.        *)
Resting ==
  /\ conn.authed
  /\ Stage("idle", "none")
  /\ inbox = <<>> /\ wire = <<>> /\ conn.previous = <<>>
  /\ AllAnswered(Done)
  /\ \/ ~conn.busy /\ conn.queue = <<>> /\ Done = given
     \/ conn.busy /\ Done + 1 + Waiting = given

(* How many packets of a reply have been read, and what the i-th one is.   *)
Received == IF Stage("run", "packet") THEN Len(conn.previous) + 1 ELSE Len(conn.previous)

Expected(i, x) ==
  IF i <= Size THEN x.kind = "data" /\ x.cmd = conn.cmd /\ x.id = conn.request_id - 1
  ELSE IF i = Size + 1 THEN x.kind = "mirror" /\ x.id = conn.request_id
  ELSE x.kind = "end" /\ x.id = conn.request_id

(* The command in flight has not been executed yet, ...                    *)
Sending ==
  /\ inbox = <<Packet(conn.request_id - 1, "exec", conn.cmd),
               Packet(conn.request_id, "mirror", conn.cmd)>>
  /\ wire = <<>> /\ Received = 0
  /\ Done + 1 = conn.cmd /\ AllAnswered(Done)

(* ... or has been, and its reply is read, on its way, or still to come.   *)
Replying ==
  /\ \/ inbox = <<Packet(conn.request_id, "mirror", conn.cmd)>>
        /\ Received + Len(wire) = Size
     \/ inbox = <<>> /\ Received + Len(wire) = Size + 2
  /\ Size >= 1
  /\ Received = Size + 2 => Stage("run", "packet")
  /\ \A i \in 1 .. Len(conn.previous) : Expected(i, conn.previous[i])
  /\ Stage("run", "packet") => Expected(Received, conn.data)
  /\ \A i \in 1 .. Len(wire) : Expected(Received + i, wire[i])
  /\ Done = conn.cmd

InFlight ==
  /\ conn.authed /\ conn.busy
  /\ \/ Stage("write", "sent") \/ Stage("run", "sent")
     \/ Stage("read", "packet") \/ Stage("run", "packet")
  /\ Stage("write", "sent") \/ Stage("run", "sent") => conn.previous = <<>>
  /\ conn.cmd \in Cmds /\ conn.cmd + Waiting = given
  /\ reply[conn.cmd] = <<>>
  /\ Sending \/ Replying

(* What holds of a connection that is open.                                *)
Open ==
  /\ InOrder(conn.queue, given)
  /\ Authing \/ Resting \/ InFlight

(* What is not executed yet has no reply.                                  *)
Replies == \A c \in Cmds : c > Done => reply[c] = <<>>

(* The inductive invariant.                                                *)
IInv ==
  /\ TypeOK
  /\ ExecutedInOrder
  /\ OwnReply
  /\ Replies
  /\ AllAnswered(Done - 1)
  /\ IF conn.closed THEN conn = Closed ELSE Open

-----------------------------------------------------------------------------
(* What each method of the object does to its fields.                      *)

(* No packet is one of the packets a connection may hold.                  *)
LEMMA NoPacketType == NoPacket \in PacketsOf({"none", "data", "auth", "mirror", "end"})
  BY DEF NoPacket, Packet, PacketsOf, None

(* A new connection and a closed one.                                      *)
LEMMA NewFields == New \in ConnType /\ Closed \in ConnType
  <1>1. <<>> \in Seq(Cmds) /\ <<>> \in Seq(Replied)
    BY EmptySeq
  <1> QED
    BY <1>1, NoPacketType DEF New, Closed, ConnType, Io, Callbacks, None

(* A read keeps all but the stage.                                         *)
LEMMA ReadFields ==
  ASSUME NEW k \in ConnType, NEW callback \in Callbacks
  PROVE  LET l == Read(k, callback)
         IN  /\ l \in ConnType
             /\ l.io = "read" /\ l.next = callback
             /\ l.closed = k.closed /\ l.authed = k.authed /\ l.busy = k.busy
             /\ l.queue = k.queue /\ l.request_id = k.request_id
             /\ l.previous = k.previous /\ l.cmd = k.cmd
  BY NoPacketType DEF Read, ConnType, Io

(* A write takes ids.                                                      *)
LEMMA WriteFields ==
  ASSUME NEW k \in ConnType, NEW ids \in Nat, NEW callback \in Callbacks
  PROVE  LET l == Write(k, ids, callback)
         IN  /\ l \in ConnType
             /\ l.io = "write" /\ l.next = callback
             /\ l.closed = k.closed /\ l.authed = k.authed /\ l.busy = k.busy
             /\ l.queue = k.queue /\ l.request_id = k.request_id + ids
             /\ l.previous = k.previous /\ l.cmd = k.cmd
  <1>1. k.request_id + ids \in Nat
    BY DEF ConnType
  <1> QED
    BY <1>1, NoPacketType DEF Write, ConnType, Io

(* At rest nothing is read or written.                                     *)
LEMMA RestFields ==
  ASSUME NEW k \in ConnType
  PROVE  LET l == Rest(k)
         IN  /\ l \in ConnType
             /\ l.io = "idle" /\ l.next = "none"
             /\ l.closed = k.closed /\ l.authed = k.authed /\ l.busy = k.busy
             /\ l.queue = k.queue /\ l.request_id = k.request_id
             /\ l.previous = k.previous /\ l.cmd = k.cmd
  BY NoPacketType DEF Rest, ConnType, Io, Callbacks

(* _exec sends a command or, when it cannot be encoded, jams.              *)
LEMMA ExecFields ==
  ASSUME NEW k \in ConnType, NEW c \in Cmds
  PROVE  LET l == Exec(k, c)
         IN  /\ l \in ConnType
             /\ l.closed = k.closed /\ l.authed = k.authed /\ l.busy
             /\ l.queue = k.queue /\ l.previous = k.previous
             /\ \/ l.io = "idle" /\ l.next = "none" /\ l.request_id = k.request_id + 1
                \/ /\ l.io = "write" /\ l.next = "sent"
                   /\ l.request_id = k.request_id + 2 /\ l.cmd = c
  <1>1. CASE c \in Unencodable
    <2> DEFINE r == Rest(k)
    <2>1. /\ r \in ConnType /\ r.io = "idle" /\ r.next = "none"
          /\ r.closed = k.closed /\ r.authed = k.authed
          /\ r.queue = k.queue /\ r.request_id = k.request_id /\ r.previous = k.previous
      BY RestFields
    <2>2. Exec(k, c) = [r EXCEPT !.busy = TRUE, !.request_id = r.request_id + 1]
      BY <1>1 DEF Exec
    <2> HIDE DEF r
    <2>3. r.request_id + 1 \in Nat
      BY <2>1 DEF ConnType
    <2> QED
      BY <2>1, <2>2, <2>3 DEF ConnType
  <1>2. CASE c \notin Unencodable
    <2> DEFINE w == Write(k, 2, "sent")
    <2>1. /\ w \in ConnType /\ w.io = "write" /\ w.next = "sent"
          /\ w.closed = k.closed /\ w.authed = k.authed
          /\ w.queue = k.queue /\ w.request_id = k.request_id + 2 /\ w.previous = k.previous
      BY WriteFields DEF Callbacks
    <2>2. Exec(k, c) = [w EXCEPT !.busy = TRUE, !.cmd = c]
      BY <1>2 DEF Exec
    <2> HIDE DEF w
    <2> QED
      BY <2>1, <2>2 DEF ConnType
  <1> QED
    BY <1>1, <1>2

(* A command that is queued changes the queue only.                        *)
LEMMA QueuedFields ==
  ASSUME NEW k \in ConnType, NEW c \in Cmds
  PROVE  LET l == [k EXCEPT !.queue = Append(k.queue, c)]
         IN  /\ l \in ConnType
             /\ l.io = k.io /\ l.next = k.next /\ l.data = k.data
             /\ l.closed = k.closed /\ l.authed = k.authed /\ l.busy = k.busy
             /\ l.queue = Append(k.queue, c) /\ l.request_id = k.request_id
             /\ l.previous = k.previous /\ l.cmd = k.cmd
  <1>1. k.queue \in Seq(Cmds) /\ Append(k.queue, c) \in Seq(Cmds)
    BY AppendProperties DEF ConnType
  <1> QED
    BY <1>1 DEF ConnType

(* A queue stays in order when it grows and when it is served.             *)
LEMMA Queues ==
  ASSUME NEW q \in Seq(Cmds), NEW n \in Nat, InOrder(q, n)
  PROVE  /\ n + 1 \in Cmds => InOrder(Append(q, n + 1), n + 1)
         /\ q # <<>> => /\ Head(q) \in Cmds /\ Head(q) = n - Len(q) + 1
                        /\ Tail(q) \in Seq(Cmds) /\ Len(Tail(q)) = Len(q) - 1
                        /\ InOrder(Tail(q), n)
  <1>1. ASSUME n + 1 \in Cmds
        PROVE  InOrder(Append(q, n + 1), n + 1)
    BY <1>1, LenProperties, AppendProperties DEF InOrder
  <1>2. ASSUME q # <<>>
        PROVE  /\ Head(q) \in Cmds /\ Head(q) = n - Len(q) + 1
               /\ Tail(q) \in Seq(Cmds) /\ Len(Tail(q)) = Len(q) - 1
               /\ InOrder(Tail(q), n)
    <2>1. Len(q) \in Nat \ {0} /\ Head(q) = q[1]
      BY <1>2, EmptySeq
    <2> QED
      BY <1>2, <2>1, HeadTailProperties DEF InOrder
  <1> QED
    BY <1>1, <1>2

-----------------------------------------------------------------------------
(* Where a command is started.                                             *)

(* k is an open connection that is free to start the command that comes    *)
(* after those that have been executed.                                    *)
Idle(k) ==
  /\ k \in ConnType /\ ~k.closed /\ k.authed /\ k.previous = <<>>
  /\ k.request_id = conn.request_id
  /\ inbox = <<>> /\ wire' = <<>>

(* A step that starts the command c, with the rest of the queue in k.      *)
LEMMA ExecStep ==
  ASSUME NEW k, Idle(k), NEW c \in Cmds, executed \in Seq(Cmds), c = Done + 1,
         given' = c + Len(k.queue), InOrder(k.queue, given'),
         conn' = Exec(k, c), inbox' = inbox \o Sent(conn, conn'), executed' = executed,
         reply'[c] = <<>>, \A d \in Cmds : d <= Done => reply'[d] # <<>>
  PROVE  conn' \in ConnType /\ ~conn'.closed /\ Open'
  <1>0. AllAnswered(Done)'
    BY DEF AllAnswered, Done
  <1>1. /\ k \in ConnType /\ Len(k.queue) \in Nat /\ conn.request_id \in Nat
        /\ Done \in Nat /\ Done' = Done /\ c \in Nat
    BY LenProperties, BoundsAssumption DEF Idle, ConnType, Cmds, Done
  <1>2. /\ conn' \in ConnType
        /\ ~conn'.closed /\ conn'.authed /\ conn'.busy
        /\ conn'.queue = k.queue /\ conn'.previous = <<>>
        /\ \/ conn'.io = "idle" /\ conn'.next = "none" /\ conn'.request_id = conn.request_id + 1
           \/ /\ conn'.io = "write" /\ conn'.next = "sent"
              /\ conn'.request_id = conn.request_id + 2 /\ conn'.cmd = c
    BY <1>1, ExecFields DEF Idle
  <1>3. CASE conn'.io = "idle" /\ conn'.next = "none" /\ conn'.request_id = conn.request_id + 1
    <2>1. inbox' = <<>> /\ wire' = <<>>
      BY <1>1, <1>3 DEF Idle, Sent
    <2>2. Done' + 1 + Waiting' = given'
      BY <1>1, <1>2 DEF Waiting
    <2>3. Resting'
      BY <1>0, <1>2, <1>3, <2>1, <2>2 DEF Resting, Stage
    <2> QED
      BY <1>2, <2>3 DEF Open
  <1>4. CASE /\ conn'.io = "write" /\ conn'.next = "sent"
             /\ conn'.request_id = conn.request_id + 2 /\ conn'.cmd = c
    <2>1. Sent(conn, conn') = <<Packet(conn'.request_id - 1, "exec", conn'.cmd),
                                Packet(conn'.request_id, "mirror", conn'.cmd)>>
      BY <1>1, <1>4 DEF Sent
    <2>2. inbox' = Sent(conn, conn') /\ wire' = <<>>
      BY <2>1 DEF Idle
    <2>3. Received' = 0
      <3>1. conn'.io # "run" /\ Len(conn'.previous) = 0
        BY <1>2, <1>4, EmptySeq
      <3> QED
        BY <3>1 DEF Received, Stage
    <2>4. Sending'
      BY <1>0, <1>1, <1>4, <2>1, <2>2, <2>3 DEF Sending
    <2>5. conn'.cmd + Waiting' = given'
      BY <1>1, <1>2, <1>4 DEF Waiting
    <2>6. InFlight'
      BY <1>2, <1>4, <2>4, <2>5 DEF InFlight, Stage
    <2> QED
      BY <1>2, <2>6 DEF Open
  <1> QED
    BY <1>2, <1>3, <1>4

(* _process_queue, when everything that was started has been executed.     *)
LEMMA ProcessQueueStep ==
  ASSUME NEW k, Idle(k), ~k.busy, executed \in Seq(Cmds), given \in Nat,
         Done + Len(k.queue) = given,
         InOrder(k.queue, given), conn' = ProcessQueue(k),
         inbox' = inbox \o Sent(conn, conn'), executed' = executed, given' = given,
         \A c \in Cmds : c > Done => reply'[c] = <<>>,
         \A d \in Cmds : d <= Done => reply'[d] # <<>>
  PROVE  conn' \in ConnType /\ ~conn'.closed /\ Open'
  <1>1. k \in ConnType /\ k.queue \in Seq(Cmds) /\ Len(k.queue) \in Nat /\ Done \in Nat
        /\ Done' = Done /\ conn.request_id \in Nat
    BY LenProperties DEF Idle, ConnType, Done
  <1>2. CASE k.queue = <<>>
    <2>1. conn' = Rest(k)
      BY <1>2 DEF ProcessQueue
    <2>2. /\ conn' \in ConnType
          /\ conn'.io = "idle" /\ conn'.next = "none"
          /\ ~conn'.closed /\ conn'.authed /\ ~conn'.busy
          /\ conn'.queue = <<>> /\ conn'.previous = <<>>
          /\ conn'.request_id = conn.request_id
      BY <1>1, <1>2, <2>1, RestFields DEF Idle
    <2>3. inbox' = <<>> /\ wire' = <<>>
      BY <1>1, <2>2 DEF Idle, Sent
    <2>4. Done' = given'
      BY <1>1, <1>2, EmptySeq
    <2>5. Resting'
      BY <2>2, <2>3, <2>4 DEF Resting, Stage, AllAnswered, Done
    <2>6. InOrder(conn.queue, given)'
      BY <2>2, EmptySeq DEF InOrder
    <2> QED
      BY <2>2, <2>5, <2>6 DEF Open
  <1>3. CASE k.queue # <<>>
    <2> DEFINE r == Rest(k)
               h == [r EXCEPT !.queue = Tail(k.queue)]
               c == Head(k.queue)
               n == Len(k.queue)
    <2>1. /\ c \in Cmds /\ c = given - n + 1
          /\ Tail(k.queue) \in Seq(Cmds) /\ Len(Tail(k.queue)) = n - 1
          /\ InOrder(Tail(k.queue), given)
      BY <1>1, <1>3, Queues
    <2>2. n \in Nat /\ Done \in Nat /\ Done + n = given
      BY <1>1
    <2>3. /\ r \in ConnType /\ r.io = "idle" /\ ~r.closed /\ r.authed /\ ~r.busy
          /\ r.previous = <<>> /\ r.request_id = conn.request_id /\ r.queue = k.queue
      BY <1>1, RestFields DEF Idle
    <2>4. ProcessQueue(k) = SendCmd(h, c)
      BY <1>3, <2>3 DEF ProcessQueue
    <2> HIDE DEF r
    <2>5. /\ h \in ConnType /\ h.io = "idle" /\ ~h.closed /\ h.authed /\ ~h.busy
          /\ h.previous = <<>> /\ h.request_id = conn.request_id /\ h.queue = Tail(k.queue)
      BY <2>1, <2>3 DEF ConnType
    <2> HIDE DEF h
    <2>6. conn' = Exec(h, c)
      BY <2>4, <2>5 DEF SendCmd, Busy
    <2>7. Idle(h)
      BY <2>5 DEF Idle
    <2>8. c = Done + 1 /\ given = c + (n - 1) /\ c > Done
      <3> HIDE DEF c, n
      <3> QED
        BY <2>1, <2>2
    <2>9. given' = c + Len(h.queue) /\ InOrder(h.queue, given')
      <3> HIDE DEF c, n
      <3> QED
        BY <2>1, <2>5, <2>8
    <2>10. reply'[c] = <<>>
      <3> HIDE DEF c
      <3> QED
        BY <2>1, <2>8
    <2> HIDE DEF c
    <2> QED
      BY <2>1, <2>6, <2>7, <2>8, <2>9, <2>10, ExecStep
  <1> QED
    BY <1>2, <1>3

-----------------------------------------------------------------------------
(* What the invariant says, in the forms the steps use.                    *)

(* The parts of the type invariant, with the types named.                  *)
Types ==
  /\ conn \in ConnType /\ inbox \in Seq(Outgoing) /\ wire \in Seq(Incoming)
  /\ given \in 0 .. MaxCmds /\ executed \in Seq(Cmds) /\ Len(executed) <= given
  /\ size \in [Cmds -> 0 .. MaxData] /\ reply \in [Cmds -> Seq(Replied)]

(* They are the type invariant, before a step and after it.                *)
LEMMA TypeParts == (TypeOK <=> Types) /\ (TypeOK' <=> Types')
  BY Zenon DEF TypeOK, Types, ConnType, Outgoing, Incoming, Replied

(* The packets of either direction.                                        *)
LEMMA PacketTypes ==
  ASSUME NEW id \in Int, NEW cmd \in Cmds \cup {None}
  PROVE  /\ Packet(id, "auth", cmd) \in Outgoing /\ Packet(id, "exec", cmd) \in Outgoing
         /\ Packet(id, "mirror", cmd) \in Outgoing
         /\ Packet(id, "data", cmd) \in Incoming /\ Packet(id, "auth", cmd) \in Incoming
         /\ Packet(id, "mirror", cmd) \in Incoming /\ Packet(id, "end", cmd) \in Incoming
  BY DEF Packet, Outgoing, Incoming, PacketsOf

(* What a step writes are packets for the game server.                     *)
LEMMA SentType ==
  ASSUME NEW k \in ConnType, NEW l \in ConnType
  PROVE  Sent(k, l) \in Seq(Outgoing)
  <1>1. k.request_id + 1 \in Int /\ k.request_id + 2 \in Int /\ l.cmd \in Cmds \cup {None}
    BY DEF ConnType
  <1>2. /\ Packet(k.request_id + 1, "exec", l.cmd) \in Outgoing
        /\ Packet(k.request_id + 2, "mirror", l.cmd) \in Outgoing
    BY <1>1, PacketTypes
  <1> QED
    BY <1>2, EmptySeq DEF Sent

(* The ranges of the state and of the numbers that are derived from it.    *)
LEMMA Facts ==
  ASSUME IInv
  PROVE  /\ conn \in ConnType /\ conn.request_id \in Nat /\ conn.queue \in Seq(Cmds)
         /\ conn.previous \in Seq(Replied) /\ conn.cmd \in Cmds \cup {None}
         /\ inbox \in Seq(Outgoing) /\ wire \in Seq(Incoming)
         /\ given \in Nat /\ executed \in Seq(Cmds) /\ Done \in Nat /\ Done <= given
         /\ size \in [Cmds -> 0 .. MaxData] /\ reply \in [Cmds -> Seq(Replied)]
         /\ Waiting \in Nat /\ Len(conn.previous) \in Nat /\ Len(wire) \in Nat
         /\ Received \in Nat
         /\ conn.io # "idle" => ~conn.closed /\ Open
  <1>1. /\ conn \in ConnType /\ inbox \in Seq(Outgoing) /\ wire \in Seq(Incoming)
        /\ given \in 0 .. MaxCmds /\ executed \in Seq(Cmds) /\ Len(executed) <= given
        /\ size \in [Cmds -> 0 .. MaxData] /\ reply \in [Cmds -> Seq(Replied)]
    BY TypeParts DEF IInv, Types
  <1>2. /\ conn.request_id \in Nat /\ conn.queue \in Seq(Cmds)
        /\ conn.previous \in Seq(Replied) /\ conn.cmd \in Cmds \cup {None}
    BY <1>1 DEF ConnType
  <1>3. Closed.io = "idle"
    BY DEF Closed, New
  <1>4. conn.io # "idle" => ~conn.closed /\ Open
    BY <1>3 DEF IInv
  <1>5. Waiting \in Nat /\ Done \in Nat /\ Len(conn.previous) \in Nat /\ Len(wire) \in Nat
    BY <1>1, <1>2, LenProperties DEF Waiting, Done
  <1>6. given \in Nat /\ Done <= given
    BY <1>1, BoundsAssumption DEF Done
  <1>7. Received \in Nat
    <2> DEFINE n == Len(conn.previous)
    <2>1. Received = n \/ Received = n + 1
      BY DEF Received
    <2>2. n \in Nat
      BY <1>5
    <2> HIDE DEF n
    <2> QED
      BY <2>1, <2>2
  <1> QED
    BY <1>1, <1>2, <1>4, <1>5, <1>6, <1>7

(* A step that leaves the histories as they are.                           *)
LEMMA Settled ==
  ASSUME IInv, UNCHANGED history, conn' \in ConnType, inbox' \in Seq(Outgoing),
         wire' \in Seq(Incoming), IF conn'.closed THEN conn' = Closed ELSE Open'
  PROVE  IInv'
  <1>1. given' = given /\ executed' = executed /\ size' = size /\ reply' = reply
    BY DEF history
  <1>2. TypeOK'
    BY <1>1, TypeParts DEF IInv, Types
  <1>3. ExecutedInOrder'
    BY <1>1 DEF IInv, ExecutedInOrder
  <1>4. OwnReply'
    BY <1>1 DEF IInv, OwnReply
  <1>5. Replies' /\ AllAnswered(Done - 1)'
    BY <1>1 DEF IInv, Replies, AllAnswered, Done
  <1>6. Closed' = Closed
    BY DEF Closed, New, NoPacket, Packet, None
  <1> QED
    BY <1>2, <1>3, <1>4, <1>5, <1>6 DEF IInv

-----------------------------------------------------------------------------
(* Every step preserves the invariant.                                     *)

(* There is no connection at first.                                        *)
LEMMA InitStep == Init => IInv
  <1> SUFFICES ASSUME Init
               PROVE  IInv
    OBVIOUS
  <1>1. Closed \in ConnType /\ Closed.closed
    BY NewFields DEF Closed, New
  <1>2. Types
    BY <1>1, EmptySeq, BoundsAssumption DEF Init, Types
  <1>3. Len(executed) = 0
    BY EmptySeq DEF Init
  <1>4. ExecutedInOrder /\ OwnReply /\ Replies
    BY <1>3 DEF Init, ExecutedInOrder, OwnReply, Replies
  <1>5. AllAnswered(Done - 1)
    BY <1>3, BoundsAssumption DEF AllAnswered, Done, Cmds
  <1> QED
    BY <1>1, <1>2, <1>4, <1>5, TypeParts DEF Init, IInv

(* Whatever is lost with the connection, the histories stay.               *)
LEMMA CloseStep ==
  ASSUME IInv, Close
  PROVE  IInv'
  <1>1. Closed \in ConnType /\ Closed.closed
    BY NewFields DEF Closed, New
  <1> QED
    BY <1>1, Facts, Settled DEF Close

(* A new connection starts with one command in its queue.                  *)
LEMMA RconAnewStep ==
  ASSUME IInv, RconAnew
  PROVE  IInv'
  <1>1. 1 \in Cmds /\ 1 \in 0 .. MaxCmds
    BY BoundsAssumption DEF Cmds
  <1> DEFINE l == [New EXCEPT !.queue = Append(New.queue, 1)]
  <1>2. New \in ConnType /\ ~New.closed /\ ~New.authed /\ ~New.busy /\ New.io = "connect"
        /\ New.next = "none" /\ New.queue = <<>> /\ New.previous = <<>>
    BY NewFields DEF New
  <1>3. conn' = l
    BY <1>2 DEF RconAnew, SendCmd
  <1>4. conn' \in ConnType /\ conn'.io = "connect" /\ conn'.next = "none" /\ ~conn'.closed
        /\ ~conn'.authed /\ ~conn'.busy /\ conn'.queue = Append(<<>>, 1) /\ conn'.previous = <<>>
    BY <1>1, <1>2, <1>3, QueuedFields
  <1>5. conn'.queue = <<1>> /\ Waiting' = 1
    BY <1>4 DEF Waiting
  <1>6. given' = 1 /\ Len(executed') = 0 /\ executed' = <<>>
    BY EmptySeq DEF RconAnew
  <1>7. Types'
    <2>1. inbox' \in Seq(Outgoing) /\ wire' \in Seq(Incoming) /\ executed' \in Seq(Cmds)
      BY <1>6, EmptySeq DEF RconAnew
    <2>2. size' \in [Cmds -> 0 .. MaxData] /\ reply' \in [Cmds -> Seq(Replied)]
      BY EmptySeq, BoundsAssumption DEF RconAnew
    <2>3. given' \in 0 .. MaxCmds /\ Len(executed') <= given'
      BY <1>1, <1>6
    <2> QED
      BY <1>4, <2>1, <2>2, <2>3 DEF Types
  <1>8. Authing'
    BY <1>4, <1>5, <1>6 DEF RconAnew, Authing, Stage, Done
  <1>9. InOrder(conn.queue, given)'
    <2>1. \A i \in 1 .. 1 : <<1>>[i] = 1 - 1 + i
      OBVIOUS
    <2> QED
      BY <1>5, <1>6, <2>1 DEF InOrder, Waiting
  <1>10. ExecutedInOrder' /\ OwnReply' /\ Replies'
    BY <1>6 DEF RconAnew, ExecutedInOrder, OwnReply, Replies
  <1>11. AllAnswered(Done - 1)'
    BY <1>6, BoundsAssumption DEF AllAnswered, Done, Cmds
  <1> QED
    BY <1>4, <1>7, <1>8, <1>9, <1>10, <1>11, TypeParts DEF IInv, Open

(* _auth sends the password.                                               *)
LEMMA ConnectedStep ==
  ASSUME IInv, Connected
  PROVE  IInv'
  <1>1. ~conn.closed /\ Open /\ conn \in ConnType
    BY Facts DEF Connected
  <1>2. Authing /\ inbox = <<>> /\ wire = <<>>
    BY <1>1 DEF Connected, Open, Authing, Resting, InFlight, Stage
  <1>3. /\ conn' \in ConnType /\ conn'.io = "write" /\ conn'.next = "auth_sent"
        /\ ~conn'.closed /\ conn'.authed = conn.authed /\ conn'.busy = conn.busy
        /\ conn'.queue = conn.queue /\ conn'.request_id = conn.request_id + 1
        /\ conn'.previous = conn.previous
    <2>1. conn' = Write(conn, 1, "auth_sent")
      BY DEF Connected
    <2>2. "auth_sent" \in Callbacks
      BY DEF Callbacks
    <2> QED
      BY <1>1, <2>1, <2>2, WriteFields
  <1>4. inbox' = <<Packet(conn'.request_id, "auth", None)>> /\ wire' = <<>>
    BY <1>2 DEF Connected
  <1>5. conn'.request_id \in Int
    BY <1>3 DEF ConnType
  <1>6. inbox' \in Seq(Outgoing) /\ wire' \in Seq(Incoming)
    BY <1>4, <1>5, PacketTypes, EmptySeq
  <1>7. UNCHANGED history /\ given' = given /\ executed' = executed
    BY DEF Connected, history
  <1>8. Open'
    BY <1>1, <1>2, <1>3, <1>4, <1>7 DEF Open, InOrder, Authing, Stage, Waiting, Done
  <1> QED
    BY <1>3, <1>6, <1>7, <1>8, Settled

(* Nothing but the stage changes when the stream has written.              *)
LEMMA WrittenStep ==
  ASSUME IInv, Written
  PROVE  IInv'
  <1>1. ~conn.closed /\ Open /\ conn \in ConnType /\ Received \in Nat
        /\ inbox \in Seq(Outgoing) /\ wire \in Seq(Incoming)
    BY Facts DEF Written
  <1>2. /\ conn' \in ConnType /\ conn'.io = "run" /\ conn'.next = conn.next
        /\ ~conn'.closed /\ conn'.authed = conn.authed /\ conn'.busy = conn.busy
        /\ conn'.queue = conn.queue /\ conn'.request_id = conn.request_id
        /\ conn'.previous = conn.previous /\ conn'.cmd = conn.cmd /\ conn'.data = conn.data
    BY <1>1 DEF Written, ConnType, Io
  <1>3. /\ UNCHANGED history /\ inbox' = inbox /\ wire' = wire
        /\ given' = given /\ executed' = executed /\ size' = size /\ reply' = reply
    BY DEF Written, history
  <1>4. CASE Authing
    <2>1. Authing'
      BY <1>2, <1>3, <1>4 DEF Written, Authing, Stage, Waiting, Done
    <2> QED
      BY <1>1, <1>2, <1>3, <2>1, Settled DEF Open, InOrder
  <1>5. CASE InFlight
    <2>1. Stage("write", "sent") /\ Stage("run", "sent")' /\ ~Stage("run", "packet")
          /\ ~Stage("run", "packet")'
      BY <1>2, <1>5 DEF Written, InFlight, Stage
    <2>2. Received' = Received /\ Waiting' = Waiting /\ Done' = Done /\ Size' = Size
      BY <1>2, <1>3, <2>1 DEF Received, Waiting, Done, Size
    <2>3. Sending => Sending'
      BY <1>2, <1>3, <2>2 DEF Sending, AllAnswered
    <2>4. \A x : \A i \in Int : Expected(i, x) <=> Expected(i, x)'
      BY <1>2, <1>3, <2>2 DEF Expected
    <2>5. Replying => Replying'
      BY <1>1, <1>2, <1>3, <2>1, <2>2, <2>4 DEF Replying
    <2>6. InFlight'
      BY <1>2, <1>3, <1>5, <2>1, <2>2, <2>3, <2>5 DEF InFlight
    <2> QED
      BY <1>1, <1>2, <1>3, <2>6, Settled DEF Open, InOrder
  <1> QED
    BY <1>1, <1>4, <1>5 DEF Written, Open, Resting, Stage

(* A packet leaves the wire for the callback.                              *)
LEMMA ArrivesStep ==
  ASSUME IInv, Arrives
  PROVE  IInv'
  <1>1. ~conn.closed /\ Open /\ conn \in ConnType /\ Len(conn.previous) \in Nat
        /\ inbox \in Seq(Outgoing) /\ wire \in Seq(Incoming) /\ wire # <<>> /\ Len(wire) \in Nat
    BY Facts DEF Arrives
  <1>2. /\ Head(wire) \in Incoming /\ Head(wire) = wire[1]
        /\ wire' \in Seq(Incoming) /\ Len(wire') = Len(wire) - 1 /\ Len(wire) >= 1
        /\ \A i \in 1 .. Len(wire') : wire'[i] = wire[i + 1]
    BY <1>1, HeadTailProperties, EmptySeq DEF Arrives
  <1>3. /\ conn' \in ConnType /\ conn'.io = "run" /\ conn'.next = conn.next
        /\ ~conn'.closed /\ conn'.authed = conn.authed /\ conn'.busy = conn.busy
        /\ conn'.queue = conn.queue /\ conn'.request_id = conn.request_id
        /\ conn'.previous = conn.previous /\ conn'.cmd = conn.cmd /\ conn'.data = Head(wire)
    <2>1. Head(wire) \in PacketsOf({"none", "data", "auth", "mirror", "end"})
      BY <1>2 DEF Incoming, PacketsOf
    <2> QED
      BY <1>1, <2>1 DEF Arrives, ConnType, Io
  <1>4. /\ UNCHANGED history /\ inbox' = inbox
        /\ given' = given /\ executed' = executed /\ size' = size /\ reply' = reply
    BY DEF Arrives, history
  <1>5. CASE Authing
    <2>1. wire' = <<>> \/ Len(wire) = 2
      BY <1>1, <1>2, <1>5, EmptySeq DEF Arrives, Authing, Stage
    <2>2. Authing'
      BY <1>1, <1>2, <1>3, <1>4, <1>5, <2>1, EmptySeq DEF Arrives, Authing, Stage, Waiting, Done
    <2> QED
      BY <1>1, <1>2, <1>3, <1>4, <2>2, Settled DEF Open, InOrder
  <1>6. CASE InFlight
    <2> DEFINE n == Len(conn.previous)
    <2>1. Stage("read", "packet") /\ ~Stage("run", "packet") /\ Stage("run", "packet")'
          /\ ~Stage("write", "sent")' /\ ~Stage("run", "sent")'
      BY <1>3, <1>6 DEF Arrives, InFlight, Stage
    <2>2. Received = n /\ Received' = n + 1 /\ Waiting' = Waiting /\ Done' = Done /\ Size' = Size
      BY <1>1, <1>3, <1>4, <2>1 DEF Received, Waiting, Done, Size
    <2>3. Replying
      BY <1>1, <1>6 DEF InFlight, Sending
    <2>4. \A x : \A i \in Int : Expected(i, x) <=> Expected(i, x)'
      BY <1>3, <1>4, <2>2 DEF Expected
    <2>5. Expected(Received, conn.data)'
      BY <1>1, <1>2, <1>3, <2>2, <2>3, <2>4 DEF Replying
    <2>6. \A i \in 1 .. Len(wire') : Expected(Received + i, wire[i])'
      <3> TAKE i \in 1 .. Len(wire')
      <3>1. i \in Int /\ i + 1 \in 1 .. Len(wire) /\ wire'[i] = wire[i + 1]
        BY <1>1, <1>2
      <3>2. Expected(Received + (i + 1), wire[i + 1])
        BY <2>3, <3>1 DEF Replying
      <3>3. Received + (i + 1) \in Int /\ Received + (i + 1) = Received' + i
        <4>1. n \in Nat
          BY <1>1
        <4> HIDE DEF n
        <4> QED
          BY <2>2, <3>1, <4>1
      <3> QED
        BY <2>4, <3>1, <3>2, <3>3
    <2>7. Received' + Len(wire') = Received + Len(wire)
      BY <1>1, <1>2, <2>2
    <2>8. \A i \in 1 .. Len(conn'.previous) : Expected(i, conn.previous[i])'
      BY <1>1, <1>3, <2>3, <2>4 DEF Replying
    <2>9. Replying'
      BY <1>3, <1>4, <2>1, <2>2, <2>3, <2>5, <2>6, <2>7, <2>8 DEF Replying
    <2>10. InFlight'
      BY <1>3, <1>4, <1>6, <2>1, <2>2, <2>9 DEF InFlight
    <2> QED
      BY <1>1, <1>2, <1>3, <1>4, <2>10, Settled DEF Open, InOrder
  <1> QED
    BY <1>1, <1>5, <1>6 DEF Arrives, Open, Resting, Stage

(* A callback that goes on reading.                                        *)
LEMMA ReadNextStep ==
  ASSUME IInv, ReadNext
  PROVE  IInv'
  <1>1. ~conn.closed /\ Open /\ conn \in ConnType /\ conn.io = "run" /\ Received \in Nat
        /\ inbox \in Seq(Outgoing) /\ wire \in Seq(Incoming)
    BY Facts DEF ReadNext, Runs
  <1>2. PICK callback \in Callbacks :
          /\ conn' = Read(conn, callback)
          /\ \/ conn.next = "auth_sent" /\ callback = "auth_junk"
             \/ conn.next = "auth_junk" /\ callback = "auth_response"
             \/ conn.next = "sent" /\ callback = "packet"
    BY DEF ReadNext, Runs, Callbacks
  <1>3. /\ conn' \in ConnType /\ conn'.io = "read" /\ conn'.next = callback
        /\ ~conn'.closed /\ conn'.authed = conn.authed /\ conn'.busy = conn.busy
        /\ conn'.queue = conn.queue /\ conn'.request_id = conn.request_id
        /\ conn'.previous = conn.previous /\ conn'.cmd = conn.cmd
    BY <1>1, <1>2, ReadFields
  <1>4. /\ UNCHANGED history /\ inbox' = inbox /\ wire' = wire
        /\ given' = given /\ executed' = executed /\ size' = size /\ reply' = reply
    BY DEF ReadNext, history
  <1>5. CASE Authing
    <2>1. Authing'
      BY <1>1, <1>2, <1>3, <1>4, <1>5 DEF Authing, Stage, Waiting, Done
    <2> QED
      BY <1>1, <1>3, <1>4, <2>1, Settled DEF Open, InOrder
  <1>6. CASE InFlight /\ conn.next = "sent"
    <2>1. Stage("run", "sent") /\ ~Stage("run", "packet") /\ Stage("read", "packet")'
          /\ ~Stage("run", "packet")' /\ ~Stage("write", "sent")' /\ ~Stage("run", "sent")'
      BY <1>1, <1>2, <1>3, <1>6 DEF Stage
    <2>2. Received' = Received /\ Waiting' = Waiting /\ Done' = Done /\ Size' = Size
      BY <1>3, <1>4, <2>1 DEF Received, Waiting, Done, Size
    <2>3. Sending => Sending'
      BY <1>3, <1>4, <2>2 DEF Sending, AllAnswered
    <2>4. \A x : \A i \in Int : Expected(i, x) <=> Expected(i, x)'
      BY <1>3, <1>4, <2>2 DEF Expected
    <2>5. Replying => Replying'
      BY <1>1, <1>3, <1>4, <2>1, <2>2, <2>4 DEF Replying
    <2>6. InFlight'
      BY <1>3, <1>4, <1>6, <2>1, <2>2, <2>3, <2>5 DEF InFlight
    <2> QED
      BY <1>1, <1>3, <1>4, <2>6, Settled DEF Open, InOrder
  <1>7. Authing \/ (InFlight /\ conn.next = "sent")
    BY <1>1, <1>2 DEF Open, Resting, InFlight, Stage
  <1> QED
    BY <1>5, <1>6, <1>7

(* The password is accepted, and the queue started, or refused.            *)
LEMMA AuthResponseStep ==
  ASSUME IInv, AuthResponse
  PROVE  IInv'
  <1>1. ~conn.closed /\ Open /\ conn \in ConnType /\ conn.request_id \in Nat
        /\ inbox \in Seq(Outgoing) /\ wire \in Seq(Incoming) /\ given \in Nat /\ Done \in Nat
        /\ Stage("run", "auth_response") /\ executed \in Seq(Cmds) /\ Waiting \in Nat
    BY Facts DEF AuthResponse, Runs, Stage
  <1>2. Authing /\ InOrder(conn.queue, given)
    BY <1>1 DEF Open, Authing, Resting, InFlight, Stage
  <1>3. inbox = <<>> /\ wire = <<>> /\ conn.previous = <<>> /\ ~conn.busy /\ ~conn.authed
        /\ Done = 0 /\ Waiting = given
    BY <1>1, <1>2 DEF Authing, Stage
  <1>4. /\ UNCHANGED history /\ wire' = wire /\ inbox' = inbox \o Sent(conn, conn')
        /\ given' = given /\ executed' = executed /\ size' = size /\ reply' = reply
    BY DEF AuthResponse, history
  <1>5. CASE conn' = Authed(conn)
    <2> DEFINE k == [conn EXCEPT !.authed = TRUE]
    <2>1. /\ k \in ConnType /\ ~k.closed /\ k.authed /\ ~k.busy /\ k.previous = <<>>
          /\ k.request_id = conn.request_id /\ k.queue = conn.queue
      BY <1>1, <1>3 DEF ConnType
    <2>2. conn' = ProcessQueue(k)
      BY <1>5 DEF Authed
    <2> HIDE DEF k
    <2>3. Idle(k)
      BY <1>3, <1>4, <2>1 DEF Idle
    <2>4. Done + Len(k.queue) = given
      BY <1>1, <1>3, <2>1 DEF Waiting
    <2>5. \A c \in Cmds : c > Done => reply'[c] = <<>>
      BY <1>4 DEF IInv, Replies
    <2>8. \A d \in Cmds : d <= Done => reply'[d] # <<>>
      BY <1>3, BoundsAssumption DEF Cmds
    <2>6. conn' \in ConnType /\ ~conn'.closed /\ Open'
      BY <1>1, <1>2, <1>4, <2>1, <2>2, <2>3, <2>4, <2>5, <2>8, ProcessQueueStep
    <2>7. inbox' \in Seq(Outgoing)
      BY <1>1, <1>4, <2>6, SentType, ConcatProperties
    <2> QED
      BY <1>1, <1>4, <2>6, <2>7, Settled
  <1>6. CASE conn' = [Rest(conn) EXCEPT !.refused = TRUE]
    <2> DEFINE r == Rest(conn)
    <2>1. /\ r \in ConnType /\ r.io = "idle" /\ r.next = "none" /\ ~r.closed
          /\ ~r.authed /\ ~r.busy /\ r.queue = conn.queue
          /\ r.request_id = conn.request_id /\ r.previous = <<>>
      BY <1>1, <1>3, RestFields
    <2> HIDE DEF r
    <2>2. /\ conn' \in ConnType /\ conn'.io = "idle" /\ conn'.next = "none" /\ ~conn'.closed
          /\ ~conn'.authed /\ ~conn'.busy /\ conn'.queue = conn.queue
          /\ conn'.request_id = conn.request_id /\ conn'.previous = <<>>
      <3>1. conn' = [r EXCEPT !.refused = TRUE]
        BY <1>6 DEF r
      <3> QED
        BY <2>1, <3>1 DEF ConnType
    <2>3. inbox' = <<>> /\ wire' = <<>>
      BY <1>1, <1>3, <1>4, <2>2 DEF Sent
    <2>4. Authing'
      BY <1>3, <1>4, <2>2, <2>3 DEF Authing, Stage, Waiting, Done
    <2>5. Open'
      BY <1>2, <1>4, <2>2, <2>4 DEF Open, InOrder
    <2> QED
      BY <1>1, <1>3, <1>4, <2>2, <2>3, <2>5, Settled
  <1> QED
    BY <1>5, <1>6 DEF AuthResponse

(* A packet of a reply: the last one ends it and starts the next command.  *)
LEMMA ReplyPacketStep ==
  ASSUME IInv, ReplyPacket
  PROVE  IInv'
  <1> DEFINE n == Len(conn.previous)
             packets == Append(conn.previous, conn.data)
  <1>1. /\ ~conn.closed /\ Open /\ conn \in ConnType /\ conn.request_id \in Nat
        /\ inbox \in Seq(Outgoing) /\ wire \in Seq(Incoming) /\ given \in Nat /\ Done \in Nat
        /\ Stage("run", "packet") /\ executed \in Seq(Cmds) /\ Waiting \in Nat
        /\ n \in Nat /\ conn.previous \in Seq(Replied) /\ Len(wire) \in Nat
        /\ size \in [Cmds -> 0 .. MaxData] /\ reply \in [Cmds -> Seq(Replied)]
    BY Facts DEF ReplyPacket, Runs, Stage
  <1>2. InFlight /\ InOrder(conn.queue, given)
    BY <1>1 DEF Open, Authing, Resting, InFlight, Stage
  <1>3. Received = n + 1
    BY <1>1 DEF Received
  <1>4. Replying /\ conn.cmd \in Cmds /\ conn.cmd + Waiting = given /\ Done = conn.cmd
        /\ reply[conn.cmd] = <<>> /\ conn.authed /\ conn.busy
    BY <1>1, <1>2, <1>3 DEF InFlight, Sending, Replying
  <1>5. Size \in Nat /\ Size >= 1 /\ Size \in 0 .. MaxData
    BY <1>1, <1>4, BoundsAssumption DEF Size, Replying
  <1>6. Expected(n + 1, conn.data)
    BY <1>1, <1>3, <1>4 DEF Replying
  <1>7. conn.data \in Replied
    <2>1. conn.data.kind \in {"data", "mirror", "end"}
      BY <1>6 DEF Expected
    <2>2. conn.data \in PacketsOf({"none", "data", "auth", "mirror", "end"})
      BY <1>1 DEF ConnType
    <2> QED
      BY <2>1, <2>2 DEF PacketsOf, Replied
  <1>8. /\ packets \in Seq(Replied) /\ Len(packets) = n + 1 /\ packets[n + 1] = conn.data
        /\ \A i \in 1 .. n : packets[i] = conn.previous[i]
    BY <1>1, <1>7, AppendProperties
  <1>9. \A i \in 1 .. Len(packets) : Expected(i, packets[i])
    <2> TAKE i \in 1 .. Len(packets)
    <2>1. i \in 1 .. n \/ i = n + 1
      <3>1. n \in Nat /\ i \in 1 .. (n + 1)
        BY <1>1, <1>8
      <3> HIDE DEF n
      <3> QED
        BY <3>1
    <2> QED
      BY <1>4, <1>6, <1>8, <2>1 DEF Replying
  <1>10. /\ wire' = wire /\ inbox' = inbox \o Sent(conn, conn')
         /\ given' = given /\ executed' = executed /\ size' = size
    BY DEF ReplyPacket
  <1>11. ASSUME Complete(packets, conn.request_id), conn' = Answered(conn),
                reply' = [reply EXCEPT ![conn.cmd] = SubSeq(packets, 1, Len(packets) - 2)]
         PROVE  IInv'
    <2>1. n + 1 >= 2 /\ conn.data.kind = "end"
      BY <1>1, <1>8, <1>11 DEF Complete
    <2>2. n + 1 > Size + 1
      <3>1. n \in Nat /\ ~(n + 1 <= Size) /\ n + 1 # Size + 1
        BY <1>1, <1>6, <2>1 DEF Expected
      <3> HIDE DEF n
      <3> QED
        BY <1>5, <3>1
    <2>3. inbox = <<>> /\ wire = <<>> /\ n - 1 = Size
      <3>1. /\ inbox = <<>> \/ n + 1 + Len(wire) = Size
            /\ n + 1 + Len(wire) = Size \/ n + 1 + Len(wire) = Size + 2
        BY <1>3, <1>4 DEF Replying
      <3>2. n + 1 + Len(wire) = Size + 2 /\ inbox = <<>> /\ Len(wire) = 0
        <4>1. n \in Nat /\ Len(wire) \in Nat
          BY <1>1
        <4> HIDE DEF n
        <4> QED
          BY <1>5, <2>2, <3>1, <4>1
      <3> QED
        BY <1>1, <1>5, <3>2, EmptySeq
    <2> DEFINE whole == SubSeq(packets, 1, Len(packets) - 2)
    <2>4. Len(packets) - 2 = Size
      BY <1>1, <1>5, <1>8, <2>3
    <2>5. /\ whole \in Seq(Replied) /\ Len(whole) = Size
          /\ \A i \in 1 .. Size : whole[i] = packets[i]
      BY <1>5, <1>8, <2>4, SubSeqProperties
    <2>6. \A i \in 1 .. Size : whole[i].cmd = conn.cmd /\ whole[i].kind = "data"
      BY <1>5, <1>8, <1>9, <2>4, <2>5 DEF Expected
    <2>7. /\ reply' \in [Cmds -> Seq(Replied)] /\ reply'[conn.cmd] = whole
          /\ \A c \in Cmds \ {conn.cmd} : reply'[c] = reply[c]
      BY <1>1, <1>4, <1>11, <2>5
    <2> HIDE DEF whole
    <2>8. OwnReply'
      <3> SUFFICES ASSUME NEW c \in Cmds, reply'[c] # <<>>
                   PROVE  /\ Len(reply'[c]) = size'[c]
                          /\ \A i \in 1 .. Len(reply'[c]) :
                               reply'[c][i].cmd = c /\ reply'[c][i].kind = "data"
        BY DEF OwnReply
      <3>1. CASE c = conn.cmd
        BY <1>10, <2>5, <2>6, <2>7, <3>1 DEF Size
      <3>2. CASE c # conn.cmd
        BY <1>10, <2>7, <3>2 DEF IInv, OwnReply
      <3> QED
        BY <3>1, <3>2
    <2>9. \A c \in Cmds : c > Done => reply'[c] = <<>>
      BY <1>1, <1>4, <2>7 DEF IInv, Replies
    <2>18. whole # <<>>
      BY <1>5, <2>5, EmptySeq
    <2>19. \A d \in Cmds : d <= Done => reply'[d] # <<>>
      <3> SUFFICES ASSUME NEW d \in Cmds, d <= Done
                   PROVE  reply'[d] # <<>>
        OBVIOUS
      <3>1. d = Done \/ d <= Done - 1
        BY <1>1, BoundsAssumption DEF Cmds
      <3> QED
        BY <1>4, <2>7, <2>18, <3>1 DEF IInv, AllAnswered
    <2> DEFINE k == [conn EXCEPT !.busy = FALSE, !.previous = <<>>]
    <2>10. /\ k \in ConnType /\ ~k.closed /\ k.authed /\ ~k.busy /\ k.previous = <<>>
           /\ k.request_id = conn.request_id /\ k.queue = conn.queue
      BY <1>1, <1>4, EmptySeq DEF ConnType
    <2>11. conn' = ProcessQueue(k)
      BY <1>11 DEF Answered
    <2> HIDE DEF k
    <2>12. Idle(k)
      BY <1>10, <2>3, <2>10 DEF Idle
    <2>13. Done + Len(k.queue) = given
      BY <1>4, <2>10 DEF Waiting
    <2>14. conn' \in ConnType /\ ~conn'.closed /\ Open'
      BY <1>1, <1>2, <1>10, <2>9, <2>10, <2>11, <2>12, <2>13, <2>19, ProcessQueueStep
    <2>15. inbox' \in Seq(Outgoing)
      BY <1>1, <1>10, <2>14, SentType, ConcatProperties
    <2>16. Types'
      BY <1>1, <1>10, <2>7, <2>14, <2>15, TypeParts DEF IInv, Types
    <2>17. ExecutedInOrder' /\ Replies'
      BY <1>10, <2>9 DEF IInv, ExecutedInOrder, Replies, Done
    <2>20. AllAnswered(Done - 1)'
      BY <1>1, <1>10, <2>19, BoundsAssumption DEF AllAnswered, Done, Cmds
    <2> QED
      BY <2>8, <2>14, <2>16, <2>17, <2>20, TypeParts DEF IInv
  <1>12. ASSUME ~Complete(packets, conn.request_id),
                conn' = [Read(conn, "packet") EXCEPT !.previous = packets], reply' = reply
         PROVE  IInv'
    <2>0. Received # Size + 2
      <3> SUFFICES ASSUME n + 1 = Size + 2
                   PROVE  Complete(packets, conn.request_id)
        BY <1>3, <1>12
      <3>1. n = Size + 1
        <4>1. n \in Nat /\ n + 1 = Size + 2
          BY <1>1
        <4> HIDE DEF n
        <4> QED
          BY <1>5, <4>1
      <3>2. Len(packets) = Size + 2
        BY <1>8
      <3>3. Expected(Size + 1, packets[Size + 1]) /\ Expected(Size + 2, packets[Size + 2])
        BY <1>5, <1>9, <3>2
      <3> HIDE DEF packets
      <3>4. /\ packets[Size + 1].id = conn.request_id
            /\ packets[Size + 2].id = conn.request_id /\ packets[Size + 2].kind = "end"
        BY <1>5, <3>3 DEF Expected
      <3>5. Len(packets) - 1 = Size + 1 /\ Len(packets) >= 2
        BY <1>5, <3>2
      <3> QED
        BY <3>2, <3>4, <3>5 DEF Complete
    <2> DEFINE r == Read(conn, "packet")
    <2>1. "packet" \in Callbacks
      BY DEF Callbacks
    <2>2. /\ r \in ConnType /\ r.io = "read" /\ r.next = "packet" /\ ~r.closed
          /\ r.authed /\ r.busy /\ r.queue = conn.queue
          /\ r.request_id = conn.request_id /\ r.cmd = conn.cmd
      BY <1>1, <1>4, <2>1, ReadFields
    <2>3. conn' = [r EXCEPT !.previous = packets]
      BY <1>12
    <2> HIDE DEF r, packets
    <2>4. /\ conn' \in ConnType /\ conn'.io = "read" /\ conn'.next = "packet" /\ ~conn'.closed
          /\ conn'.authed /\ conn'.busy /\ conn'.queue = conn.queue
          /\ conn'.request_id = conn.request_id /\ conn'.cmd = conn.cmd
          /\ conn'.previous = packets
      BY <1>8, <2>2, <2>3 DEF ConnType
    <2>5. Received' = Received /\ Waiting' = Waiting /\ Done' = Done /\ Size' = Size
      BY <1>3, <1>8, <1>10, <2>4 DEF Received, Stage, Waiting, Done, Size
    <2>6. inbox' = inbox
      BY <1>1, <2>4, ConcatProperties, <1>10 DEF Sent
    <2>7. \A x : \A i \in Int : Expected(i, x) <=> Expected(i, x)'
      BY <1>10, <2>4, <2>5 DEF Expected
    <2>8. \A i \in 1 .. Len(conn'.previous) : Expected(i, conn.previous[i])'
      BY <1>1, <1>8, <1>9, <2>4, <2>7
    <2>9. \A i \in 1 .. Len(wire') : Expected(Received + i, wire[i])'
      BY <1>1, <1>3, <1>4, <1>10, <2>5, <2>7 DEF Replying
    <2>10. Replying'
      BY <1>4, <1>10, <2>0, <2>4, <2>5, <2>6, <2>8, <2>9 DEF Replying, Stage
    <2>11. InFlight'
      BY <1>4, <1>10, <1>12, <2>4, <2>5, <2>10 DEF InFlight, Stage
    <2>12. Open' /\ UNCHANGED history
      BY <1>2, <1>10, <1>12, <2>4, <2>11 DEF Open, InOrder, history
    <2> QED
      BY <1>1, <1>10, <2>4, <2>6, <2>12, Settled
  <1> QED
    BY <1>11, <1>12 DEF ReplyPacket

(* A command that is given waits, or is sent at once.                      *)
LEMMA RconStep ==
  ASSUME IInv, Rcon
  PROVE  IInv'
  <1> DEFINE c == given + 1
  <1>1. /\ ~conn.closed /\ Open /\ conn \in ConnType /\ conn.request_id \in Nat
        /\ inbox \in Seq(Outgoing) /\ wire \in Seq(Incoming) /\ given \in Nat /\ Done \in Nat
        /\ executed \in Seq(Cmds) /\ Waiting \in Nat /\ conn.queue \in Seq(Cmds) /\ Done <= given
        /\ c \in Cmds /\ Len(conn.previous) \in Nat /\ Len(wire) \in Nat
        /\ Received \in Nat
    BY Facts DEF Rcon, IInv
  <1>2. /\ given' = c /\ conn' = SendCmd(conn, c) /\ inbox' = inbox \o Sent(conn, conn')
        /\ wire' = wire /\ executed' = executed /\ size' = size /\ reply' = reply
    BY DEF Rcon
  <1>3. InOrder(conn.queue, given) /\ (Authing \/ Resting \/ InFlight)
    BY <1>1 DEF Open
  <1>4. conn' \in ConnType /\ ~conn'.closed /\ Open'
    <2>1. CASE Busy(conn) \/ ~conn.authed
      <3>1. conn' = [conn EXCEPT !.queue = Append(conn.queue, c)]
        BY <1>2, <2>1 DEF SendCmd
      <3>2. /\ conn' \in ConnType /\ conn'.io = conn.io /\ conn'.next = conn.next
            /\ conn'.closed = conn.closed /\ conn'.authed = conn.authed /\ conn'.busy = conn.busy
            /\ conn'.queue = Append(conn.queue, c) /\ conn'.request_id = conn.request_id
            /\ conn'.previous = conn.previous /\ conn'.cmd = conn.cmd /\ conn'.data = conn.data
        BY <1>1, <3>1, QueuedFields
      <3>3. Waiting' = Waiting + 1 /\ Done' = Done
        BY <1>1, <1>2, <3>2, AppendProperties DEF Waiting, Done
      <3>4. inbox' = inbox
        BY <1>1, <1>2, <3>2, ConcatProperties DEF Sent
      <3>5. InOrder(conn.queue, given)'
        BY <1>1, <1>2, <1>3, <3>2, Queues
      <3>14. AllAnswered(Done)' <=> AllAnswered(Done)
        BY <1>2, <3>3 DEF AllAnswered
      <3>6. Authing => Authing'
        BY <1>1, <1>2, <3>2, <3>3, <3>4 DEF Authing, Stage
      <3>7. Resting => Resting'
        <4>1. Resting => conn.busy /\ Done + 1 + Waiting = given
          BY <2>1 DEF Resting, Stage, Busy
        <4>2. Done' + 1 + Waiting' = Done + 1 + Waiting + 1
          BY <1>1, <3>3
        <4> QED
          BY <1>2, <3>2, <3>4, <3>14, <4>1, <4>2 DEF Resting, Stage
      <3>8. Received' = Received /\ Size' = Size
        BY <1>2, <3>2 DEF Received, Stage, Size
      <3>9. Sending => Sending'
        BY <1>2, <3>2, <3>3, <3>4, <3>8, <3>14 DEF Sending
      <3>10. \A x : \A i \in Int : Expected(i, x) <=> Expected(i, x)'
        BY <1>2, <3>2, <3>8 DEF Expected
      <3>11. Replying => Replying'
        <4>1. \A i \in 1 .. Len(conn.previous) : i \in Int
          OBVIOUS
        <4>2. \A i \in 1 .. Len(wire) : Received + i \in Int
          BY <1>1
        <4>3. Stage("run", "packet")' <=> Stage("run", "packet")
          BY <3>2 DEF Stage
        <4>4. Received \in Int
          BY <1>1
        <4> QED
          BY <1>2, <3>2, <3>3, <3>4, <3>8, <3>10, <4>1, <4>2, <4>3, <4>4 DEF Replying
      <3>12. InFlight => conn'.cmd + Waiting' = given'
        <4> DEFINE cmd == conn.cmd
        <4>1. InFlight => cmd \in Nat /\ cmd + Waiting = given
          BY BoundsAssumption DEF InFlight, Cmds
        <4>2. cmd \in Nat => cmd + (Waiting + 1) = (cmd + Waiting) + 1
          <5> HIDE DEF cmd
          <5> QED
            BY <1>1
        <4> QED
          BY <1>2, <3>2, <3>3, <4>1, <4>2
      <3>13. InFlight => InFlight'
        BY <1>2, <3>2, <3>9, <3>11, <3>12 DEF InFlight, Stage
      <3> QED
        BY <1>1, <1>3, <3>2, <3>5, <3>6, <3>7, <3>13 DEF Open
    <2>2. CASE ~Busy(conn) /\ conn.authed
      <3>1. Resting /\ ~conn.busy
        BY <1>3, <2>2 DEF Authing, InFlight, Busy
      <3>2. /\ conn.queue = <<>> /\ conn.previous = <<>> /\ inbox = <<>> /\ wire = <<>>
            /\ Done = given
        BY <3>1 DEF Resting
      <3>3. conn' = Exec(conn, c)
        BY <1>2, <2>2 DEF SendCmd
      <3>4. Idle(conn)
        BY <1>1, <1>2, <2>2, <3>2 DEF Idle
      <3>5. c = Done + 1 /\ given' = c + Len(conn.queue) /\ InOrder(conn.queue, given')
        BY <1>1, <1>2, <3>2, EmptySeq DEF InOrder
      <3>6. reply'[c] = <<>>
        BY <1>1, <1>2, <3>5 DEF IInv, Replies
      <3>7. \A d \in Cmds : d <= Done => reply'[d] # <<>>
        BY <1>2, <3>1 DEF Resting, AllAnswered
      <3> QED
        BY <1>1, <1>2, <3>3, <3>4, <3>5, <3>6, <3>7, ExecStep
    <2> QED
      BY <2>1, <2>2
  <1>5. inbox' \in Seq(Outgoing)
    BY <1>1, <1>2, <1>4, SentType, ConcatProperties
  <1>6. given' \in 0 .. MaxCmds /\ Len(executed') <= given'
    BY <1>1, <1>2, BoundsAssumption DEF Cmds, Done
  <1>7. Types'
    BY <1>1, <1>2, <1>4, <1>5, <1>6, TypeParts DEF IInv, Types
  <1>8. ExecutedInOrder' /\ OwnReply' /\ Replies' /\ AllAnswered(Done - 1)'
    BY <1>2 DEF IInv, ExecutedInOrder, OwnReply, Replies, AllAnswered, Done
  <1> QED
    BY <1>4, <1>7, <1>8, TypeParts DEF IInv

(* The game server answers the password.                                   *)
LEMMA AuthenticateStep ==
  ASSUME IInv, Authenticate
  PROVE  IInv'
  <1>1. ~conn.closed /\ Open /\ conn \in ConnType /\ conn.request_id \in Nat
        /\ wire \in Seq(Incoming)
    BY Facts DEF Authenticate, Gets, IInv
  <1>2. Head(inbox).kind = "auth" /\ inbox # <<>> /\ inbox' = Tail(inbox)
    BY DEF Authenticate, Gets
  <1>3. ~InFlight
    <2>1. \A a, b : <<a, b>> # <<>> /\ Head(<<a, b>>) = a /\ Head(<<a>>) = a
      OBVIOUS
    <2>2. \A id, cmd : /\ Packet(id, "exec", cmd).kind = "exec"
                       /\ Packet(id, "mirror", cmd).kind = "mirror"
      BY DEF Packet
    <2> QED
      BY <1>2, <2>1, <2>2 DEF InFlight, Sending, Replying
  <1>4. /\ Authing /\ inbox = <<Packet(conn.request_id, "auth", None)>> /\ wire = <<>>
        /\ Stage("write", "auth_sent") \/ Stage("run", "auth_sent") \/ Stage("read", "auth_junk")
    BY <1>1, <1>2, <1>3 DEF Open, Resting, Authing
  <1>5. Head(inbox).id = conn.request_id /\ inbox' = <<>>
    BY <1>2, <1>4 DEF Packet
  <1>6. PICK id \in {conn.request_id, -1} :
          wire' = wire \o <<Packet(conn.request_id, "data", None), Packet(id, "auth", None)>>
    BY <1>5 DEF Authenticate
  <1>7. Len(wire') = 2 /\ wire' \in Seq(Incoming)
    <2>1. /\ Packet(conn.request_id, "data", None) \in Incoming
          /\ Packet(id, "auth", None) \in Incoming
      BY <1>1, <1>6, PacketTypes
    <2>2. wire' = <<Packet(conn.request_id, "data", None), Packet(id, "auth", None)>>
      BY <1>4, <1>6
    <2> QED
      BY <2>1, <2>2
  <1>8. conn' = conn /\ UNCHANGED history /\ given' = given /\ executed' = executed
    BY DEF Authenticate, history
  <1>9. Authing'
    BY <1>4, <1>5, <1>7, <1>8 DEF Authing, Stage, Waiting, Done
  <1>10. Open' /\ inbox' \in Seq(Outgoing)
    BY <1>1, <1>5, <1>8, <1>9, EmptySeq DEF Open, InOrder
  <1> QED
    BY <1>1, <1>7, <1>8, <1>10, Settled

(* What the game server executes is the command in flight.                 *)
LEMMA Executing ==
  ASSUME IInv, Execute
  PROVE  /\ InFlight /\ Sending
         /\ inbox' = <<Packet(conn.request_id, "mirror", conn.cmd)>>
         /\ \E n \in 1 .. MaxData :
              /\ wire' = wire \o [i \in 1 .. n |-> Packet(conn.request_id - 1, "data", conn.cmd)]
              /\ size' = [size EXCEPT ![conn.cmd] = n]
         /\ executed' = Append(executed, conn.cmd)
         /\ conn' = conn /\ given' = given /\ reply' = reply
  <1> DEFINE exec == Packet(conn.request_id - 1, "exec", conn.cmd)
             mirror == Packet(conn.request_id, "mirror", conn.cmd)
  <1>1. ~conn.closed /\ Open
    BY Facts DEF Execute, Gets, IInv
  <1>2. Head(inbox).kind = "exec" /\ inbox # <<>> /\ inbox' = Tail(inbox)
    BY DEF Execute, Gets
  <1>3. InFlight /\ Sending
    <2>1. \A a : Head(<<a>>) = a
      OBVIOUS
    <2>2. \A id, cmd : /\ Packet(id, "auth", cmd).kind = "auth"
                       /\ Packet(id, "mirror", cmd).kind = "mirror"
      BY DEF Packet
    <2> QED
      BY <1>1, <1>2, <2>1, <2>2 DEF Open, Authing, Resting, InFlight, Replying
  <1>4. inbox = <<exec, mirror>>
    BY <1>3 DEF Sending
  <1>5. exec.id = conn.request_id - 1 /\ exec.cmd = conn.cmd
    BY DEF Packet
  <1>6. Head(inbox) = exec /\ inbox' = <<mirror>>
    <2> HIDE DEF exec, mirror
    <2> QED
      BY <1>2, <1>4
  <1>7. /\ \E n \in 1 .. MaxData :
             /\ wire' = wire \o [i \in 1 .. n |-> Packet(conn.request_id - 1, "data", conn.cmd)]
             /\ size' = [size EXCEPT ![conn.cmd] = n]
        /\ executed' = Append(executed, conn.cmd)
        /\ conn' = conn /\ given' = given /\ reply' = reply
    BY <1>5, <1>6 DEF Execute
  <1> QED
    BY <1>3, <1>6, <1>7

(* The game server executes a command and answers it with data.            *)
LEMMA ExecuteStep ==
  ASSUME IInv, Execute
  PROVE  IInv'
  <1> DEFINE mirror == Packet(conn.request_id, "mirror", conn.cmd)
  <1>1. ~conn.closed /\ Open /\ conn \in ConnType /\ conn.request_id \in Nat
        /\ wire \in Seq(Incoming) /\ executed \in Seq(Cmds) /\ Done \in Nat /\ given \in Nat
        /\ Len(conn.previous) \in Nat /\ conn.previous \in Seq(Replied) /\ Waiting \in Nat
        /\ size \in [Cmds -> 0 .. MaxData] /\ reply \in [Cmds -> Seq(Replied)]
    BY Facts DEF Execute, Gets, IInv
  <1>3. InFlight /\ Sending
    BY Executing
  <1>4. /\ wire = <<>> /\ Received = 0 /\ Done + 1 = conn.cmd
        /\ conn.cmd \in Cmds /\ reply[conn.cmd] = <<>> /\ conn.cmd + Waiting = given
    BY <1>3 DEF InFlight, Sending
  <1>6. inbox' = <<mirror>>
    BY Executing
  <1>7. PICK n \in 1 .. MaxData :
          /\ wire' = wire \o [i \in 1 .. n |-> Packet(conn.request_id - 1, "data", conn.cmd)]
          /\ size' = [size EXCEPT ![conn.cmd] = n]
    BY Executing
  <1>8. /\ executed' = Append(executed, conn.cmd)
        /\ conn' = conn /\ given' = given /\ reply' = reply
    BY Executing
  <1>9. conn.request_id - 1 \in Int /\ n \in Nat
    BY <1>1, <1>7, BoundsAssumption
  <1> DEFINE data == Packet(conn.request_id - 1, "data", conn.cmd)
  <1>10. data \in Incoming /\ mirror \in Outgoing
    BY <1>1, <1>4, <1>9, PacketTypes
  <1>11. /\ wire' \in Seq(Incoming) /\ Len(wire') = n /\ \A i \in 1 .. n : wire'[i] = data
    <2> HIDE DEF data
    <2>1. [i \in 1 .. n |-> data] \in Seq(Incoming)
      BY <1>9, <1>10
    <2>2. wire' = [i \in 1 .. n |-> data]
      BY <1>4, <1>7, <2>1, ConcatProperties DEF data
    <2> QED
      BY <1>9, <2>1, <2>2
  <1>12. Size' = n
    BY <1>1, <1>4, <1>7, <1>8 DEF Size
  <1>13. /\ executed' \in Seq(Cmds) /\ Len(executed') = Len(executed) + 1 /\ Done' = Done + 1
         /\ executed'[Done + 1] = conn.cmd
         /\ \A i \in 1 .. Len(executed) : executed'[i] = executed[i]
    BY <1>1, <1>4, <1>8, AppendProperties DEF Done
  <1>14. Received' = 0 /\ Len(conn.previous) = 0 /\ ~Stage("run", "packet") /\ Waiting' = Waiting
    <2> DEFINE m == Len(conn.previous)
    <2>1. Received' = 0 /\ Waiting' = Waiting
      BY <1>4, <1>8 DEF Received, Stage, Waiting
    <2>2. m \in Nat /\ (IF Stage("run", "packet") THEN m + 1 ELSE m) = 0
      BY <1>1, <1>4 DEF Received
    <2>3. m = 0 /\ ~Stage("run", "packet")
      <3> HIDE DEF m
      <3> QED
        BY <2>2
    <2> QED
      BY <2>1, <2>3
  <1>15. Replying'
    <2>1. inbox' = <<Packet(conn'.request_id, "mirror", conn'.cmd)>>
      BY <1>6, <1>8
    <2>2. Received' + Len(wire') = Size' /\ Size' >= 1
      BY <1>7, <1>9, <1>11, <1>12, <1>14
    <2>3. data.kind = "data" /\ data.cmd = conn.cmd /\ data.id = conn.request_id - 1
      BY DEF Packet
    <2>4. \A i \in 1 .. Len(wire') : Expected(Received + i, wire[i])'
      <3> HIDE DEF data
      <3> TAKE i \in 1 .. Len(wire')
      <3>1. Received' + i <= Size' /\ wire'[i] = data
        BY <1>9, <1>11, <1>12, <1>14
      <3> QED
        BY <1>8, <2>3, <3>1 DEF Expected
    <2>5. \A i \in 1 .. Len(conn'.previous) : Expected(i, conn.previous[i])'
      BY <1>8, <1>14
    <2>6. ~Stage("run", "packet")' /\ Done' = conn'.cmd
      BY <1>4, <1>8, <1>13, <1>14 DEF Stage
    <2>7. Received' # Size' + 2
      BY <1>9, <1>12, <1>14
    <2> QED
      BY <2>1, <2>2, <2>4, <2>5, <2>6, <2>7 DEF Replying
  <1>16. Open'
    <2>1. InFlight'
      BY <1>3, <1>8, <1>14, <1>15 DEF InFlight, Stage
    <2> QED
      BY <1>1, <1>8, <2>1 DEF Open, InOrder
  <1>17. inbox' \in Seq(Outgoing)
    <2> HIDE DEF mirror
    <2> QED
      BY <1>6, <1>10
  <1>18. Types'
    <2>1. size' \in [Cmds -> 0 .. MaxData]
      BY <1>1, <1>4, <1>7, BoundsAssumption
    <2>2. Len(executed') <= given'
      <3> DEFINE cmd == conn.cmd
      <3>1. cmd \in Nat /\ cmd + Waiting = given /\ Len(executed') = cmd /\ given' = given
        BY <1>1, <1>4, <1>8, <1>13, BoundsAssumption DEF Cmds, Done
      <3> HIDE DEF cmd
      <3> QED
        BY <1>1, <3>1
    <2> QED
      BY <1>1, <1>8, <1>11, <1>13, <1>17, <2>1, <2>2, TypeParts DEF IInv, Types
  <1>19. ExecutedInOrder'
    <2> SUFFICES ASSUME NEW i \in 1 .. Len(executed')
                 PROVE  executed'[i] = i
      BY DEF ExecutedInOrder
    <2>1. i \in 1 .. Len(executed) \/ i = Done + 1
      BY <1>1, <1>13 DEF Done
    <2> QED
      BY <1>4, <1>13, <2>1 DEF IInv, ExecutedInOrder
  <1>20. OwnReply'
    BY <1>1, <1>4, <1>7, <1>8 DEF IInv, OwnReply
  <1>21. Replies'
    BY <1>1, <1>8, <1>13, BoundsAssumption DEF IInv, Replies, Cmds
  <1>22. AllAnswered(Done - 1)'
    <2>1. Done' - 1 = Done
      BY <1>1, <1>13
    <2> QED
      BY <1>3, <1>8, <2>1 DEF Sending, AllAnswered
  <1> QED
    BY <1>1, <1>8, <1>16, <1>18, <1>19, <1>20, <1>21, <1>22, TypeParts DEF IInv

(* The game server ends the reply.                                         *)
LEMMA MirrorStep ==
  ASSUME IInv, Mirror
  PROVE  IInv'
  <1> DEFINE mirror == Packet(conn.request_id, "mirror", conn.cmd)
             end == Packet(conn.request_id, "end", conn.cmd)
  <1>1. ~conn.closed /\ Open /\ conn \in ConnType /\ conn.request_id \in Nat
        /\ wire \in Seq(Incoming) /\ Len(wire) \in Nat /\ Received \in Nat
        /\ size \in [Cmds -> 0 .. MaxData]
    BY Facts DEF Mirror, Gets, IInv
  <1>2. Head(inbox).kind = "mirror" /\ inbox # <<>> /\ inbox' = Tail(inbox)
    BY DEF Mirror, Gets
  <1>3. InFlight /\ Replying
    <2>1. \A a, b : Head(<<a>>) = a /\ Head(<<a, b>>) = a
      OBVIOUS
    <2>2. \A id, cmd : /\ Packet(id, "auth", cmd).kind = "auth"
                       /\ Packet(id, "exec", cmd).kind = "exec"
      BY DEF Packet
    <2> QED
      BY <1>1, <1>2, <2>1, <2>2 DEF Open, Authing, Resting, InFlight, Sending
  <1>4. /\ inbox = <<mirror>> /\ Received + Len(wire) = Size /\ conn.cmd \in Cmds
    BY <1>2, <1>3 DEF InFlight, Replying
  <1>5. Head(inbox).id = conn.request_id /\ Head(inbox).cmd = conn.cmd /\ inbox' = <<>>
    <2>1. mirror.id = conn.request_id /\ mirror.cmd = conn.cmd
      BY DEF Packet
    <2> HIDE DEF mirror
    <2> QED
      BY <1>2, <1>4, <2>1
  <1>6. wire' = wire \o <<mirror, end>>
    BY <1>5 DEF Mirror
  <1>7. mirror \in Incoming /\ end \in Incoming
    BY <1>1, <1>4, PacketTypes
  <1>8. /\ wire' \in Seq(Incoming) /\ Len(wire') = Len(wire) + 2
        /\ \A i \in 1 .. Len(wire) : wire'[i] = wire[i]
        /\ wire'[Len(wire) + 1] = mirror /\ wire'[Len(wire) + 2] = end
    <2> HIDE DEF mirror, end
    <2>1. <<mirror, end>> \in Seq(Incoming) /\ Len(<<mirror, end>>) = 2
          /\ <<mirror, end>>[1] = mirror /\ <<mirror, end>>[2] = end
      BY <1>7
    <2>2. /\ wire' \in Seq(Incoming) /\ Len(wire') = Len(wire) + 2
          /\ \A i \in 1 .. Len(wire') : wire'[i] = IF i <= Len(wire) THEN wire[i]
                                                   ELSE <<mirror, end>>[i - Len(wire)]
      BY <1>1, <1>6, <2>1, ConcatProperties
    <2> QED
      BY <1>1, <2>1, <2>2
  <1>9. /\ conn' = conn /\ UNCHANGED history
        /\ given' = given /\ executed' = executed /\ size' = size /\ reply' = reply
    BY DEF Mirror, history
  <1>10. /\ Received' = Received /\ Size' = Size /\ Done' = Done /\ Waiting' = Waiting
         /\ \A x : \A i \in Int : Expected(i, x) <=> Expected(i, x)'
    BY <1>9 DEF Received, Stage, Size, Done, Waiting, Expected
  <1>11. Size \in Nat
    BY <1>1, <1>4, BoundsAssumption DEF Size
  <1>12. Received \in Nat /\ Len(wire) \in Nat /\ Received + Len(wire) = Size
    BY <1>1, <1>4
  <1>13. \A i \in 1 .. Len(wire') : Expected(Received + i, wire[i])'
    <2> TAKE i \in 1 .. Len(wire')
    <2>1. CASE i \in 1 .. Len(wire)
      <3>1. Received + i \in Int /\ wire'[i] = wire[i]
        BY <1>8, <1>12, <2>1
      <3>2. Expected(Received + i, wire[i])
        BY <1>3, <2>1 DEF Replying
      <3> QED
        BY <1>10, <3>1, <3>2
    <2>2. CASE i = Len(wire) + 1
      <3>1. Received + i = Size + 1 /\ Received + i \in Int
        BY <1>11, <1>12, <2>2
      <3>2. mirror.kind = "mirror" /\ mirror.id = conn.request_id
        BY DEF Packet
      <3> HIDE DEF mirror
      <3>3. Expected(Received + i, mirror)
        BY <1>11, <3>1, <3>2 DEF Expected
      <3> QED
        BY <1>8, <1>10, <2>2, <3>1, <3>3
    <2>3. CASE i = Len(wire) + 2
      <3>1. Received + i = Size + 2 /\ Received + i \in Int
        BY <1>11, <1>12, <2>3
      <3>2. end.kind = "end" /\ end.id = conn.request_id
        BY DEF Packet
      <3> HIDE DEF end
      <3>3. Expected(Received + i, end)
        BY <1>11, <3>1, <3>2 DEF Expected
      <3> QED
        BY <1>8, <1>10, <2>3, <3>1, <3>3
    <2> QED
      BY <1>1, <1>8, <2>1, <2>2, <2>3
  <1>14. Replying'
    <2>1. inbox' = <<>> /\ Received' + Len(wire') = Size' + 2
      <3>1. Received + (Len(wire) + 2) = Size + 2
        BY <1>11, <1>12
      <3> QED
        BY <1>5, <1>8, <1>10, <3>1
    <2>2. \A i \in 1 .. Len(conn'.previous) : Expected(i, conn.previous[i])'
      BY <1>3, <1>9, <1>10 DEF Replying
    <2>3. (Stage("run", "packet") => Expected(Received, conn.data))'
      BY <1>1, <1>3, <1>9, <1>10 DEF Replying, Stage
    <2>4. Received' # Size' + 2
      BY <1>10, <1>11, <1>12
    <2> QED
      BY <1>3, <1>9, <1>10, <1>13, <2>1, <2>2, <2>3, <2>4 DEF Replying
  <1>15. Open' /\ inbox' \in Seq(Outgoing)
    <2>1. InFlight'
      BY <1>3, <1>9, <1>10, <1>14 DEF InFlight, Stage
    <2> QED
      BY <1>1, <1>5, <1>9, <2>1, EmptySeq DEF Open, InOrder
  <1> QED
    BY <1>1, <1>8, <1>9, <1>15, Settled

(* All the steps together.                                                 *)
LEMMA NextStep == IInv /\ [Next]_vars => IInv'
  <1> SUFFICES ASSUME IInv, [Next]_vars
               PROVE  IInv'
    OBVIOUS
  <1>1. CASE Next
    <2>1. CASE Loop
      BY <2>1, ConnectedStep, WrittenStep, ArrivesStep, ReadNextStep, AuthResponseStep,
         ReplyPacketStep DEF Loop
    <2>2. CASE GameServer
      BY <2>2, AuthenticateStep, ExecuteStep, MirrorStep DEF GameServer
    <2> QED
      BY <1>1, <2>1, <2>2, RconAnewStep, RconStep, CloseStep DEF Next
  <1>2. CASE UNCHANGED vars
    <2>1. /\ UNCHANGED history /\ conn' = conn /\ inbox' = inbox /\ wire' = wire
          /\ given' = given /\ executed' = executed /\ size' = size /\ reply' = reply
      BY <1>2 DEF vars, history
    <2>2. Open => Open'
      BY <2>1 DEF Open, InOrder, Authing, Resting, InFlight, Sending, Replying, Expected,
                  Stage, Waiting, Done, Size, Received, AllAnswered
    <2> QED
      BY <2>1, <2>2, Facts, Settled DEF IInv
  <1> QED
    BY <1>1, <1>2

-----------------------------------------------------------------------------
(* The theorems.                                                           *)

(* The invariant holds in every reachable state, however many connections  *)
(* are made, broken or refused, and whenever commands are given.           *)
THEOREM RconInvariance == Spec => []IInv
  BY InitStep, NextStep, PTL DEF Spec

(* The object, the packets and the histories keep their types.             *)
THEOREM RconTypeCorrect == Spec => []TypeOK
  <1>1. IInv => TypeOK
    BY DEF IInv
  <1> QED
    BY <1>1, RconInvariance, PTL

(* The game server executes commands in the order they were given: a       *)
(* command is never skipped, repeated or overtaken.                        *)
THEOREM OrderTheorem == Spec => []ExecutedInOrder
  <1>1. IInv => ExecutedInOrder
    BY DEF IInv
  <1> QED
    BY <1>1, RconInvariance, PTL

(* A callback gets the whole reply to its own command and nothing else.    *)
THEOREM OwnReplyTheorem == Spec => []OwnReply
  <1>1. IInv => OwnReply
    BY DEF IInv
  <1> QED
    BY <1>1, RconInvariance, PTL

(* When no command is in flight, nothing is on the way in either direction.*)
THEOREM InStepTheorem == Spec => []InStep
  <1>1. IInv => InStep
    BY DEF IInv, InStep, Ready, Open, Authing, Resting, InFlight
  <1> QED
    BY <1>1, RconInvariance, PTL

(* A queue that has commands in it is behind one that is in flight.        *)
THEOREM QueueTheorem == Spec => []NoneWaitsIdle
  <1>1. IInv => NoneWaitsIdle
    BY DEF IInv, NoneWaitsIdle, Ready, Open, Authing, Resting, InFlight
  <1> QED
    BY <1>1, RconInvariance, PTL

(* The stream reads only what is coming: a reply is never taken to be      *)
(* longer than it is, nor the answer to a password.                        *)
THEOREM ReadTheorem == Spec => []ReadIsAnswered
  <1>1. IInv => ReadIsAnswered
    <2> SUFFICES ASSUME IInv, ~conn.closed, conn.io = "read"
                 PROVE  inbox # <<>> \/ wire # <<>>
      BY DEF ReadIsAnswered
    <2>1. Open /\ wire \in Seq(Incoming)
      BY Facts DEF IInv
    <2>2. Len(wire) # 0 => wire # <<>>
      BY <2>1, EmptySeq
    <2>3. CASE Authing
      BY <2>2, <2>3 DEF Authing, Stage
    <2>4. CASE InFlight
      <3>1. \A a, b : <<a>> # <<>> /\ <<a, b>> # <<>>
        OBVIOUS
      <3>2. ~Stage("run", "packet")
        BY DEF Stage
      <3>3. inbox # <<>> \/ (Received + Len(wire) = Size + 2 /\ Received # Size + 2)
        BY <2>4, <3>1, <3>2 DEF InFlight, Sending, Replying
      <3>4. Received \in Nat /\ Len(wire) \in Nat
        BY Facts
      <3>5. CASE Received + Len(wire) = Size + 2 /\ Received # Size + 2
        <4>1. Received + 0 = Received
          BY <3>4
        <4> QED
          BY <2>2, <3>5, <4>1
      <3> QED
        BY <3>3, <3>5
    <2> QED
      BY <2>1, <2>3, <2>4 DEF Open, Resting, Stage
  <1> QED
    BY <1>1, RconInvariance, PTL

=============================================================================
