----------------------------- MODULE RconStream -----------------------------
(***************************************************************************)
(* The rcon connection of a game server: serverlib/RconStream.py, a queue  *)
(* of commands over a tornado IOStream, and Server.rcon, which makes a new *)
(* connection when the last one is closed.  The game server at the other   *)
(* end answers packets in the order it gets them.                          *)
(*                                                                         *)
(* The n-th command a connection is given is the number n, and a packet is *)
(* an id, a kind and the command it was sent for.  A callback of the stream*)
(* runs in a step after the one that scheduled it: in between the stream   *)
(* neither reads nor writes, and send_cmd may be called.  A definition with*)
(* an underscore in its name is a faulty variant of the one it stands      *)
(* before, which some property must notice.                                *)
(***************************************************************************)
EXTENDS Integers, Sequences

CONSTANTS
  MaxCmds,      \* bound on the commands that one connection is given
  MaxData,      \* bound on the packets of a reply
  Unencodable   \* the commands that have a character outside of ASCII

ASSUME BoundsAssumption == MaxCmds \in Nat \ {0} /\ MaxData \in Nat \ {0}
ASSUME UnencodableAssumption == Unencodable \subseteq 1 .. MaxCmds

VARIABLES
  conn,      \* the RconConnection object and its stream
  inbox,     \* packets on their way to the game server
  wire,      \* packets on their way from it
  given,     \* history: how many commands the connection was given,
  executed,  \* those the game server has executed, in its order,
  size,      \* how many packets it answered each with,
  reply      \* and the packets that were compiled into a reply to each

vars == <<conn, inbox, wire, given, executed, size, reply>>

Cmds == 1 .. MaxCmds
None == 0

(* What the stream is doing: "run" when a callback is scheduled, which is  *)
(* the method in "next" with the packet in "data".                         *)
Io == {"idle", "connect", "write", "read", "run"}
Callbacks == {"none", "auth_sent", "auth_junk", "auth_response", "sent", "packet"}

Packet(id, kind, cmd) == [id |-> id, kind |-> kind, cmd |-> cmd]
NoPacket == Packet(0, "none", None)

(* RconConnection.__init__, and the stream when it has closed.             *)
New ==
  [closed |-> FALSE, authed |-> FALSE, refused |-> FALSE, busy |-> FALSE,
   queue |-> <<>>, request_id |-> 0, io |-> "connect", next |-> "none",
   data |-> NoPacket, previous |-> <<>>, cmd |-> None]

Closed == [New EXCEPT !.closed = TRUE, !.io = "idle"]

-----------------------------------------------------------------------------
(* Methods, as functions of the object.                                    *)
Read(k, callback) == [k EXCEPT !.io = "read", !.next = callback, !.data = NoPacket]

Write(k, ids, callback) ==
  [k EXCEPT !.io = "write", !.next = callback, !.request_id = @ + ids, !.data = NoPacket]

Rest(k) == [k EXCEPT !.io = "idle", !.next = "none", !.data = NoPacket]

Busy_WhileTransferring(k) == k.io \in {"read", "write"}

(* busy().                                                                 *)
Busy(k) == k.io \in {"read", "write"} \/ k.busy

(* _exec: busy is set before the command is encoded, which may raise.      *)
Exec(k, c) ==
  IF c \in Unencodable THEN [Rest(k) EXCEPT !.busy = TRUE, !.request_id = @ + 1]
  ELSE [Write(k, 2, "sent") EXCEPT !.busy = TRUE, !.cmd = c]

(* send_cmd.                                                               *)
SendCmd(k, c) ==
  IF Busy(k) \/ ~k.authed THEN [k EXCEPT !.queue = Append(@, c)] ELSE Exec(k, c)

ProcessQueue_LastFirst(k) ==
  IF k.queue = <<>> THEN Rest(k)
  ELSE SendCmd([Rest(k) EXCEPT !.queue = SubSeq(@, 1, Len(@) - 1)], k.queue[Len(k.queue)])

ProcessQueue_WithoutPop(k) ==
  IF k.queue = <<>> THEN Rest(k) ELSE SendCmd(Rest(k), Head(k.queue))

(* _process_queue.                                                         *)
ProcessQueue(k) ==
  IF k.queue = <<>> THEN Rest(k)
  ELSE SendCmd([Rest(k) EXCEPT !.queue = Tail(@)], Head(k.queue))

(* What is written when the object turns from k into l.                    *)
Sent(k, l) ==
  IF l.request_id # k.request_id + 2 THEN <<>>
  ELSE <<Packet(k.request_id + 1, "exec", l.cmd), Packet(k.request_id + 2, "mirror", l.cmd)>>

Complete_AtMirror(packets, id) == packets[Len(packets)].id = id

Complete_OneBefore(packets, id) ==
  LET n == Len(packets)
  IN  /\ n >= 3
      /\ packets[n - 2].id = id
      /\ packets[n - 1].id = id
      /\ packets[n - 1].kind = "end"

(* The mirror of the empty packet, and another one whose body is \x01.     *)
Complete(packets, id) ==
  LET n == Len(packets)
  IN  /\ n >= 2
      /\ packets[n - 1].id = id
      /\ packets[n].id = id
      /\ packets[n].kind = "end"

Authed_WithoutQueue(k) == [Rest(k) EXCEPT !.authed = TRUE]

Authed(k) == ProcessQueue([k EXCEPT !.authed = TRUE])

Answered_StaysBusy(k) == ProcessQueue([k EXCEPT !.previous = <<>>])

(* The end of a reply.                                                     *)
Answered(k) == ProcessQueue([k EXCEPT !.busy = FALSE, !.previous = <<>>])

-----------------------------------------------------------------------------
Init ==
  /\ conn = Closed
  /\ inbox = <<>>
  /\ wire = <<>>
  /\ given = 0
  /\ executed = <<>>
  /\ size = [c \in Cmds |-> 0]
  /\ reply = [c \in Cmds |-> <<>>]

history == <<given, executed, size, reply>>

(* Server.rcon when it has no connection, or one that is closed: what that *)
(* one had in its queue is gone.                                           *)
RconAnew ==
  /\ conn.closed
  /\ conn' = SendCmd(New, 1)
  /\ inbox' = <<>>
  /\ wire' = <<>>
  /\ given' = 1
  /\ executed' = <<>>
  /\ size' = [c \in Cmds |-> 0]
  /\ reply' = [c \in Cmds |-> <<>>]

(* Server.rcon.  After a refused password send_cmd raises.                 *)
Rcon ==
  /\ ~conn.closed
  /\ ~conn.refused
  /\ given + 1 \in Cmds
  /\ given' = given + 1
  /\ conn' = SendCmd(conn, given + 1)
  /\ inbox' = inbox \o Sent(conn, conn')
  /\ UNCHANGED <<wire, executed, size, reply>>

(* The connection is made: _auth sends the password.                       *)
Connected ==
  /\ conn.io = "connect"
  /\ conn' = Write(conn, 1, "auth_sent")
  /\ inbox' = Append(inbox, Packet(conn'.request_id, "auth", None))
  /\ UNCHANGED <<wire, history>>

(* The stream has written everything.                                      *)
Written ==
  /\ conn.io = "write"
  /\ conn' = [conn EXCEPT !.io = "run"]
  /\ UNCHANGED <<inbox, wire, history>>

(* The stream has a packet.                                                *)
Arrives ==
  /\ conn.io = "read"
  /\ wire # <<>>
  /\ conn' = [conn EXCEPT !.io = "run", !.data = Head(wire)]
  /\ wire' = Tail(wire)
  /\ UNCHANGED <<inbox, history>>

Runs(callback) == conn.io = "run" /\ conn.next = callback

(* _auth, after the password was sent and after the packet that is thrown  *)
(* away, and _command_sent_callback.                                       *)
ReadNext ==
  /\ \/ Runs("auth_sent") /\ conn' = Read(conn, "auth_junk")
     \/ Runs("auth_junk") /\ conn' = Read(conn, "auth_response")
     \/ Runs("sent") /\ conn' = Read(conn, "packet")
  /\ UNCHANGED <<inbox, wire, history>>

(* _auth_response.                                                         *)
AuthResponse ==
  /\ Runs("auth_response")
  /\ conn' = IF conn.data.kind = "auth" /\ conn.data.id = conn.request_id THEN Authed(conn)
             ELSE [Rest(conn) EXCEPT !.refused = TRUE]
  /\ inbox' = inbox \o Sent(conn, conn')
  /\ UNCHANGED <<wire, history>>

(* _handle_multi_packet_read.                                              *)
ReplyPacket ==
  LET packets == Append(conn.previous, conn.data)
  IN  /\ Runs("packet")
      /\ IF Complete(packets, conn.request_id)
         THEN /\ conn' = Answered(conn)
              /\ reply' = [reply EXCEPT ![conn.cmd] = SubSeq(packets, 1, Len(packets) - 2)]
         ELSE /\ conn' = [Read(conn, "packet") EXCEPT !.previous = packets]
              /\ UNCHANGED reply
      /\ inbox' = inbox \o Sent(conn, conn')
      /\ UNCHANGED <<wire, given, executed, size>>

(* The connection is closed by the game server, or was never made.         *)
Close ==
  /\ ~conn.closed
  /\ conn' = Closed
  /\ UNCHANGED <<inbox, wire, history>>

-----------------------------------------------------------------------------
(* The game server.                                                        *)
Gets(kind) ==
  /\ ~conn.closed
  /\ inbox # <<>>
  /\ Head(inbox).kind = kind
  /\ inbox' = Tail(inbox)

Authenticate ==
  /\ Gets("auth")
  /\ \E id \in {Head(inbox).id, -1} :
       wire' = wire \o <<Packet(Head(inbox).id, "data", None), Packet(id, "auth", None)>>
  /\ UNCHANGED <<conn, history>>

Execute ==
  /\ Gets("exec")
  /\ \E n \in 1 .. MaxData :
       /\ wire' = wire \o [i \in 1 .. n |-> Packet(Head(inbox).id, "data", Head(inbox).cmd)]
       /\ size' = [size EXCEPT ![Head(inbox).cmd] = n]
  /\ executed' = Append(executed, Head(inbox).cmd)
  /\ UNCHANGED <<conn, given, reply>>

Mirror ==
  /\ Gets("mirror")
  /\ wire' = wire \o <<Packet(Head(inbox).id, "mirror", Head(inbox).cmd),
                       Packet(Head(inbox).id, "end", Head(inbox).cmd)>>
  /\ UNCHANGED <<conn, history>>

-----------------------------------------------------------------------------
Loop == Connected \/ Written \/ Arrives \/ ReadNext \/ AuthResponse \/ ReplyPacket

GameServer == Authenticate \/ Execute \/ Mirror

Next == RconAnew \/ Rcon \/ Close \/ Loop \/ GameServer

Spec == Init /\ [][Next]_vars

(* The IO loop runs what is ready, and the game server answers what it     *)
(* gets.  Nobody has to give commands, and no connection has to close.     *)
FairSpec == Spec /\ WF_vars(Loop) /\ WF_vars(GameServer)

-----------------------------------------------------------------------------
PacketsOf(kinds) == [id: Int, kind: kinds, cmd: Cmds \cup {None}]

(* The object, the packets and the histories keep their types, and a       *)
(* command is executed once at most.                                       *)
TypeOK ==
  /\ conn \in [closed: BOOLEAN, authed: BOOLEAN, refused: BOOLEAN, busy: BOOLEAN,
               queue: Seq(Cmds), request_id: Nat, io: Io, next: Callbacks,
               data: PacketsOf({"none", "data", "auth", "mirror", "end"}),
               previous: Seq(PacketsOf({"data", "mirror", "end"})), cmd: Cmds \cup {None}]
  /\ inbox \in Seq(PacketsOf({"auth", "exec", "mirror"}))
  /\ wire \in Seq(PacketsOf({"data", "auth", "mirror", "end"}))
  /\ given \in 0 .. MaxCmds
  /\ executed \in Seq(Cmds) /\ Len(executed) <= given
  /\ size \in [Cmds -> 0 .. MaxData]
  /\ reply \in [Cmds -> Seq(PacketsOf({"data", "mirror", "end"}))]

Ready == ~conn.closed /\ conn.authed

(* Both ends agree where a reply ends: when no command is in flight nothing*)
(* is on the wire, so that the next reply starts with its own first packet.*)
InStep == (Ready /\ ~conn.busy) => inbox = <<>> /\ wire = <<>>

(* The reply a callback gets is the whole reply to its own command, however*)
(* many commands are given while it is being read.                         *)
OwnReply ==
  \A c \in Cmds :
    reply[c] # <<>> =>
      /\ Len(reply[c]) = size[c]
      /\ \A i \in 1 .. Len(reply[c]) : reply[c][i].cmd = c /\ reply[c][i].kind = "data"

(* What the game server has executed is what the connection was given      *)
(* first, with nothing skipped, repeated or overtaken: a password that is  *)
(* set after the players are told stays in that order.                     *)
ExecutedInOrder == \A i \in 1 .. Len(executed) : executed[i] = i

(* No command waits for another one to start the queue.                    *)
NoneWaitsIdle == (Ready /\ conn.queue # <<>>) => conn.busy

(* The stream never waits for a packet that is not coming: whenever it     *)
(* reads, the next packet is on the wire or the game server has one to     *)
(* answer.  A reply that was taken to be longer than it is would leave the *)
(* connection reading, with no timeout, and the queue behind it.           *)
ReadIsAnswered ==
  (~conn.closed /\ conn.io = "read") => inbox # <<>> \/ wire # <<>>

(* Every command is executed and its reply read to the end, unless the     *)
(* connection closes, the password is refused, or the command or one before*)
(* it cannot be encoded.                                                   *)
EveryCommandIsAnswered ==
  \A c \in {d \in Cmds : \A e \in Unencodable : d < e} :
    (~conn.closed /\ c <= given) ~> (conn.closed \/ conn.refused \/ reply[c] # <<>>)

-----------------------------------------------------------------------------
(* What the repository says, and the code does not do.                     *)

(* serverlib/RconStream.py:290-293: a command is queued because the socket *)
(* is being read or written, and the queue goes on when that is over.      *)
BusyOnlyInTransfer == ~conn.closed /\ conn.busy => conn.io # "idle"

=============================================================================
