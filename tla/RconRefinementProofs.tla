------------------------ MODULE RconRefinementProofs ------------------------
(***************************************************************************)
(* RconStream implements RconService, for any number of commands, any      *)
(* length of a reply and any set of commands that cannot be encoded.  The  *)
(* service sees the four histories; all that happens on the way of a packet*)
(* is a step it does not see, and IInv says when the others are taken.     *)
(***************************************************************************)
EXTENDS RconRefinement, RconStreamProofs

(* A reply that is a command's own is all it has put out, or nothing yet.  *)
LEMMA OwnPackets ==
  ASSUME NEW c \in Cmds, NEW r \in Seq(Replied), NEW n \in Nat,
         r # <<>> => Len(r) = n /\ \A i \in 1 .. Len(r) : r[i].cmd = c
  PROVE  /\ r = <<>> => PacketsIn(r) = {}
         /\ r # <<>> => PacketsIn(r) # {} /\ PacketsIn(r) = {c} \X (1 .. n)
  <1>1. CASE r = <<>>
    BY <1>1, EmptySeq DEF PacketsIn
  <1>2. CASE r # <<>>
    <2>1. Len(r) = n /\ n >= 1
      BY <1>2, EmptySeq, LenProperties
    <2>2. PacketsIn(r) = {<<c, i>> : i \in 1 .. n}
      BY <1>2, <2>1 DEF PacketsIn
    <2>3. {<<c, i>> : i \in 1 .. n} = {c} \X (1 .. n)
      OBVIOUS
    <2>4. <<c, 1>> \in {<<c, i>> : i \in 1 .. n}
      BY <2>1
    <2> QED
      BY <1>2, <2>2, <2>3, <2>4
  <1> QED
    BY <1>1, <1>2

(* What the service sees of a command, before a step and after it.         *)
LEMMA Views ==
  ASSUME IInv, IInv', NEW c \in Cmds
  PROVE  /\ reply[c] = <<>> => Answers[c] = {}
         /\ reply[c] # <<>> => Answers[c] # {} /\ Answers[c] = Output[c]
         /\ reply'[c] = <<>> => Answers'[c] = {}
         /\ reply'[c] # <<>> => Answers'[c] # {} /\ Answers'[c] = Output'[c]
  <1>1. /\ reply[c] \in Seq(Replied) /\ size[c] \in Nat
        /\ reply'[c] \in Seq(Replied) /\ size'[c] \in Nat
    BY TypeParts, BoundsAssumption DEF IInv, Types
  <1>2. /\ Answers[c] = PacketsIn(reply[c]) /\ Output[c] = {c} \X (1 .. size[c])
        /\ Answers'[c] = PacketsIn(reply'[c]) /\ Output'[c] = {c} \X (1 .. size'[c])
    BY DEF Answers, Output
  <1>3. reply[c] # <<>> =>
          Len(reply[c]) = size[c] /\ \A i \in 1 .. Len(reply[c]) : reply[c][i].cmd = c
    BY DEF IInv, OwnReply
  <1>4. reply'[c] # <<>> =>
          Len(reply'[c]) = size'[c] /\ \A i \in 1 .. Len(reply'[c]) : reply'[c][i].cmd = c
    BY DEF IInv, OwnReply
  <1> DEFINE Seen(r, n) == /\ r = <<>> => PacketsIn(r) = {}
                           /\ r # <<>> => PacketsIn(r) # {} /\ PacketsIn(r) = {c} \X (1 .. n)
  <1>5. Seen(reply[c], size[c])
    BY <1>1, <1>3, OwnPackets
  <1>6. Seen(reply'[c], size'[c])
    BY <1>1, <1>4, OwnPackets
  <1> QED
    BY <1>2, <1>5, <1>6

(* At first, and on a new connection, nothing was put out or answered.     *)
LEMMA NothingYet ==
  /\ \A c : {c} \X (1 .. 0) = {}
  /\ PacketsIn(<<>>) = {}
  BY EmptySeq DEF PacketsIn

LEMMA InitService == Init => Service!Init
  BY NothingYet DEF Init, Service!Init, Output, Answers, Cmds, Service!Cmds

-----------------------------------------------------------------------------
(* A new connection starts over.                                           *)
LEMMA ConnectsOn ==
  ASSUME RconAnew
  PROVE  Service!Connect
  BY NothingYet DEF RconAnew, Service!Connect, Output, Answers, Service!Cmds, Cmds

(* What the game server executes has been given, and is the first that has *)
(* not been executed; those before it have been answered.                  *)
LEMMA ExecutesOn ==
  ASSUME IInv, IInv', Execute
  PROVE  \E c \in Cmds : Service!Execute(c)
  <1> DEFINE c == conn.cmd
  <1>1. /\ InFlight /\ Sending
        /\ executed' = Append(executed, c) /\ given' = given /\ reply' = reply
    BY Executing
  <1>2. PICK n \in 1 .. MaxData : size' = [size EXCEPT ![c] = n]
    BY Executing
  <1>3. /\ c \in Cmds /\ c + Waiting = given /\ Done + 1 = c
        /\ \A d \in Cmds : d <= Done => reply[d] # <<>>
    BY <1>1 DEF InFlight, Sending, AllAnswered
  <1>4. size \in [Cmds -> 0 .. MaxData] /\ Waiting \in Nat /\ Done \in Nat /\ given \in Nat
    BY Facts
  <1>5. Answers' = Answers
    BY <1>1 DEF Answers
  <1>6. Output' = [Output EXCEPT ![c] = {c} \X (1 .. n)]
    BY <1>2, <1>3, <1>4 DEF Output
  <1> HIDE DEF c
  <1>7. c = Len(executed) + 1 /\ c <= given
    BY <1>3, <1>4, BoundsAssumption DEF Done, Cmds
  <1>8. \A d \in Cmds : d < c => Answers[d] # {}
    <2> SUFFICES ASSUME NEW d \in Cmds, d < c
                 PROVE  Answers[d] # {}
      OBVIOUS
    <2>1. d <= Done
      BY <1>3, <1>4, BoundsAssumption DEF Cmds
    <2> QED
      BY <1>3, <2>1, Views
  <1>9. Service!Execute(c)
    BY <1>1, <1>2, <1>5, <1>6, <1>7, <1>8 DEF Service!Execute, Service!Cmds, Cmds
  <1> QED
    BY <1>3, <1>9

(* The end of a reply answers the command that was executed last.          *)
LEMMA AnswersOn ==
  ASSUME IInv, IInv', ReplyPacket
  PROVE  (\E c \in Cmds : Service!Answer(c)) \/ UNCHANGED <<given, executed, Output, Answers>>
  <1> DEFINE c == conn.cmd
  <1>1. given' = given /\ executed' = executed /\ size' = size /\ Output' = Output
    BY DEF ReplyPacket, Output
  <1>2. CASE reply' = reply
    BY <1>1, <1>2 DEF Answers
  <1>3. CASE reply' # reply
    <2>1. PICK r : reply' = [reply EXCEPT ![c] = r]
      BY <1>3 DEF ReplyPacket
    <2>2. Open /\ Stage("run", "packet") /\ Len(conn.previous) \in Nat
          /\ reply \in [Cmds -> Seq(Replied)]
      BY Facts DEF ReplyPacket, Runs, Stage
    <2>3. Received # 0
      <3> DEFINE n == Len(conn.previous)
      <3>1. Received = n + 1 /\ n \in Nat
        BY <2>2 DEF Received
      <3> HIDE DEF n
      <3> QED
        BY <3>1
    <2>4. c \in Cmds /\ reply[c] = <<>> /\ c = Done
      BY <2>2, <2>3 DEF Open, Authing, Resting, InFlight, Sending, Replying, Stage
    <2>5. reply'[c] # <<>>
      BY <1>3, <2>1, <2>2, <2>4
    <2>6. \A d \in Cmds \ {c} : reply'[d] = reply[d]
      BY <2>1, <2>2
    <2> HIDE DEF c
    <2>7. Answers[c] = {} /\ Answers'[c] = Output[c]
      BY <1>1, <2>4, <2>5, Views
    <2>8. Answers' = [Answers EXCEPT ![c] = Output[c]]
      BY <2>4, <2>6, <2>7 DEF Answers
    <2>9. Service!Answer(c)
      BY <1>1, <2>4, <2>7, <2>8 DEF Service!Answer, Done
    <2> QED
      BY <2>4, <2>9
  <1> QED
    BY <1>2, <1>3

(* Every step is one of the service, or one that it does not see.          *)
LEMMA StepService ==
  ASSUME IInv, IInv', [Next]_vars
  PROVE  [Service!Next]_(Service!vars)
  <1>1. CASE RconAnew
    BY <1>1, ConnectsOn DEF Service!Next
  <1>2. CASE Rcon
    BY <1>2 DEF Rcon, Service!Next, Service!Give, Service!Cmds, Cmds, Output, Answers
  <1>3. CASE Execute
    BY <1>3, ExecutesOn DEF Service!Next, Service!Cmds, Cmds
  <1>4. CASE ReplyPacket
    BY <1>4, AnswersOn DEF Service!Next, Service!Cmds, Cmds, Service!vars
  <1>5. CASE Close \/ Connected \/ Written \/ Arrives \/ ReadNext \/ AuthResponse
             \/ Authenticate \/ Mirror \/ UNCHANGED vars
    <2>1. given' = given /\ executed' = executed /\ size' = size /\ reply' = reply
      BY <1>5 DEF Close, Connected, Written, Arrives, ReadNext, AuthResponse, Authenticate,
                  Mirror, vars, history
    <2> QED
      BY <2>1 DEF Service!vars, Output, Answers
  <1> QED
    BY <1>1, <1>2, <1>3, <1>4, <1>5 DEF Next, Loop, GameServer

(* However packets and callbacks interleave with calls of Server.rcon, the *)
(* queue of RconConnection serialises the commands: each is executed when  *)
(* the one before it has been answered, and answered with the whole of its *)
(* own output.                                                             *)
THEOREM ServiceTheorem == Spec => ImplementsService
  <1>1. IInv /\ IInv' /\ [Next]_vars => [Service!Next]_(Service!vars)
    BY StepService
  <1> QED
    BY <1>1, InitService, RconInvariance, PTL DEF Spec, ImplementsService, Service!Spec

=============================================================================
