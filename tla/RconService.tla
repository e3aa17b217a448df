---------------------------- MODULE RconService ----------------------------
(***************************************************************************)
(* What those who call Server.rcon count on, whatever is queued, split into*)
(* packets or written in between: as long as a connection lives it takes   *)
(* commands at any time, the game server executes them one by one in the   *)
(* order they were given, each when those before it have been answered, and*)
(* an answer is the whole output of the one command it is for.             *)
(***************************************************************************)
EXTENDS Integers, Sequences

CONSTANTS MaxCmds, MaxData

VARIABLES
  given,     \* how many commands the connection was given
  executed,  \* the commands the game server has executed
  output,    \* the packets each of them has put out
  answer     \* and those its caller was given

vars == <<given, executed, output, answer>>

Cmds == 1 .. MaxCmds

Init ==
  /\ given = 0
  /\ executed = <<>>
  /\ output = [c \in Cmds |-> {}]
  /\ answer = [c \in Cmds |-> {}]

(* A new connection knows nothing of the commands of the last one.         *)
Connect ==
  /\ given' = 1
  /\ executed' = <<>>
  /\ output' = [c \in Cmds |-> {}]
  /\ answer' = [c \in Cmds |-> {}]

Give ==
  /\ given + 1 \in Cmds
  /\ given' = given + 1
  /\ UNCHANGED <<executed, output, answer>>

(* The i-th packet of what c puts out is <<c, i>>.                         *)
Execute(c) ==
  /\ c = Len(executed) + 1
  /\ c <= given
  /\ \A d \in Cmds : d < c => answer[d] # {}
  /\ executed' = Append(executed, c)
  /\ \E n \in 1 .. MaxData : output' = [output EXCEPT ![c] = {c} \X (1 .. n)]
  /\ UNCHANGED <<given, answer>>

Answer(c) ==
  /\ c = Len(executed)
  /\ answer[c] = {}
  /\ answer' = [answer EXCEPT ![c] = output[c]]
  /\ UNCHANGED <<given, executed, output>>

Next == Connect \/ Give \/ \E c \in Cmds : Execute(c) \/ Answer(c)

Spec == Init /\ [][Next]_vars

=============================================================================
