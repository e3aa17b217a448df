--------------------------- MODULE RconRefinement ---------------------------
(* RconStream implements RconService.                                      *)
EXTENDS RconStream

(* The packets of a reply, by the command they were sent for.              *)
PacketsIn(packets) == {<<packets[i].cmd, i>> : i \in 1 .. Len(packets)}

Output == [c \in Cmds |-> {c} \X (1 .. size[c])]
Answers == [c \in Cmds |-> PacketsIn(reply[c])]

Service == INSTANCE RconService WITH output <- Output, answer <- Answers

(* However packets and callbacks interleave with calls of Server.rcon, the *)
(* queue of RconConnection makes them one call after the other: a command  *)
(* is executed when the reply to the one before was given to its callback, *)
(* and that callback gets the whole of it.                                 *)
ImplementsService == Service!Spec

=============================================================================
