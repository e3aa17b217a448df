\* Six commands to a connection, the fifth of which cannot be encoded.
SPECIFICATION FairSpec
CONSTANTS
  MaxCmds = 6
  MaxData = 3
  Unencodable = {5}
INVARIANTS
  TypeOK
  InStep
  OwnReply
  ExecutedInOrder
  NoneWaitsIdle
  ReadIsAnswered
PROPERTIES
  EveryCommandIsAnswered
  ImplementsService
