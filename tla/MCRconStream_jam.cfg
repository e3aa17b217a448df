\* A connection that is given a command it cannot encode.
SPECIFICATION Spec
CONSTANTS
  MaxCmds = 3
  MaxData = 1
  Unencodable = {2}
INVARIANTS
  BusyOnlyInTransfer
