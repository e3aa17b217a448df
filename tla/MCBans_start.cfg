\* Is the table consistent with the manager?
SPECIFICATION Spec
CONSTANTS
  NoBan = NoBan
  Players = {p1, p2}
  Durations = {0, 1}
  FlushOutcomes = {TRUE}
  MaxRows = 3
  MaxTime = 4
INVARIANTS
  DatabaseConsistent
