\* A replacement found before the shuffle.
SPECIFICATION Spec
CONSTANTS
  NoPlayer = NoPlayer
  NoMap = NoMap
  FirstTeam = "red"
  Players = {p1, p2, p3}
  Maps = {m1}
  Size = 2
  CallOutcomes = {TRUE}
  MaxEntries = 0
INVARIANT TeamsAreEven
