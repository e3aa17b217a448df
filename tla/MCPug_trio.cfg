\* An odd pug of three, where two may be missing at once, four players, and
\* calls that may raise.
SPECIFICATION Spec
CONSTANTS
  NoPlayer = NoPlayer
  NoMap = NoMap
  FirstTeam = "red"
  Players = {p1, p2, p3, p4}
  Maps = {m1}
  Size = 3
  CallOutcomes = {TRUE, FALSE}
  MaxEntries = 0
SYMMETRY PlayerSymmetry
INVARIANTS
  RosterMatchesState
  TeamsBalanced
  ListedPugIsInhabited
