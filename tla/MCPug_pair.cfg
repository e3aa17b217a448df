\* A pug of two, three players, and calls that may raise.
SPECIFICATION Spec
CONSTANTS
  NoPlayer = NoPlayer
  NoMap = NoMap
  FirstTeam = "red"
  Players = {p1, p2, p3}
  Maps = {m1}
  Size = 2
  CallOutcomes = {TRUE, FALSE}
  MaxEntries = 1
SYMMETRY PlayerSymmetry
INVARIANTS
  TypeOK
  AdminAndVotersAreMembers
  MapChosen
  TeamsSound
  StatsOnlyAfterGame
PROPERTIES
  PhaseNeverGoesBack
  ImplementsLifecycle
