\* A player who leaves after the game is over.
SPECIFICATION FairSpec
CONSTANTS
  NoPlayer = NoPlayer
  NoMap = NoMap
  FirstTeam = "red"
  Players = {p1, p2}
  Maps = {m1}
  Size = 2
  CallOutcomes = {TRUE}
  MaxEntries = 0
PROPERTY GameOverIsFinal
