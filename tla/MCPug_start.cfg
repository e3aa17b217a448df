\* !start while the pug waits for a replacement.
SPECIFICATION Spec
CONSTANTS
  NoPlayer = NoPlayer
  NoMap = NoMap
  FirstTeam = "red"
  Players = {p1, p2, p3}
  Maps = {m1}
  Size = 2
  CallOutcomes = {TRUE}
  MaxEntries = 0
PROPERTY NoStartWhileWaiting
