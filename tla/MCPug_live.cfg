\* Progress, with two players who come and go and two maps to vote on.
SPECIFICATION FairSpec
CONSTANTS
  NoPlayer = NoPlayer
  NoMap = NoMap
  FirstTeam = "red"
  Players = {p1, p2}
  Maps = {m1, m2}
  Size = 2
  CallOutcomes = {TRUE}
  MaxEntries = 0
PROPERTIES
  VoteResolves
  GatheringResolves
  ReplacementResolves
  FinishedPugCloses
