\* Two players, two rows, flushes that may raise, crashes at any point,
\* fair time and a database that comes back.
SPECIFICATION FairSpec
CONSTANTS
  NoBan = NoBan
  Players = {p1, p2}
  Durations = {0, 1}
  FlushOutcomes = {TRUE, FALSE}
  MaxRows = 2
  MaxTime = 4
INVARIANTS
  TypeOK
  HeldIsActive
  OneBanPerPlayer
  FlushedBansAgree
PROPERTIES
  LiftedStaysLifted
  BanEnds
  ImplementsBanRegistry
