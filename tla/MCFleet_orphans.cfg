\* Two managers from the start, and a restart; nothing fails.
SPECIFICATION Spec
CONSTANTS
  Managers = {m1, m2}
  Late = {}
  Servers = {s1, s2}
  Players = {p1, p2}
  MaxPugs = 2
  Size = 2
  Faults = {}
  MaxHurt = 1
  Nobody = Nobody
  Nowhere = Nowhere
PROPERTIES
  OnlyOrphansAreReset
