\* Two managers, one of them late, two servers, two players, every failure.
SPECIFICATION Spec
CONSTANTS
  Managers = {m1, m2}
  Late = {m2}
  Servers = {s1, s2}
  Players = {p1, p2}
  MaxPugs = 2
  Size = 2
  Faults = {"reserve", "prepare", "reset", "connection",
            "flush_pug", "flush_server", "get_pugs"}
  MaxHurt = 1
  Nobody = Nobody
  Nowhere = Nowhere
SYMMETRY Symmetry
INVARIANTS
  TypeOK
  OnePugPerServer
  NoServerForgotten
  NoPugForgotten
  PugsSurvive
  OnePugPerMember
PROPERTIES
  ImplementsServerPool
