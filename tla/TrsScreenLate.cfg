CONSTANTS
  None = None
  Stbs = {s1, s2}
  Phones = {p1, p2}
  Conns = {c1}
  Infos = {i1}
  Hold = 1
  Expire = 2
  MaxLate = 0
  MaxFlight = 2
  LateFoss = TRUE
SPECIFICATION Spec
SYMMETRY Symmetry
INVARIANTS BoundOnce
PROPERTIES LivesAsPromised
