CONSTANTS
  None = None
  Stbs = {s1, s2}
  Phones = {p1}
  Conns = {c1, c2, c3}
  Infos = {i1}
  Hold = 1
  Expire = 2
  MaxLate = 1
  MaxFlight = 1
  LateFoss = FALSE
SPECIFICATION Spec
SYMMETRY Symmetry
INVARIANTS HeldSafe AnswerSafe
