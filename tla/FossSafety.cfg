CONSTANTS
  None = None
  Trss = {t1, t2}
  Stbs = {s1, s2}
  Phones = {p1}
  Conns = {c1, c2}
  Mysqls = {m1, m2}
  MaxNumber = 1
SPECIFICATION Spec
SYMMETRY Symmetry
INVARIANTS PoolSound OneOwner BoxSettled
PROPERTIES Settles
CHECK_DEADLOCK FALSE
