CONSTANTS
  Parts = {"trees"}
  None = None
  Conns = {c1, c2}
  Mysqls = {m1, m2, m3}
  MaxRows = 2
  MaxCms = 1
  Trss = {t1}
  Stbs = {s1}
  Phones = {p1}
  MaxNumber = 1
SPECIFICATION AllSpec
SYMMETRY Symmetry
INVARIANTS TreesSound PoolKept 
CHECK_DEADLOCK FALSE
