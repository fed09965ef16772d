CONSTANTS
  Parts = {"trees", "foss"}
  None = None
  Conns = {c1, c2}
  Mysqls = {m1, m2}
  MaxRows = 2
  MaxCms = 1
  Trss = {t1}
  Stbs = {s1}
  Phones = {p1}
  MaxNumber = 1
SPECIFICATION FairAllSpec
PROPERTIES Answered Served
CHECK_DEADLOCK FALSE
