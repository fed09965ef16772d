CONSTANTS
  None = None
  Stbs = {s1}
  Phones = {p1}
  Conns = {c1, c2}
  Infos = {i1}
  Hold = 1
  Expire = 2
  MaxLate = 1
  MaxFlight = 1
  LateFoss = FALSE
SPECIFICATION FairSpec
PROPERTIES Ends
