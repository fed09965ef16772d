CONSTANTS
  N = 6
  c1 = c1  c2 = c2  c3 = c3  p = p  q = q
  b1 = b1  b2 = b2  i1 = i1  None = None
SPECIFICATION AllSpec
INVARIANTS BlocksKept TreeSound StoresKept
PROPERTIES KeepsOrder
CHECK_DEADLOCK FALSE
