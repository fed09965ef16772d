CONSTANTS
  Conns = {c1, c2}
  Links = {k1, k2}
  Ids = {i1, i2, i3, i4}
  Fds = 2
  Expire = 2
  Hold = 1
  Interval = 1
  MaxBacklog = 1
  None = None
  Phones = {h1}
  Boxes = {b1, b2, b3}
  Own = {b1, b2}
  MaxReqs = 2
  MaxFails = 1
  Lengths = {1, 2, 4}
  Cap = 6
  PipeBuf = 2
  MaxLines = 5
SPECIFICATION AllSpec
SYMMETRY Symmetry
INVARIANTS TimersOwned PipeSound StartSound StreamsKept
CHECK_DEADLOCK FALSE
