CONSTANTS
  Conns = {c1, c2, c3}
  Streams = {s1, s2}
  Names = {n1, n2}
  Kinds = {"key"}
  MaxIndex = 2
  MaxMsgs = 2
  None = None
SPECIFICATION AllSpec
SYMMETRY Symmetry
INVARIANTS ListsAgree Playable Flushed
CHECK_DEADLOCK FALSE
