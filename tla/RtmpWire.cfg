CONSTANTS
  Lengths = {1, 4}
  Sizes <- MCSizes
  Block = 5
  Far = 3
  Steps = {1, 3}
  MaxMsgs = 7
  MaxTime = 5
  p1 = p1  p2 = p2  None = None
SPECIFICATION AllSpec
INVARIANTS ChunksDecode ChunksRead ValuesRead DialogSound
CONSTRAINT Unharmed
CHECK_DEADLOCK FALSE
