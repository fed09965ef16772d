CONSTANTS
  Conns = {c1, c2}
  Reqs = {r1, r2, r3}
  Told = {r1, r3}
  Freeing = {r2}
  Num = 2
  None = None
SPECIFICATION FairSpec
INVARIANTS PoolSafe
PROPERTIES LivesAsPromised Settled
CHECK_DEADLOCK FALSE
