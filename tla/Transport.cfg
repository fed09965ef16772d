CONSTANTS
  Window = 1
  c1 = c1  k1 = k1  i1 = i1  i2 = i2  i3 = i3
  None = None
  MaxAnswers = 2
  Lengths = {1, 2}
  Mysqls = {m1, m2}
  MaxRows = 2
  MaxFails = 2
  Trss = {t1}
  First = 1
  Interval = 2
  Report = 3
  Timeout = 12
  MaxDelay = 1
  MaxLate = 0
  Losses = 4
SPECIFICATION AllSpec
INVARIANTS RequestsApart BodiesWhole AnswersWhole QueriesSound StaysKnown
PROPERTIES LivesAsPromised EndsInTime
CHECK_DEADLOCK FALSE
