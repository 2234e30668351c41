CONSTANTS
  r1 = r1
  r2 = r2
  r3 = r3
  k1 = k1
  k2 = k2
  Requests = {r1, r2, r3}
  Keys = {k1, k2}
  Limit <- Allowance
  Window <- WindowLength
  MaxBuckets = 2
  MaxTime = 2
  MaxCrashes = 1
SYMMETRY Symmetry
SPECIFICATION RequestsSpec
CONSTRAINT FewTroubles
INVARIANT AnswerHonest
PROPERTY LimiterFair
CHECK_DEADLOCK FALSE
