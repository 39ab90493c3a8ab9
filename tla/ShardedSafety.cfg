SPECIFICATION Spec
CONSTANTS
  Jobs = {j1, j2}
  Workers = {w1, w2}
  Me = w1
  MaxAttempts = 1
  Parts = 2
  Concurrency = 2
  MaxToken = 2
  Closes = FALSE
SYMMETRY Symmetry
INVARIANTS
  EveryLeaseHasOnePlace
  NoMissedSignal
