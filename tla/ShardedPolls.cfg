SPECIFICATION FairSpec
CONSTANTS
  Jobs = {j1, j2, j3}
  Workers = {w1, w2}
  Me = w1
  MaxAttempts = 1
  Parts = 1
  Concurrency = 1
  MaxToken = 1
  Closes = TRUE
INVARIANTS
  PollersCover
  BufferBounded
PROPERTIES
  ClosedForGood
  CloseCompletes
  
