SPECIFICATION FairSpec
CONSTANTS
  Workers = {w1}
  Parts = 2
  Depth = 1
  Thin = {}
  Concurrency = 1
  Rounds = 1
  Window = 1
  Busy = {0}
  MaxFaults = 0
PROPERTIES
  ExpiredIsRecovered
