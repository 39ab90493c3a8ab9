SPECIFICATION FairSpec
CONSTANTS
  Workers = {w1}
  Parts = 2
  Depth = 3
  Thin = {1}
  Concurrency = 2
  Rounds = 1
  Window = 1
  Busy = {1}
  MaxFaults = 1
INVARIANTS
  RecoveredIsRun
  SweepKeepsLimit

  
