SPECIFICATION FairSpec
CONSTANTS
  Jobs = {j1}
  Workers = {w1, w2}
  MaxAttempts = 2
  Concurrency = 1
  MaxDeliveries = 2
  MaxBatch = 1
  Old = {w2}
  New = {j1}
  Hanging = {}
  Stubborn = {}
  Leaving = {w1}
  MaxFaults = 1
PROPERTIES
  JobsAreSettled
  ShutdownCompletes
  ZombiesStop
