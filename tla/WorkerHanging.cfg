SPECIFICATION FairSpec
CONSTANTS
  Jobs = {j1}
  Workers = {w1}
  MaxAttempts = 1
  Concurrency = 1
  MaxDeliveries = 2
  MaxBatch = 1
  Old = {}
  New = {}
  Hanging = {j1}
  Stubborn = {}
  Leaving = {}
  MaxFaults = 0
PROPERTIES
  HungJobsAreBuried
