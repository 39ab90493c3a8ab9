SPECIFICATION Spec
CONSTANTS
  Jobs = {j1, j2}
  Workers = {w1, w2}
  MaxAttempts = 1
  Concurrency = 2
  MaxDeliveries = 1
  MaxBatch = 1
  Old = {}
  New = {}
  Hanging = {}
  Stubborn = {}
  Leaving = {w1}
  MaxFaults = 1
SYMMETRY Symmetry
INVARIANTS
  CompletedOnce
  StartsBounded
  ConcurrencyRespected
  AckersAreAnswered
  
