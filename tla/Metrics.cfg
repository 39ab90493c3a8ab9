SPECIFICATION Spec
CONSTANTS
  Jobs = {j1}
  Workers = {w1, w2}
  Others = {w2}
  MaxAttempts = 2
  MaxDeliveries = 2
  Policy <- MCPolicy
  Width = 7
  StaleAfter = 1
  SweepEvery = 1
  MaxTime = 2
  MaxFaults = 1
INVARIANTS
  StartsAreSpentOnce
  CountersMatchQueue
  DurationIsOwn
  DelayIsBackoff
PROPERTIES
  StaleStartsAreSwept
CHECK_DEADLOCK FALSE
