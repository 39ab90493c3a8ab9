SPECIFICATION ChaosFairSpec
CONSTANTS
  Jobs = {j1}
  Workers = {w1, w2}
  MaxAttempts = 1
  MaxDeliveries = 2
  TokenSpan = 8
  MaxToken = 3
  Fleet = 1
  MaxPauses = 1
  MaxCrashes = 1
INVARIANTS
  EffectOnce
  SettledIsRight
PROPERTIES
  
  SupersededHasNoEffect
  Reports
CHECK_DEADLOCK FALSE
