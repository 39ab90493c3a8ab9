SPECIFICATION Spec
CONSTANTS
  Jobs = {j1, j2, bad}
  Workers = {w1, w2}
  Keys = {k1}
  Malformed = {bad}
  Resendable = {j2}
  MaxAttempts = 2
  PromoteLimit = 1
  ClaimLimit = 2
  BatchLimit = 2
  TokenSpan = 8
  MaxToken = 2
  MaxIssued = 3
  MaxID = 3
SYMMETRY Symmetry
INVARIANTS
  DeliveredIsPending
  NoJobLost
  NoJobDuplicated
  OwnerIsNewest
  DedupeNamesStoredJob
PROPERTIES
  FencingTokenIncreases
  LostStaysLost
  ImplementsBackend
