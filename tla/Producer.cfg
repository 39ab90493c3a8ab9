SPECIFICATION Spec
CONSTANTS
  k1 = k1
  u1 = u1
  d1 = d1
  Producers = {p1, p2}
  Requests = {k1, u1, d1}
  Keyed = {k1}
  Delayed = {d1}
  Hash <- MCHash
  IDs = {i1, i2, i3, i4}
  Before = 2
  After = 3
  MaxFaults = 1
  MaxExpiries = 1
SYMMETRY Symmetry
CHECK_DEADLOCK FALSE
INVARIANTS
  IDsAreStored
  KeyedOnce
  UnkeyedOnce
  CountedIsStored
