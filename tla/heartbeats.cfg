SPECIFICATION Spec
CONSTANTS
  r1 = r1
  r2 = r2
  r3 = r3
  Requests = {r1, r2, r3}
  Ids = {1, 2, 3, 4, 5}
  Keep = 2
  MaxTime = 2
  MaxLost = 1
INVARIANTS
  NewestKept
  Bounded
