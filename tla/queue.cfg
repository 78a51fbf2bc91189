SPECIFICATION Spec
CONSTANTS
  j1 = j1
  j2 = j2
  u1 = u1
  u2 = u2
  Jobs = {j1, j2}
  Users = {u1, u2}
  Posts <- MCPosts
  MaxTime = 2
  MaxFaults = 1
SYMMETRY QueueSymmetry
INVARIANTS
  InOrder
  TimesInOrder
CHECK_DEADLOCK FALSE
