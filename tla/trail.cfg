SPECIFICATION Spec
CONSTANTS
  r1 = r1
  r2 = r2
  h1 = h1
  j1 = j1
  Requests = {r1, r2}
  Hosts = {h1}
  Jobs = {j1}
  MaxTime = 1
  MaxErrors = 1
  MaxStops = 1
  MaxKills = 1
INVARIANTS
  EventsHappened
  GapsHaveReason
  CauseBeforeEffect
PROPERTIES
  StopEnds
CHECK_DEADLOCK FALSE
