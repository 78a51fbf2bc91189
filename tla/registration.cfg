SPECIFICATION Spec
CONSTANTS
  p1 = p1
  p2 = p2
  p3 = p3
  Procs = {p1, p2, p3}
  MaxRuns = 2
  MaxHand = 2
  MaxFaults = 2
INVARIANTS
  AnsweredIsCurrent
  StrandedWithReason
PROPERTIES
  InstallationSucceeds
CHECK_DEADLOCK FALSE
