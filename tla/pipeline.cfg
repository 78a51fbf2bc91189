SPECIFICATION Spec
CONSTANTS
  j1 = j1
  j2 = j2
  j3 = j3
  h1 = h1
  r1 = r1
  a1 = a1
  a2 = a2
  JobIds = {j1, j2}
  Hosts = {h1}
  Roots = {r1}
  Apps = {a1, a2}
  RootHost <- OneRootHost
  RootOf <- SharedRoot
  Initial = Initial
  Absent = Absent
  Plain = Plain
  ClientActions = {"deploy", "setup_app", "rollback"}
  ClientStatuses = {"queued", "signaled", "running", "failed", "canceled"}
  MaxFaults = 2
SYMMETRY Symmetry
INVARIANTS
  TypeOK
  ExecutedAtMostOnce
  ReleaseOnHost
  SuccessIsRecorded
  LiveIsNotFailed
  LedgerAgrees
PROPERTIES
  NeverRequeued
  EarlyCancelSticks
  ImplementsRollout
