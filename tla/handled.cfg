SPECIFICATION FairSpec
CONSTANTS
  j1 = j1
  j2 = j2
  j3 = j3
  h1 = h1
  r1 = r1
  a1 = a1
  a2 = a2
  JobIds = {j1, j2}
  Hosts = {h1}
  Roots = {r1}
  Apps = {a1}
  RootHost <- OneRootHost
  RootOf <- OneRoot
  Initial = Initial
  Absent = Absent
  Plain = Plain
  ClientActions = {"deploy"}
  ClientStatuses = {"queued", "signaled", "running", "success", "failed", "canceled"}
  MaxFaults = 1
PROPERTIES
  PendingIsHandled
  StartedJobEnds
