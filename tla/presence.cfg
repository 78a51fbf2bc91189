SPECIFICATION PSpec
CONSTANTS
  h1 = h1
  p1 = p1
  a1 = a1
  r1 = r1
  r2 = r2
  Hosts = {h1}
  Repos = {p1}
  Apps = {a1}
  Requests = {r1, r2}
  StaleAfter = 4
  MaxWait = 2
  MaxTime = 5
  MaxTokens = 1
  MaxAge = 1
  Poll = 1
  MaxLost = 2
  Quick = 0
SYMMETRY RequestSymmetry
INVARIANTS
  PTypeOK
  ReferencesHold
  OfflineIsSilent
  OnlineIsRecent
  InstallTokenOnce
  IdleIsOnline
  BusyIsKept
