SPECIFICATION Spec
CONSTANTS
  j1 = j1
  j2 = j2
  j3 = j3
  h1 = h1
  r1 = r1
  r2 = r2
  a1 = a1
  p1 = p1
  d1 = d1
  d2 = d2
  JobIds = {j1, j2, j3}
  Hosts = {h1}
  Roots = {r1, r2}
  Apps = {a1}
  Recipes = {p1}
  Domains = {d1, d2}
  BadDomains = {d2}
  NoDomain = NoDomain
  RootHost <- MCRootHost
  RootOf <- MCRootOf
  Initial = Initial
  Absent = Absent
  Plain = Plain
SYMMETRY JobSymmetry
INVARIANTS
  LinksResolve
  FailureNotLive
  NoHalfBuiltRelease
  SuccessIsServed
PROPERTIES
  SiteKept
  ServedStays
  HostSpec
CHECK_DEADLOCK FALSE
