SPECIFICATION FairSpec
CONSTANTS
  Gateways = {g1}
  InitialClients = {g1}
  Objs = {o1, o2, o3}
  Versions = {v1, bad, route, using, free}
  VersionsOf <- MCFallbackVersionsOf
  Uses <- MCFallbackUses
  Contents = {Nothing, c1, c2, broken}
  Rejected = {broken}
  Renders <- MCRenders
  Fetched <- MCFetched
  FallbackConfiguration = TRUE
  UseLastValidConfigForFallback = TRUE
  RejectionKinds = {"named"}
  MaxFailures = 0
  MaxLost = 0
  MaxCrashes = 0
  MaxRestarts = 0
  MaxJoins = 0
  MaxLeaves = 0
  MaxFaults = 0
  Nothing = Nothing
  Absent = Absent
  None = None
  o1 = o1
  o2 = o2
  o3 = o3
  v1 = v1
  bad = bad
  empty = empty
  route = route
  using = using
  free = free
  c1 = c1
  c2 = c2
  broken = broken
INVARIANT LastValidCacheWasSynced
PROPERTIES NeverDropsServed UnaffectedServed
