SPECIFICATION FairSpec
CONSTANTS
  Gateways = {g1, g2}
  InitialClients = {g1}
  Objs = {o1}
  Versions = {v1, empty, bad}
  VersionsOf <- MCVersionsOf
  Uses <- MCUses
  Contents = {Nothing, c1, c2, broken}
  Rejected = {broken}
  Renders <- MCRenders
  Fetched <- MCFetched
  FallbackConfiguration = FALSE
  UseLastValidConfigForFallback = FALSE
  RejectionKinds = {"blank"}
  MaxFailures = 1
  MaxLost = 1
  MaxCrashes = 1
  MaxRestarts = 1
  MaxJoins = 1
  MaxLeaves = 1
  MaxFaults = 3
  Nothing = Nothing
  Absent = Absent
  None = None
  o1 = o1
  o2 = o2
  o3 = o3
  v1 = v1
  bad = bad
  empty = empty
  route = route
  using = using
  free = free
  c1 = c1
  c2 = c2
  broken = broken
INVARIANTS TypeOK SHATellsTruth LastValidIsAcceptable
PROPERTIES KonnectSeesApplied Converges LastValidServed
