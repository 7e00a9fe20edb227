SPECIFICATION FairSpec
CONSTANTS
  Slices = {s1, s2}
  Addrs = {a1, a2}
  s1 = s1
  s2 = s2
  a1 = a1
  a2 = a2
  InitialSlices <- MCInitialSlices
  Absent = Absent
  None = None
  MaxSliceChanges = 2
  MaxFlips = 1
  MaxParseErrors = 1
INVARIANT ClientsMatchDiscovery
PROPERTIES ClientsConverge ImplementsGatewayClients
