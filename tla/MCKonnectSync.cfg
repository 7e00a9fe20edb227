SPECIFICATION FairSpec
CONSTANTS
  Contents = {c1, c2}
  InitialContent = c1
  Torn = Torn
  None = None
  MaxChanges = 3
  MaxInFlight = 1
  MaxUpdateFailures = 1
  MaxUploadFailures = 1
INVARIANT SHATellsTruth
CHECK_DEADLOCK FALSE
PROPERTIES KonnectConverges StatusConverges
