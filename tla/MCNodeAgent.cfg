SPECIFICATION FairSpec
CONSTANTS
  Addrs = {a1}
  a1 = a1
  KIC = KIC
  OtherKIC = OtherKIC
  None = None
  Statuses = {OK, Failed}
  OK = OK
  OldNodes <- MCOldNodes
  MaxClientChanges = 2
  MaxStatusChanges = 1
  MaxFailures = 1
INVARIANT SubscriberSeesChange
PROPERTY NodesConverge
CHECK_DEADLOCK FALSE
