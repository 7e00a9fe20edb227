SPECIFICATION FairSpec
CONSTANTS
  UIDs = {u1}
  KIDs = {k1, k2, k3}
  None = None
  Kinds <- OnlyRecreated
  MaxLag = 0
  MaxFailures = 1
  MaxLost = 1
  MaxRestarts = 1
  MaxExternal = 1
  MaxParents = 1
PROPERTIES DeletionCompletes EntityRealised
