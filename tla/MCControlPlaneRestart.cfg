CONSTANTS
  IDs = {i1}
  Handles = {h1, h2}
  Gors = {g1}
  Configs = {c1}
  InvalidConfigs = {}
  FailuresHappen = TRUE
  MaxRestarts = 1
  MaxOutages = 1
  MaxEdits = 1
  QueueSize = 1
  None = None
SPECIFICATION CPFairSpec
INVARIANTS CPTypeOK NoInstanceOfGoneControlPlane
PROPERTIES DeletionCompletes StopTakesEffect
CHECK_DEADLOCK FALSE
