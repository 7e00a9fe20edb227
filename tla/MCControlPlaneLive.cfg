CONSTANTS
  IDs = {i1}
  Handles = {h1}
  Gors = {g1}
  Configs = {c1, c2, c3}
  InvalidConfigs = {c3}
  FailuresHappen = FALSE
  MaxRestarts = 0
  MaxOutages = 0
  MaxEdits = 2
  QueueSize = 1
  None = None
SPECIFICATION CPReadySpec
PROPERTIES NotReadyForOtherSpec OutdatedInstanceReplaced
CHECK_DEADLOCK FALSE
