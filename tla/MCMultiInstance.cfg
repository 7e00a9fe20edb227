CONSTANTS
  IDs = {i1, i2}
  Handles = {h1, h2, h3}
  Gors = {g1, g2}
  Configs = {c1}
  QueueSize = 1
  None = None
SPECIFICATION Spec
INVARIANTS TypeOK RunOnce OneUnstoppedPerID ValidatorMatchesInstance DiagnosticsServeRunning NeverForgotten
SYMMETRY Symmetry
CHECK_DEADLOCK FALSE
