SPECIFICATION Spec
CONSTANTS
  UIDs = {u1, u2}
  KIDs = {k1, k2, k3}
  None = None
  Kinds <- BothPut
  MaxLag = 2
  MaxFailures = 1
  MaxLost = 1
  MaxRestarts = 1
  MaxExternal = 1
  MaxParents = 0
SYMMETRY Symmetry
INVARIANTS TypeOK NoOrphan NoDuplicate
PROPERTY NeverAbandons
