SPECIFICATION Spec
CONSTANTS
  n1 = n1
  n2 = n2
  n3 = n3
  k1 = k1
  k2 = k2
  Names <- NamesDef
  Kinds <- KindsDef
  MaxChanges = 2
SYMMETRY Symmetry
INVARIANTS
  StableNodesPlannedOnce
  ScanIsCompleteOrMissed
CHECK_DEADLOCK FALSE
