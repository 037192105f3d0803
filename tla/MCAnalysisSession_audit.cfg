CONSTANTS
  a1 = a1
  Analyses = {a1}
  NumNodes = 1
  Workers = 1
  Faults = {"audit"}
SPECIFICATION Spec
INVARIANT KubeconfigOwned
CHECK_DEADLOCK FALSE
