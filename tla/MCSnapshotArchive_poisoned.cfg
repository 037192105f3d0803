CONSTANTS
  a1 = a1
  a2 = a2
  Analyses = {a1, a2}
  NumNodes = 1
  Workers = 2
  Faults = {"snapshot"}
SPECIFICATION ArchiveSpec
PROPERTY SettledStaysListed
CHECK_DEADLOCK FALSE
