CONSTANTS
  a1 = a1
  Analyses = {a1}
  NumNodes = 2
  Workers = 1
  Faults = {"audit", "upload", "snapshot", "unlink", "restart"}
  MaxDrops = 2
SPECIFICATION FairPageSpec
INVARIANTS
  PageTypeOK
  ReportReadyWhenTold
  AskedOnce
  PageTellsTheTruth
PROPERTIES
  OutcomeIsFinal
  PageConcludes
  CompletedReachesPage
CHECK_DEADLOCK FALSE
