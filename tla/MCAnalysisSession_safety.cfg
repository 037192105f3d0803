CONSTANTS
  a1 = a1
  a2 = a2
  Analyses = {a1, a2}
  NumNodes = 3
  Workers = 1
  Faults = {"audit", "upload", "snapshot", "unlink", "restart"}
SPECIFICATION FairSpec
INVARIANTS
  TypeOK
  ReportBeforeCompleted
  ClientHasKubeconfig
  PipelineOrder
  FailureExplained
  OutcomeMatchesDisk
  KubeconfigDeleted
PROPERTIES
  ContractSpec
  EveryAcceptedRunEnds
CHECK_DEADLOCK FALSE
