SPECIFICATION MCSpec
CONSTANTS
  SlugOf <- SlugOfDef
  Begins <- BeginsDef
  Score <- ScoreDef
  Resources <- ResourcesDef
  ApiOf <- ApiOfDef
  Current <- CurrentDef
  Targets <- TargetsDef
  Libraries <- LibrariesDef
  Clusters <- ClustersDef
INVARIANTS
  SummaryIsFirstWorst
  RemovedLiveObjectBlocks
  NoVerdictWithoutEvidence
  CompatEvidenceIsUsed
  ApiEvidenceIsUsed
  InstalledSoftwareIsJudged
  RisksReachTheirPhase
CHECK_DEADLOCK FALSE
