SPECIFICATION FairSpec
CONSTANTS
  ControlPlane <- ControlPlaneDef
  WorkerNodes <- WorkersDef
  Current = 3
  Target = 6
  MaxLag = 3
INVARIANTS
  ApiSkew
  KubeletSkew
  CommandsAccepted
PROPERTIES
  WorkersUpgradeDrained
  PlanCompletes
