SPECIFICATION Spec
CONSTANTS
  ControlPlane <- SingleControlPlane
  WorkerNodes <- OneWorker
  Current = 3
  Target = 4
  MaxLag = 3
INVARIANT KubeletNotTooOld
