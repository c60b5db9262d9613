SPECIFICATION Spec
CONSTANTS
  Workers = {w1, w2}
  MaxRuns = 2
  Troubles = {"transient", "permanent", "internal"}
  MayCancel = FALSE
  MaxCrashes = 1
  MaxOverruns = 0
  NoWorker = NoWorker
INVARIANTS
  TypeOK
  TaskReportsARealOutcome
  RetriesAreBounded
  OneWorkerPerRun
PROPERTIES
  ImplementsRunLifecycle
SYMMETRY Symmetry
CHECK_DEADLOCK FALSE
