SPECIFICATION Spec
CONSTANTS
  Workers = {w1, w2}
  MaxRuns = 1
  Troubles = {}
  MayCancel = FALSE
  MaxCrashes = 0
  MaxOverruns = 1
  NoWorker = NoWorker
PROPERTIES
  ExpiredWorkersOverwriteNothing
CHECK_DEADLOCK FALSE
