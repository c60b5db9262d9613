SPECIFICATION Spec
CONSTANTS
  Workers = {w1}
  MaxRuns = 1
  Troubles = {"transient"}
  MayCancel = FALSE
  MaxCrashes = 0
  MaxOverruns = 0
  NoWorker = NoWorker
INVARIANTS
  RetryableErrorsAreRetried
CHECK_DEADLOCK FALSE
