SPECIFICATION FairSpec
CONSTANTS
  Workers = {w1, w2}
  MaxRuns = 1
  Troubles = {"transient", "internal"}
  MayCancel = TRUE
  MaxCrashes = 1
  MaxOverruns = 1
  NoWorker = NoWorker
INVARIANTS
  ReadyRunsHaveDrafts
PROPERTIES
  CancelledRunsGetNoDraft
  RunsAreDecided
CHECK_DEADLOCK FALSE
