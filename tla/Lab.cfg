SPECIFICATION Spec
CONSTANTS
  p1 = p1
  p2 = p2
  a1 = a1
  a2 = a2
  c1 = c1
  c2 = c2
  HeaderFields = {"number", "total"}
  Runners = {p1}
  Dataset <- MCDataset
  Kind <- MCKind
  Gold <- MCGold
  Predictions <- MCPredictions
  Thresholds <- MCThresholds
  Limits = {0, 1}
  MaxRuns = 2
  MaxJobs = 3
  MaxManifest = 2
  MaxFaults = 2
  MaxDecisions = 1
  Admins = {a1, a2}
  Changes = {c1, c2}
  Verdicts = {"model_error", "acceptable_variant"}
  MaxCandidates = 3
  MaxRequests = 4
SYMMETRY ActorSymmetry
INVARIANTS
  RunsTellTheirStory
  JobsAreNotBoughtTwice
  RecommendationsAreFounded
PROPERTIES
  VerdictsStand
CHECK_DEADLOCK FALSE
