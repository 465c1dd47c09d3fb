SPECIFICATION FairSpec
CONSTANTS
  w1 = w1
  w2 = w2
  Workers = {w1, w2}
  MaxRuns = 2
  MaxSeconds = 1
  BackupConfigured = TRUE
  RequireProduction = TRUE
  WebhookConfigured = TRUE
INVARIANTS
  PublishedPassedGates
  ArtifactsStayOwn
  BackupIsRestorePoint
  OutcomesTruthful
  StatusMatchesRelease
PROPERTIES
  ImplementsPromise
  RunsEnd
  LockIsReleased
CHECK_DEADLOCK FALSE
