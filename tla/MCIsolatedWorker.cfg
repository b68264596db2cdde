SPECIFICATION FairWorkerSpec
CONSTANTS
  Descendants = {d1, d2, d3}
  Saves = TRUE
  Caches = TRUE
  NotRunning = NotRunning
INVARIANTS
  CompletedMeansSucceeded
  WorkerGone
  SurvivorsHadOwnExit
PROPERTY ReturnsUnlessHeld
CHECK_DEADLOCK FALSE
