SPECIFICATION Spec
CONSTANTS
  Reports = {r1}
  Workers = {w1}
  NoReport = NoReport
  QueueMax = 1
  MaxRetries = 2
  InsertTries = 2
  StoreFaults <- KeptFaults
  BadMessages = FALSE
  DumpFaults = FALSE
  MaxCrashes = 1
  MaxStops = 0
INVARIANT RestartLosesNothing
