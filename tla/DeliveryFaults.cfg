SPECIFICATION Spec
CONSTANTS
  Reports = {r1, r2}
  Workers = {w1, w2}
  NoReport = NoReport
  QueueMax = 1
  MaxRetries = 2
  InsertTries = 1
  StoreFaults <- AnyStoreFault
  BadMessages = TRUE
  DumpFaults = TRUE
  MaxCrashes = 1
  MaxStops = 1
SYMMETRY Symmetry
INVARIANT TypeOK
INVARIANT OnePlace
INVARIANT AtMostOneRow
