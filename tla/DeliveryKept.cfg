SPECIFICATION StorageSpec
CONSTANTS
  Reports = {r1, r2}
  Workers = {w1}
  NoReport = NoReport
  QueueMax = 1
  MaxRetries = 2
  InsertTries = 2
  StoreFaults <- LockedOnly
  BadMessages = FALSE
  DumpFaults = FALSE
  MaxCrashes = 1
  MaxStops = 0
  insert1 = insert1
  insert2 = insert2
  Connections = {k1, k2, k3, k4}
  MaxFaults = 2
  Null = Null
INVARIANT AckIsDurable
INVARIANT NothingLost
PROPERTY LedgerSpec
INVARIANT AloneIsKept
INVARIANT RecordingRecovers
PROPERTY ReportsSettle
PROPERTY EveryInsertEnds
