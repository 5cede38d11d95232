CONSTANTS
  MaxRounds = 3
  MaxChunks = 2
  first1 = first1
  second1 = second1
  other = other
  Routes = {1, 2}
  MaxProfiles = 1
  MaxServed = 2
  None = None
  MaxHistory = 2
  MaxDialogue = 2
  MaxCalls = 5
  Ips = {"a", "b", "c"}
  Skipped = {"c"}
  CacheMax = 1
  Ttl = 1
  Delay = 1
  MaxStops = 1
  PoolSize = 1
  MaxPools = 3
SPECIFICATION SensorSpec
INVARIANT AnswerIsReported
