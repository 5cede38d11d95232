SPECIFICATION ServiceSpec
CONSTANTS
  Starts = {s1, s2, s3}
  NoFile = NoFile
  client = client
  server = server
  Order <- ClientThenServer
  MaxRestarts = 3
  BackoffBase = 1
  BackoffMax = 4
  Never = Never
  Producers = {p1, p2}
  PoolSize = 2
  QueueMax = 1
  MaxPools = 2
  TcpPorts = {21, 80}
  UdpPorts = {161, 5060}
  Rows = {r1, r2}
  Processes = {a1, a2}
  Ranges = {day, hour}
  Default = day
  Scopes = {ip}
  Searches = {method}
  Filters = {{}, {ip, method}}
  Viewers = {v1}
  StaleServe = 0
  MaxCaptured = 1
  MaxFailures = 1
  Miss = Miss
INVARIANT ServiceTypeOK
INVARIANT OneActive
INVARIANT OwnFile
INVARIANT OutageBounded
INVARIANT NoChildLeft
INVARIANT OnePool
INVARIANT DrainedByExit
INVARIANT RowsSurvive
INVARIANT FragmentAsAsked
INVARIANT WarmAtOpen
PROPERTY GivesUpAfterFullOutage
PROPERTY DeadIsRestarted
PROPERTY ShutdownReturns
PROPERTY MainReturns
PROPERTY PageCatchesUp
