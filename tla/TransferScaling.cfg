\* One lane: workers are added and stopped, a request or a stream fails.
CONSTANTS
  Connections = {c1, c2}
  Unassigned = Unassigned
  Total = 4
  MB = 1
  BorrowLimit = 1
  AdaptiveSteals = {0}
  TailPercent = 75
  Seeds <- SingleSeed
  Chunks = {2, 3}
  Initial = {c1, c2}
  MinConnections = 1
  QueueCap = 1
  MaxRetries = 1
  Features = {"network", "scale_up", "scale_down"}
  MaxFaults = 1
  MaxPauses = 0
SPECIFICATION FairSpec
INVARIANT CompletedIsOnDisk
PROPERTIES TableSpec Completes
\* A finished (or paused) download stops.
CHECK_DEADLOCK FALSE
