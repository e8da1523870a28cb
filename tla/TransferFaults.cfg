\* One lane: a fault that stops or kills a worker, failing writes, a pause.
CONSTANTS
  Connections = {c1, c2}
  Unassigned = Unassigned
  Total = 4
  MB = 1
  BorrowLimit = 1
  AdaptiveSteals = {0}
  TailPercent = 75
  Seeds <- SingleSeed
  Chunks = {2, 3}
  Initial = {c1, c2}
  MinConnections = 1
  QueueCap = 1
  MaxRetries = 1
  Features = {"network", "reduce_workers", "abort", "disk"}
  MaxFaults = 1
  MaxPauses = 1
SPECIFICATION FairSpec
PROPERTIES PauseEnds OnlyFailedWritesLoseBytes
\* A finished (or paused) download stops.
CHECK_DEADLOCK FALSE
