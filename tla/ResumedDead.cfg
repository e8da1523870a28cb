\* A resumed download whose scaler stops a worker that prefetched.
CONSTANTS
  Connections = {c1, c2}
  Unassigned = Unassigned
  Total = 2
  MB = 1
  BorrowLimit = 1
  AdaptiveSteals = {0}
  TailPercent = 75
  Seeds <- UnitSeeds
  Chunks = {1}
  Initial = {c1, c2}
  MinConnections = 1
  QueueCap = 1
  MaxRetries = 1
  Features = {"prefetch", "scale_down", "resume"}
  MaxFaults = 0
  MaxPauses = 1
SPECIFICATION FairSpec
PROPERTIES ResumedCompletes
\* A finished (or paused) download stops.
CHECK_DEADLOCK FALSE
