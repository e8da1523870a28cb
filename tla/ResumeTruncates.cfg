\* A paused download is resumed and completes.
CONSTANTS
  Connections = {c1, c2}
  Unassigned = Unassigned
  Total = 4
  MB = 1
  BorrowLimit = 1
  AdaptiveSteals = {0}
  TailPercent = 75
  Seeds <- SingleSeed
  Chunks = {2}
  Initial = {c1, c2}
  MinConnections = 1
  QueueCap = 1
  MaxRetries = 1
  Features = {"resume"}
  MaxFaults = 0
  MaxPauses = 1
SPECIFICATION Spec
SYMMETRY Symmetry
INVARIANTS CompletedIsOnDisk
\* A finished (or paused) download stops.
CHECK_DEADLOCK FALSE
