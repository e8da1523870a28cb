\* Tables of all three modes for every small size and number of connections; two
\* lanes that end inside a megabyte and three connections; more origins than the
\* memory holds, and a small store half its size; two pages.
CONSTANTS
  MegaByte = 4
  Block = 8
  SeedFloor = 5
  Totals <- AllTotals
  MaxConnections = 4
  MaxWeight = 3
  Modes = {"FibAdaptive", "Equal", "Fib"}
  Connections = {c1, c2, c3}
  Unassigned = Unassigned
  Total = 13
  MB = 2
  BorrowLimit = 2
  AdaptiveSteals = {0, 3}
  TailPercent = 70
  Seeds <- EqualSeeds
  Chunks = {3}
  Origins = {o1, o2, o3}
  OriginMemoryCapacity = 2
  OriginPhiRatioCapacity = 1
  MaxTick = 3
  Captures <- MCCaptures
  Group <- MCGroup
  SegmentUrls = {"u2"}
  Found = {"Mp4"}
  MaxStreams = 2
  MaxProbes = 2
  MaxTasks = 1
SPECIFICATION TablesSpec
SYMMETRY Symmetry
INVARIANTS TablesTypeOK SeedsCoverFile ConnectionsAreFed
           TypeOK EveryByteInOneRange CursorInsideRange StatusMatchesOwner
           NothingLeftBehind ProgressIsExact MarkedByLastByte
           TicksTellApart ProbingIsProbed
PROPERTIES FinishedIsFinal LedgerSpec ImplementsRecencyList
\* A table of ranges is built once, a download fetched once.
CHECK_DEADLOCK FALSE
