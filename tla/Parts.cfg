\* A shared budget smaller than what the downloads want, two limits that cross the
\* number of connections, memory that comes and goes; two downloads and channels so
\* small that senders wait for room; two downloads of an engine, a slot each,
\* patient clients, launches that fail by themselves.
CONSTANTS
  ConfiguredBudget = 3
  Connections = 2
  MinConnections = 1
  MaxConnections = 1
  MaxSlots = 2
  MaxOthers = 1
  ScalingUpdates <- MCUpdates
  AvailableMb = {128, 2048}
  Downloads = {d1, d2}
  MaxConcurrent = 2
  CommandCap = 3
  EventCap = 1
  Tasks = {t1, t2}
  MaxConcurrentTasks = 2
  ChannelCap = 3
  Habits = {}
  Failures = {"start", "file"}
  MaxCommands = 3
SPECIFICATION PartsSpec
INVARIANTS PartsTypeOK ReadersHoldLeases NoUpdateLost
           TypeOK OneRunPerTask TaskInOnePlace StatusIsTrue EngineStaysUp
PROPERTIES LeasesBalance SpawnsWithinLimit EndsAreReached ShutdownReaches
           PauseTakesEffect ResumeTakesEffect CancelPersists QueuedStarts
\* Programs end, and downloads.
CHECK_DEADLOCK FALSE
