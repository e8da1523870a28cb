\* All connections are lent, the memory runs short, one is forgotten when it is back.
CONSTANTS
  ConfiguredBudget = 3
  Connections = 1
  MinConnections = 1
  MaxConnections = 2
  MaxSlots = 2
  MaxOthers = 4
  ScalingUpdates = {}
  AvailableMb = {128, 2048}
SPECIFICATION BudgetSpec
INVARIANT CeilingKept
\* Programs end.
CHECK_DEADLOCK FALSE
