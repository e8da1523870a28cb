\* One download, paused while it waits for a connection.
CONSTANTS
  Tasks = {t1}
  MaxConcurrentTasks = 1
  ChannelCap = 3
  Habits = {}
  Failures = {"budget"}
  MaxCommands = 3
SPECIFICATION FairSpec
PROPERTIES PauseTakesEffect
\* Once every download is over, nothing is left to do.
CHECK_DEADLOCK FALSE
