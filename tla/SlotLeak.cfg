\* Two downloads, one slot: the second waits for the first to complete.
CONSTANTS
  Tasks = {t1, t2}
  MaxConcurrentTasks = 1
  ChannelCap = 3
  Habits = {}
  Failures = {}
  MaxCommands = 0
SPECIFICATION EndingSpec
PROPERTIES QueuedStarts
\* Once every download is over, nothing is left to do.
CHECK_DEADLOCK FALSE
