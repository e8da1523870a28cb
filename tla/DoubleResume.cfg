\* A pause, then resume twice.
CONSTANTS
  Tasks = {t1}
  MaxConcurrentTasks = 1
  ChannelCap = 3
  Habits = {"double_resume"}
  Failures = {}
  MaxCommands = 3
SPECIFICATION FairSpec
PROPERTIES ResumeTakesEffect
\* Once every download is over, nothing is left to do.
CHECK_DEADLOCK FALSE
