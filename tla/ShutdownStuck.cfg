\* Two downloads, and a command channel without room for two stops of each.
CONSTANTS
  Downloads = {d1, d2}
  MaxConcurrent = 2
  CommandCap = 2
  EventCap = 1
SPECIFICATION ServiceSpec
PROPERTY ShutdownReaches
\* The service ends.
CHECK_DEADLOCK FALSE
