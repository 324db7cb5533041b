\* A coarse clock (650 ms are 3 ticks) that runs for two windows, and one
\* command more than entries, so that entries are evicted.
SPECIFICATION Spec
CONSTANTS
  DUP_MAX = 2
  DUP_TIME = 3
  Cmds = {a, b, c}
  None = None
  INTSPAN = 16
  Start = 40
  Steps = {1}
  MAXTIME = 46
INVARIANTS OneEntryEach DroppedOnlyAsCopy
PROPERTIES CopiesFiltered
CHECK_DEADLOCK FALSE
