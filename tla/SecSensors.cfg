\* Four addresses, one of them above eight bits, for a table that keeps two; an
\* alert, one of a sensor whose cover is off, and a normal event.
SPECIFICATION Spec
CONSTANTS
  SIZE = 3
  Addrs = {3, 7, 9, 4659}
  Funcs = {4, 68, 132}
  MAXEVENTS = 4
INVARIANTS OneEntryEach TableFollowsEvents AlarmsAreCurrent
CHECK_DEADLOCK FALSE
