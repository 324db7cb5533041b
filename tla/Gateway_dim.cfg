\* The shortest witness: an address, a Dim, and a command for another unit.
SPECIFICATION GatewaySpec
CONSTANTS
  Houses = {1, 2}
  Units = {1, 2}
  Funcs = {0, 2, 3}
  Levels = {255}
  MAXLOG = 12
  Cm19a = FALSE
  Cmds <- MCCmds
  Asked <- MCAsked
  Heard <- MCHeard
  None = None
  DUP_MAX = 2
  DUP_TIME = 0
  INTSPAN = 16
  Start = 40
  Steps = {1}
  MAXTIME = 41
  MAXIN = 3
INVARIANT TablesKnowAfterDim
CONSTRAINTS FewElsewhere LineMatters
CHECK_DEADLOCK FALSE
