\* Two connections, two messages, drain loops of two rounds.
SPECIFICATION Spec
CONSTANTS
  Rounds = 2
  MAXCONN = 2
  MAXMSG = 2
INVARIANTS HearsController TransfersOwned OneReceiver
PROPERTIES UnplugEnds CommandsRun
CHECK_DEADLOCK FALSE
