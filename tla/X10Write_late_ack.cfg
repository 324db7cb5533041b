\* A controller that may answer late, not at all, or with another byte.
SPECIFICATION FairSpec
CONSTANTS
  OUTPTRSSIZE = 3
  DRAIN = 2
  InitFrames = 0
  Bursts = {0, 1, 2}
  Prompt = FALSE
  MAXFRAMES = 4
  MAXPACKETS = 0
PROPERTY WaitForAck
CHECK_DEADLOCK FALSE
