SPECIFICATION FairSpec
CONSTANTS
  OUTPTRSSIZE = 3
  DRAIN = 2
  InitFrames = 2
  Bursts = {0, 1, 2, 3}
  Prompt = TRUE
  MAXFRAMES = 7
  MAXPACKETS = 2
INVARIANTS NothingLost
PROPERTIES WaitForAck FramesArrive
CHECK_DEADLOCK FALSE
