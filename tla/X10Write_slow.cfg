SPECIFICATION FairSpec
CONSTANTS
  OUTPTRSSIZE = 3
  DRAIN = 2
  InitFrames = 0
  Bursts = {0, 1, 2}
  Prompt = FALSE
  MAXFRAMES = 5
  MAXPACKETS = 1
INVARIANTS TypeOK IdleMeansEmpty QueueInOrder TimerArmed FrameAccounting
PROPERTIES DeliveredInOrder ImplementsFifo QueueDrains
CHECK_DEADLOCK FALSE
