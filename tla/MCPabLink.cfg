CONSTANTS
  SeqMod = 6
  Window = 3
  MaxSpan = 3
  MaxPackets = 7
SPECIFICATION FairSpec
INVARIANTS InOrderOnce NoFalseAck
PROPERTY ImplementsStream
CHECK_DEADLOCK FALSE
