CONSTANTS
  QueueCapacity = 2
  NumIds = 3
  MaxUnacked = 2
  Frames = {1, 2}
  MaxHolds = 4
  MaxSessions = 2
SPECIFICATION FairSpec
INVARIANTS TypeOK InFlightExact DeviceNotOverrun CancelFollows IdleMeansApplied PlayedInOrder
PROPERTIES EventuallyIdle
CHECK_DEADLOCK FALSE
