CONSTANTS
  Capacity = 2
  MaxCalls = 3
  MaxConns = 3
SPECIFICATION FairSpec
INVARIANTS TypeOK TakenOnceInOrder NeutralFinal IdleMeansApplied InferredOnlyIfLost
PROPERTY EventuallyIdle
CHECK_DEADLOCK FALSE
