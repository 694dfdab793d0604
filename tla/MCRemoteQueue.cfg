CONSTANTS
  Capacity = 2
  ChainWithin = 2
  Timelines <- MCTimelines
  KeepRoutine <- MCKeepRoutine
  KeepAfter = 2
  Gaps = {1, 3}
  MaxLag = 3
  MaxIds = 5
SPECIFICATION FairSpec
INVARIANTS TypeOK KeepaliveYields
PROPERTIES HeldLongEnough ImplementsLedger
