CONSTANTS
  ConfirmFrames = 2
  Timeout = 2
  MaxCommands = 2
  MaxQueue = 2
  MaxStalls = 1
  Browsers = {b1, b2}
  HoldFrames = 2
  MaxSequence = 2
  MaxCrashes = 1
SPECIFICATION Spec
INVARIANTS TypeOK BotSilent OneHand StopSurvives
PROPERTIES ConfirmedShown NeverSuspended ResumeOffered
CHECK_DEADLOCK FALSE
