CONSTANTS
  Slack = 0
  MaxFrames = 2
  MaxConns = 2
  MaxAttach = 1
SPECIFICATION Spec
INVARIANT TypeOK
PROPERTIES Lockstep NeverWaitsForEver DropEnds Reunited
CHECK_DEADLOCK FALSE
