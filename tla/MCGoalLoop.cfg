CONSTANTS
  Intents = {go, beat}
  Walks = {go}
  Reasons = {nopath, lost, notsaved}
  NoPath = nopath
  NotSaved = notsaved
  None = none
  MaxReplans = 1
  MaxRejudges = 1
  MaxRecourses = 1
  RecoursesPerStall = 1
  Stones = 1
  SaveGame = TRUE
  MaxSteps = 2
SPECIFICATION Spec
INVARIANTS EndSaved WhiteoutGoneOn
PROPERTIES PlansBounded EveryRunEnds InfeasibleEarned
CHECK_DEADLOCK FALSE
