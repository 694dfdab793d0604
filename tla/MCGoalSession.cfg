CONSTANTS
  Places = {p1, p2}
  MaxSaves = 3
SPECIFICATION FairSpec
INVARIANTS BeliefNeverNewer BeliefExact
PROPERTY CyclesRecur
