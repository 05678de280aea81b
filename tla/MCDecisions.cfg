CONSTANTS
  None = None
  m1 = m1
  m2 = m2
  s1 = s1
  s2 = s2
  MaxWrites = 1
  Starts <- MCStarts
  NewScores <- MCNewScores
  NewChunks <- MCNewChunks
  NewRuns <- MCNewRuns
SPECIFICATION Spec
INVARIANTS RanksMatchReference ScoresAreSound ListsAreFaithful GateIsHonest
CHECK_DEADLOCK FALSE
