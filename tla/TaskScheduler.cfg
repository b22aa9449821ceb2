CONSTANTS
  Tasks = {t1, s1}
  SystemTasks = {s1}
  Legacy = {t1}
  Periods = {1, 2}
  MaxMissing = 2
  MaxTime = 4
  MaxMoves = 4
SPECIFICATION FairSpec
INVARIANTS RunsOnce StreakTrue NoDrift
PROPERTIES DueServed
CHECK_DEADLOCK FALSE
