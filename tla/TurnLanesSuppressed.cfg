CONSTANTS
  SendTimeout = 2
  Pace = 1
  DrainWait = 4
  MaxTexts = 3
  MaxChanges = 3
  MaxDrafts = 1
  MaxDeltas = 4
  MaxQueries = 2
  MaxFaults = 1
SPECIFICATION LanesSpec
PROPERTY SuppressedThisTurn
CHECK_DEADLOCK FALSE
