CONSTANTS
  MaxMessages = 3
  Runs = {r1, r2, r3}
  MaxRetries = 1
  Worlds <- MCWorlds
  NoRun = NoRun
  Channels = {"native", "edits"}
  MaxQueries = 2
  MaxOutputs = 2
  MaxPiped = 2
  MaxFaults = 2
SPECIFICATION TurnsSpec
INVARIANTS   FinalOnce FollowUpKept
PROPERTIES  NeverOverwritten
CHECK_DEADLOCK FALSE
