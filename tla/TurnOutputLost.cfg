CONSTANTS
  Channels = {"native"}
  MaxQueries = 1
  MaxOutputs = 1
  MaxMessages = 1
  MaxFaults = 2
SPECIFICATION Spec
INVARIANT InitialKept
CHECK_DEADLOCK FALSE
