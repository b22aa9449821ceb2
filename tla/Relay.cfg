CONSTANTS
  Bots = {b1, b2}
  MaxPerBot = 2
  MaxArrivals = 3
  MaxStreams = 3
  MaxSessionPerBot = 1
  MaxActivities = 2
  MaxReplies = 1
  MaxCalls = 3
  MaxFaults = 2
  MaxBackoff = 1
SPECIFICATION RelaySpec
INVARIANTS Accounted StreamsRight InOrderOnce
PROPERTIES ImplementsMailbox Settles
CHECK_DEADLOCK FALSE
