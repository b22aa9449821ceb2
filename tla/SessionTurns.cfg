CONSTANTS
  MaxRows = 2
  Arrivals <- MCArrivals
  MaxPrompt = 1
  MaxTries = 1
  Ceiling = TRUE
  MaxEvents = 1
  MaxStops = 1

SPECIFICATION FairSpec
INVARIANTS WorkIsClaimed OneCarrier
PROPERTIES DoneStaysDone EventuallySettled
