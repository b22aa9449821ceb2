CONSTANTS
  Edits = {e1, e2}
  Ring = 5
  MaxTokens = 2
  MaxCrashes = 2
  Torn = Torn
  None = None
  Agents = {a1, a2}
  MaxBoots = 2
  Hosts = {h1, h2, h3, h4}
  FailureThreshold = 3
  MaxFaults = 2
  MaxStarts = 2
  NServers = 2
  MaxIssues <- MCIssues
  MaxChanges = 1
SPECIFICATION UpkeepSpec
INVARIANTS NothingLost StopLeavesNone OwnerAsked
PROPERTIES TunnelRecovers HeadersCurrent 
CHECK_DEADLOCK FALSE
