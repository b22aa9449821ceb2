SPECIFICATION Spec
CONSTANTS
  NFolders = 2
  Default = 2
  MaxRequests = 2
  MaxFaults = 2
INVARIANTS HandledOnce
PROPERTIES InOrder EventuallyClean
