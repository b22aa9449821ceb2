CONSTANTS
  Edits = {e1}
  Ring = 5
  MaxTokens = 2
  MaxCrashes = 0
  Torn = Torn
  None = None
SPECIFICATION Spec
INVARIANT TokenKept
CHECK_DEADLOCK FALSE
