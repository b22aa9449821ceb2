CONSTANTS
  c1 = c1  t1 = t1  t2 = t2  l1 = l1  l2 = l2
  Chats = {c1}
  Tasks = {t1, t2}
  ChatOf <- MCChatOf
  MaxConcurrent = 1
  MaxRetries = 1
  Lanes = {l1, l2}
  Overlaps = {}
  NoAgent = NoAgent
SYMMETRY MCTasksAlike
SPECIFICATION Spec
INVARIANTS CapHeld WorkConserving NothingForgotten OneRunPerSlot
CHECK_DEADLOCK FALSE
