CONSTANTS
  c1 = c1  t1 = t1  t2 = t2  l1 = l1  l2 = l2
  Chats = {c1}
  Tasks = {t1}
  ChatOf <- MCChatOf
  MaxConcurrent = 1
  MaxRetries = 0
  Lanes = {l1, l2}
  Overlaps = {"exit"}
  NoAgent = NoAgent
SPECIFICATION Spec
INVARIANT SlotAccounting
CHECK_DEADLOCK FALSE
