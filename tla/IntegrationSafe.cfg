SPECIFICATION Spec
CONSTANTS
  Hour = 1
  Limit = 1
  Event = {e1}
  ToRoom = {}
  Conversation = {e1}
  Run = {r1, r2}
  Via = {"adapter"}
  Delay <- MCDelay
  ReplyRetry = 1
  MaxAttempts = 1
  MaxDelay = 2
  MaxFaults = 1
  None = None
SYMMETRY RunSymmetry
INVARIANTS TypeOK ReplyOnRecord NothingForgotten
