SPECIFICATION FairSpec
CONSTANTS
  Hour = 2
  Limit = 1
  Event = {e1}
  ToRoom = {e1}
  Conversation = {}
  Run = {r1}
  Via = {"herdr"}
  Delay <- MCDelay
  ReplyRetry = 1
  MaxAttempts = 1
  MaxDelay = 2
  MaxFaults = 2
  None = None
PROPERTIES ReplyIsPosted EventIsQueued
