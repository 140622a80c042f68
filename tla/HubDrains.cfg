SPECIFICATION FairSpec
CONSTANTS
  Hour = 1
  Limit = 1
  Name = {1, 2}
  Pane = {p}
  Msg = {m1}
  Channel = {m1}
  CrossOrg = {m1}
  Recipients <- MCFanOut
  Declared = {}
  Inbox = {}
  Requeueable = {m1}
  Run = {r1}
  None = None
  MaxSeq = 2
  MaxAttempts = 1
  TTL = 1
  HoldBackstop = 1
  RetryDelay <- MCRetryDelay
  Batch = 2
  Legacy = FALSE
  NakCodes = {"draft_busy"}
  MaxFaults = 1
  MaxFrames = 1
INVARIANTS QueuedHasEntry
PROPERTIES EntryLeaves
