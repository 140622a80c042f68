SPECIFICATION Spec
CONSTANTS
  Hour = 1
  Limit = 1
  Name = {1, 2}
  Pane = {p}
  Msg = {m1}
  Channel = {}
  CrossOrg = {m1}
  Recipients <- MCOneRecipient
  Declared = {}
  Inbox = {1}
  Requeueable = {}
  Run = {r1, r2}
  None = None
  MaxSeq = 1
  MaxAttempts = 2
  TTL = 2
  HoldBackstop = 1
  RetryDelay <- MCRetryDelay
  Batch = 2
  Legacy = TRUE
  NakCodes = {"dead", "retry"}
  MaxFaults = 1
  MaxFrames = 1
SYMMETRY RunSymmetry
INVARIANTS TypeOK EntryHasMarker WakeupArmed
PROPERTIES SendsAreSpaced CancelledNotSent
