SPECIFICATION Spec
CONSTANTS
  Msg = {1}
  Local = {}
  Slot = {x1, x2}
  Capacity = 1
  Burst = 1
  TTL = 2
  MaxTries = 1
  Wait <- MCWait
  Default = TRUE
  MaxFaults = 3
SYMMETRY SlotSymmetry
INVARIANTS TypeOK CommittedIsQueued
PROPERTIES BouncedNotSent DeadNotSent
