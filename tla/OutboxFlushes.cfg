SPECIFICATION TimelySpec
CONSTANTS
  Msg = {1, 2}
  Local = {2}
  Slot = {x1, x2}
  Capacity = 1
  Burst = 1
  TTL = 3
  MaxTries = 1
  Wait <- MCWait
  Default = TRUE
  MaxFaults = 2
PROPERTIES SpooledIsFlushed SpoolDrains
