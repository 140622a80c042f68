SPECIFICATION Spec
CONSTANTS
  Place = {h, i}
  Code = {c, d}
  Flow = {f}
  Req = {r, s}
  None = None
  MaxTokens = 2
  MaxFaults = 1
SYMMETRY EnrollSymmetry
CHECK_DEADLOCK FALSE
INVARIANTS TypeOK SingleUse GrantsApproved CodesAccounted RevokedIsGone
