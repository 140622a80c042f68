SPECIFICATION Spec
CONSTANTS
  orgB = orgB
  Peer = {orgB}
  Side = {home, peer}
  MaxConn = 1
  Local = {a}
  Foreign = {f}
  PeerOf <- MCPeerOf
  Operator = Operator
  Id = {m, n}
  Call = {c1, c2}
  None = None
  MaxMembers = 1
  MaxSeq = 2
  MaxLives = 1
  MaxFaults = 1
SYMMETRY RoomSymmetry
CHECK_DEADLOCK FALSE
INVARIANTS LedgerIsLog MembersBounded
PROPERTIES LogRefined
