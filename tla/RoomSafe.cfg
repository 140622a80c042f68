SPECIFICATION Spec
CONSTANTS
  orgB = orgB
  Peer = {orgB}
  Side = {home, peer}
  MaxConn = 2
  Local = {a}
  Foreign = {f}
  PeerOf <- MCPeerOf
  Operator = Operator
  Id = {m}
  Call = {c1, c2}
  None = None
  MaxMembers = 2
  MaxSeq = 1
  MaxLives = 1
  MaxFaults = 1
SYMMETRY RoomSymmetry
CHECK_DEADLOCK FALSE
INVARIANTS TypeOK ConsentedDelivery FanOutAccounted RowMeansRoom Bilateral
