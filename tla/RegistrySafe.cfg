SPECIFICATION Spec
CONSTANTS
  o1 = o1
  stub = stub
  clem = clem
  a1 = a1
  s1 = s1
  s2 = s2
  p2 = p2
  Org = {o1}
  Name = {stub, clem, a1}
  AutoNames = {a1}
  Labels = {clem, stub}
  Claims = {stub}
  Session = {s1, s2}
  Pane = {p2}
  Token = {t1, t2}
  Conn = {c1, c2}
  Frames <- MCFrames
  Saves = {TRUE, FALSE}
  None = None
  MaxFaults = 1
SYMMETRY ConnSymmetry
INVARIANTS TypeOK IdentitiesApart LiveIsRouted RouteIsLive
PROPERTIES ClaimsAuthoritative
