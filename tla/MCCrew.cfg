SPECIFICATION MCSpec
CONSTANTS
  p1 = p1
  p2 = p2
  ana = ana
  bia = bia
  caio = caio
  k1 = k1
  k2 = k2
  north = north
  south = south
  NoProc = NoProc
  NoRow = NoRow
  None = None
  Proc = {p1, p2}
  Char = {ana, bia, caio}
  CrewId = {k1, k2}
  Name = {n1, n2}
  n1 = n1
  n2 = n2
  District = {north, south}
  Origin <- MCOrigin
  Cap = 2
  Cost = 1
  InitBalance <- MCBalance
  MaxInvites = 2
SYMMETRY Symmetry
INVARIANTS TypeOK CrewsConsistent SoloMembership
