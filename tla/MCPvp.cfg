SPECIFICATION Spec
CONSTANTS
  p1 = p1
  p2 = p2
  ana = ana
  bia = bia
  NoProc = NoProc
  NoRow = NoRow
  Proc = {p1, p2}
  Char = {ana, bia}
  Power <- MCPower
  PowerRange = 10
  Immune = {}
  NilCost = 1
  WinnerGain = 2
  MaxMoral = 3
  DefeatCap = 1
  GriefLimit = 1
  LootShare = 2
  GrieferShare = 2
  Seed = 2
  ItemPrice = 2
  InitMoral <- MCMoral
  InitNil <- MCNil
  InitBalance <- MCBalance
  MaxFights = 2
SYMMETRY Symmetry
INVARIANTS TypeOK BooksBalance LimitsHold
PROPERTY ApagadoNotFarmed
