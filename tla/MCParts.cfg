\* The parts that stand alone.
SPECIFICATION MCSpec
CONSTANTS
  w = w
  m = m
  nobody = nobody
  off = off
  Parts = {"boot", "nil", "ability", "os", "rules", "forge", "deploy", "backup", "chat", "clinic", "params", "pages",
           "city", "board", "clock", "metro", "screen", "readouts", "actions", "roster", "blackout", "econ"}
  p1 = p1
  p2 = p2
  bicho = bicho
  despachante = despachante
  NoProc = NoProc
  NoRow = NoRow
  Proc = {p1, p2}
  Interval = 2
  MaxNil = 3
  InitNil = 2
  Amounts = {1, 2}
  StimNil = 2
  AttackCost = 1
  Role = {bicho, despachante}
  Duration <- MCDuration
  Cooldown <- MCCooldown
  OsDuration = 1
  OsUses = 2
  Day = 4
  MaxNow = 8
  MaxAdded = 2
SYMMETRY Symmetry
INVARIANTS TypeOK NothingFree RulesHold ForgeHolds HostsHold ChatHolds ClinicHolds PanelHolds PagesReadBack  ScreenTruthful
PROPERTY SoloHolds
CHECK_DEADLOCK FALSE
