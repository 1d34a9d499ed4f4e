\* Three rounds: one request at a time over some days, and three at once.
CONSTANTS
  NoProc = NoProc
  NoRow = NoRow
  cron = cron
  admin = admin
  player = player
  Proc = {cron, admin, player}
  Top = 4
  Thresholds = {0, 1, 4}
  Grace = 1
  Rate = 1
  GigMoral = 3
  Payout = 1
  MaxRounds = 3
  MaxDay = 3
  MaxLost = 1
  SoloPlayed = 2
  BusyPlayed = 2
  Modes = {"solo", "busy", "fair"}
SPECIFICATION MCFairSpec
INVARIANTS
  TypeOK
  RoundsHold
  WalletsStartOver
  SoloRecords
PROPERTIES
  FairRoundsEnd
