\* Three concurrent requests, two characters (one flatlined), one shelf that
\* can be drained and one unlimited.
CONSTANTS
  NoProc = NoProc
  NoRow = NoRow
  Proc = {p1, p2, p3}
  c1 = c1
  c2 = c2
  ampola = ampola
  pingado = pingado
  Char = {c1, c2}
  Item = {ampola, pingado}
  Amounts <- MCAmounts
  Quantity = {1, 2}
  Price <- MCPrice
  InitStock <- MCInitStock
  Catalog = {ampola}
  Apagado = {c2}
  Seed = 4
  MaxRetries = 3
SPECIFICATION MCFairSpec
INVARIANTS
  TypeOK
  AuditTrail
  SeededOnce
  EffectsExact
PROPERTIES
  ImplementsLedger
  EveryRequestAnswered
