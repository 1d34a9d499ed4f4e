\* One tab with two calls, two tabs with one each, two guarded requests that
\* overlap, and two that do not.
CONSTANTS
  t1 = t1
  t2 = t2
  a1 = a1
  a2 = a2
  b1 = b1
  Tab = {t1, t2}
  Call = {a1, a2, b1}
  TabOf <- MCTabOf
  MaxPairs = 2
  Proc = {p1, p2}
  Max = 1
  Threshold = 2
  HistoryMax = 1
  Parts = {"tab", "tabs", "gate"}
SPECIFICATION MCFairSpec
INVARIANTS
  OnlineTypeOK
  TokensHold
  GateHolds
PROPERTIES
  CallsSettle
