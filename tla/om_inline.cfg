SPECIFICATION Spec
CONSTANTS
  s1 = s1  t1 = t1  t2 = t2
  Strategies = {s1}
  TradeIds = {t1, t2}
  NoTrade = NoTrade
  NoLot = NoLot
  MultiPosition = {s1}
  Protected = {s1}
  SessionOnly = {}
  EntryLots <- TwoTrades
  EntrySides = {1}
  AdoptedLot = NoLot
  AdoptedQty = 0
  OrderQty = 2
  MaxPositions = 2
  MaxOrders = 3
  MaxQueue = 1
  MaxLevel = 2
  Concurrent = FALSE
INVARIANTS PendingCloseReleased
PROPERTIES CloseWithinLot
