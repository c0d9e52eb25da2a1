SPECIFICATION Spec
CONSTANTS
  s1 = s1  t1 = t1  t2 = t2
  Strategies = {s1}
  TradeIds = {t1}
  NoTrade = NoTrade
  NoLot = NoLot
  MultiPosition = {s1}
  Protected = {s1}
  SessionOnly = {}
  EntryLots = {}
  EntrySides = {1}
  AdoptedLot <- TradeLot
  AdoptedQty = 1
  OrderQty = 2
  MaxPositions = 1
  MaxOrders = 2
  MaxQueue = 1
  MaxLevel = 2
  Concurrent = TRUE
INVARIANTS PendingCloseReleased
