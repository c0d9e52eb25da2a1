SPECIFICATION Spec
CONSTANTS
  s1 = s1  t1 = t1  t2 = t2
  Strategies = {s1}
  TradeIds = {t1}
  NoTrade = NoTrade
  NoLot = NoLot
  MultiPosition = {}
  Protected = {s1}
  SessionOnly = {}
  EntryLots <- NoTradeLot
  EntrySides = {1}
  AdoptedLot = NoLot
  AdoptedQty = 0
  OrderQty = 2
  MaxPositions = 1
  MaxOrders = 3
  MaxQueue = 1
  MaxLevel = 2
  Concurrent = TRUE
INVARIANTS OneOpenPosition
