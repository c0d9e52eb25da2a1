SPECIFICATION AdapterSpec
CONSTANTS
  c1 = c1  c2 = c2
  Callers = {c1, c2}
  None = None
  MaxOrders = 2
  MaxChanges = 1
  MaxUpdates = 2
  MaxErrors = 1
  Requests = 3
  Items = 1
  o1 = o1  o2 = o2
  Orders = {o1, o2}
  Asks = 3
  Ticks = 3
  Subscriptions = 3
INVARIANTS EachUpdateOnce CancelledIsTrue WholeAnswers OpenOrdersInStep BarsOnce
PROPERTIES KeepsPromise CallsReturn AnsweredReturns
CHECK_DEADLOCK FALSE
