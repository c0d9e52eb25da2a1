SPECIFICATION ReplaySpec
CONSTANTS
  DayLength = 4
  Window = 2
  Lookback = 4
  FlushSize = 2
  Corpora <- MCCorpora
  Start = 4
  Trades = 3
  MaxOpen = 2
INVARIANTS NoFutureLeakage
CHECK_DEADLOCK FALSE
