SPECIFICATION EngineSpec
CONSTANTS
  i1 = i1  i2 = i2
  Intents = {i1, i2}
  NoIntent = NoIntent
  NeedsApproval = {i1}
  MaxDecisions = 4
  MaxEmits = 4
  Faults = {"broker_disconnected", "stale_market_data"}
  Reconnect = TRUE
  MaxTrades = 1
  DayLength = 4
  Window = 2
  Lookback = 4
  FlushSize = 2
  Starts <- MCStarts
  Horizon = 7
  Corpora <- MCCorpora
  Start = 4
  Trades = 2
  MaxOpen = 2
  Histories <- MCHistories
  Firsts <- MCStarts
  Final = 15
  Workers = 2
  WarmBars = 1
  Healths <- MCHealths
  FailureThreshold = 2
  ExpectRunning = TRUE
  ExpectConnected = TRUE
  Unreachable = Unreachable
  NoAnswer = NoAnswer
INVARIANTS OneOrderPerApproval BlockLostOnlyToHealth MinuteWhole CopiesAgree
  ViewsPure SkipSafe LotsOpenOrFlat ChunksAsWhole AlertsTold
PROPERTIES LastWordCounts ApprovalReachesDrain ReconciliationLiftsOwn TroubleBlocks
  CalmUnblocks StoreImplements OutageTold
CHECK_DEADLOCK FALSE
