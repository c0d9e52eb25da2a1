SPECIFICATION FairSpec
CONSTANTS
  es = es  esNext = esNext  sm = sm  ss = ss  t1 = t1  t2 = t2
  Instruments = {es, esNext}
  Underlying <- MCUnderlying
  Strategies = {sm, ss}
  Executes <- MCExecutes
  Adopters = {sm, ss}
  MultiLot = {sm}
  Trades = {t1, t2}
  NoTrade = NoTrade
  Submissions <- MCSubmissions
  Configurations <- Unconfigured
  NoSubmission = NoSubmission
  Protected = {sm}
  Watched = {es}
  Foreign <- MCForeign
  MaxStarts = 2
  MaxTrades = 2
  MaxFailures = 1
INVARIANTS ReleasedFits RestartTrue OneStopPerLot
PROPERTIES ReleasedStays MappedIsTransient SeededStopsCover
CHECK_DEADLOCK FALSE
