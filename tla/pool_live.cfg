SPECIFICATION FairSpec
CONSTANTS
  Stocks = {s1}
  Monitored = {s1}
  HasTopics = {}
  Tickers = {loop, request}
  Loop = loop
  NoTicker = NoTicker
  MaxDay = 1
  MaxMoves = 2
  MaxFaults = 1
  OperatorCalls = FALSE
  LLMEnabled = TRUE
PROPERTIES
  PoolsConverge
CHECK_DEADLOCK FALSE
