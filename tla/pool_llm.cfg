SPECIFICATION FairSpec
CONSTANTS
  Stocks = {s1, s2}
  Monitored = {s1, s2}
  HasTopics = {}
  Tickers = {loop}
  Loop = loop
  NoTicker = NoTicker
  MaxDay = 1
  MaxMoves = 0
  MaxFaults = 1
  OperatorCalls = TRUE
  LLMEnabled = TRUE
PROPERTIES
  LLMResultsUsed
CHECK_DEADLOCK FALSE
