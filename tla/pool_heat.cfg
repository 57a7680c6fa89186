SPECIFICATION Spec
CONSTANTS
  Stocks = {s1, s2}
  Monitored = {s1, s2}
  HasTopics = {s1}
  Tickers = {loop}
  Loop = loop
  NoTicker = NoTicker
  MaxDay = 1
  MaxMoves = 0
  MaxFaults = 0
  OperatorCalls = FALSE
  LLMEnabled = TRUE
PROPERTIES
  HeatFillsGaps
CHECK_DEADLOCK FALSE
