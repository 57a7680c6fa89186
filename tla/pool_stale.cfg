SPECIFICATION Spec
CONSTANTS
  Stocks = {s1}
  Monitored = {s1}
  HasTopics = {}
  Tickers = {loop}
  Loop = loop
  NoTicker = NoTicker
  MaxDay = 1
  MaxMoves = 2
  MaxFaults = 0
  OperatorCalls = FALSE
  LLMEnabled = FALSE
INVARIANTS
  Above5IsCurrent
CHECK_DEADLOCK FALSE
