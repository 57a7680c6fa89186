SPECIFICATION ViewSpec
CONSTANTS
  Stocks = {s1}
  Monitored = {s1}
  HasTopics = {s1}
  Tickers = {loop, request}
  Loop = loop
  NoTicker = NoTicker
  MaxDay = 2
  MaxMoves = 1
  MaxFaults = 0
  OperatorCalls = TRUE
  LLMEnabled = FALSE
INVARIANTS
  LastTickShown
  ShownTwiceOnlyIfTorn
  SettledShown
PROPERTIES
  FirstTimeKept
CHECK_DEADLOCK FALSE
