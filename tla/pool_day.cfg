SPECIFICATION Spec
CONSTANTS
  Stocks = {s1, s2}
  Monitored = {s1}
  HasTopics = {}
  Tickers = {loop}
  Loop = loop
  NoTicker = NoTicker
  MaxDay = 2
  MaxMoves = 2
  MaxFaults = 1
  OperatorCalls = FALSE
  LLMEnabled = FALSE
INVARIANTS
  TypeOK
  PoolsDisjoint
  SealedHaveFirstTime
  PoolsMatchCachedQuotes
PROPERTIES
  PromiseKept
CHECK_DEADLOCK FALSE
