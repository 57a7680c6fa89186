SPECIFICATION Spec
CONSTANTS
  a = a
  Miss = Miss
  b = b
  Stocks <- MCStocks
  LastDate = 2
  Strong <- MCStrong
  Keep = 2
  Takers = {t1}
  Readers = {r1}
  MaxJobs = 2
  MaxFaults = 1
INVARIANTS
  SnapshotsReplaced
CHECK_DEADLOCK FALSE
