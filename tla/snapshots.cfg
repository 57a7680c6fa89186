SPECIFICATION Spec
CONSTANTS
  a = a
  Miss = Miss
  b = b
  Stocks <- MCStocks
  LastDate = 3
  Strong <- MCStrong
  Keep = 2
  Takers = {t1, t2}
  Readers = {r1}
  MaxJobs = 2
  MaxFaults = 1
INVARIANTS
  NeverOverstated
  CacheCurrent
  SnapshotsComplete
  RangeIsChained
CHECK_DEADLOCK FALSE
SYMMETRY MCSymmetry
