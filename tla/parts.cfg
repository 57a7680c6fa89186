SPECIFICATION PartsSpec
CONSTANTS
  PreCloses = {20, 23, 45, 87, 100, 130}
  HeatStocks = {"a", "b"}
  HeatTopics <- MCTopics
  Filtered = {"filtered"}
  Undated = 99
  Inputs <- MCInputs
  Codes = {"s1", "s2", "s3", "s4"}
  Placed = {"s4"}
  Names = {"x", "y"}
  Known = {"x"}
  Own <- MCOwn
  MaxRuns = 3
  MaxDeaths = 1
  MaxDays = 4
  Topics = {"t1", "t2"}
  Users = {c1, c2}
  MaxEdits = 2
  MaxCalls = 3
  MaxNights = 1
  Syncs = {s1, s2}
  Readers = {r1}
  MaxChanges = 2
  MaxSyncs = 2
  MaxGaps = 1
  Editors = {e1, e2}
  Lookups = {l1, l2}
  MaxEdited = 3
  MaxLosses = 1
  RetryConfigs <- MCRetry
  Dates = {1, 2}
  ByHand = {"x", "y"}
  Attributed <- MCAttributed
  NoDay = 0
  Unfiled = "none"
  RowLess = "no row"
  Uncached = "no entry"
  Views = {"v1"}
  Jobs = {"j1"}
  Desks = {d1, d2}
  Browsers = {b1}
  MaxWrites = 2
  Askers = {k1, k2}
  SectorTTL = 3
  PageTimeout = 1
  PageCount = 2
  MaxTime = 5
INVARIANTS
  LimitIsSealed
  SealedIsNearLimit
  SealedIsFetched
  EveryStrongStockPlaced
  LeadersShareTopics
  FollowersJoinLeaders
  MonitorAgreesWithEditor
  NoAnswerLost
  LiveNeverOverstated
  LiveIsFiled
  RunsHaveCounts
  CountsAreOfToday
  ColumnsOfOneSync
  MonitorListCurrent
  DictionaryCurrent
  CallerIsTold
  EditShown
  ChangesNeverGoBack
CHECK_DEADLOCK FALSE
