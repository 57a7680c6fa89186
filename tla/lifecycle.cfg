SPECIFICATION FairSpec
CONSTANTS
  Main = main
  StartRequests = {start1, start2, start3}
  StopRequests = {stop1, stop2}
  NoLoop = NoLoop
  Patient = TRUE
INVARIANTS
  OneLoop
  FlagIsTrue
  LoopsCanBeStopped
PROPERTIES
  StopStops
CHECK_DEADLOCK FALSE
