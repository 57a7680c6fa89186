SPECIFICATION Spec
CONSTANTS
  Main = main
  StartRequests = {start1, start2}
  StopRequests = {stop1, stop2}
  NoLoop = NoLoop
  Patient = FALSE
INVARIANTS
  StartedMeansRunning
CHECK_DEADLOCK FALSE
