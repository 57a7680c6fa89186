SPECIFICATION Spec
CONSTANTS
  chips = chips
  wafers = wafers
  robots = robots
  chip = chip
  robot = robot
  NoTopic = NoTopic
  Topics <- MCTopics
  Names <- MCNames
  Normalized <- MCNormalized
  Listed <- MCListed
  LastDate = 2
  Clients = {c1, c2}
  MaxCalls = 3
  MaxFaults = 1
INVARIANTS
  RelationsCurrent
  HitsMatchRaw
  ManualPrevails
CHECK_DEADLOCK FALSE
SYMMETRY MCSymmetry
