CONSTANTS
  Users = {u1, u2}
  MaxStarts = 2
SPECIFICATION LiveSpec
CHECK_DEADLOCK FALSE
INVARIANTS
  TypeOK
  OneUserOfTheData
  PauseTakesHold
PROPERTIES
  StopReturns
