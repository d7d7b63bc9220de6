SPECIFICATION FairSpec
CONSTANTS
  TimerIds = {"t1", "t2"}
  None = None
  Intervals = {1}
  Forever = 99
  MaxMono = 2
  MaxWall = 1
PROPERTIES
  DueFires
CHECK_DEADLOCK FALSE
