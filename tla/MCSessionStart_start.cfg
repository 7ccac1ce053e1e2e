SPECIFICATION FairSpec
CONSTANTS
  N = 2
  MAX_SESSIONS = 3
  MAX_CRASHES = 2
  MAX_KILLS = 1
INVARIANTS OwnWorkers RefusedAfterCrash
PROPERTIES SessionComesUp
CHECK_DEADLOCK FALSE
