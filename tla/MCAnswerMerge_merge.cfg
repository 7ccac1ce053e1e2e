SPECIFICATION FairSpec
CONSTANTS
  N = 3
  INT_MAX = 3
  Files <- MCFiles
INVARIANTS ResultShown
PROPERTIES CommandEnds
CHECK_DEADLOCK FALSE
