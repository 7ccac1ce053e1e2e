SPECIFICATION Spec
CONSTANTS
  N = 2
  site0 = site0
  site1 = site1
  site2 = site2
  l1 = l1
  l2 = l2
  l3 = l3
  w1 = w1
  w2 = w2
  Dirs <- MCDirs
  MayBeMissing <- NoDirs
  Hits <- MCHits
  Requests <- MCRequests
  PIPE = 2
  MAX_SESSIONS = 1
  MAX_KILLS = 1
  GarbageCounts <- MCGarbage
  Garbage = Garbage
  None = None
INVARIANTS OnlyWholeAnswers
