SPECIFICATION FairSpec
CONSTANTS
  Consumers = {c1, c2}
  POOL_SIZE = 2
  Clients = {k1, k2}
  Cmds = {s1, s2}
  small = small
  large = large
  Pages <- MCPages
  Length <- MCLength
  UINT_RANGE = 7
  Poison = Poison
  Main = Main
  Error = Error
  None = None
INVARIANTS TypeOK Ownership ShutdownDrains StatsRight
PROPERTIES QueueSpec ServerImplementsContract AcceptedIsClosed
