SPECIFICATION FairSpec
CONSTANTS
  Scripts <- MCScripts
  PIPE_BUF = 3
  CAPACITY = 4
INVARIANTS BytesInOrder WholeMessages
PROPERTIES ImplementsChannel
CHECK_DEADLOCK FALSE
