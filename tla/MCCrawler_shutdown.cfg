SPECIFICATION FairSpec
CONSTANTS
  Threads = {t1, t2}
  Urls <- MCUrls
  StartUrl <- MCStart
  Links <- MCLinks
  Length <- MCLength
  Cmds = {s1}
  UINT_RANGE = 5
  NULL = NULL
  Main = Main
  None = None
PROPERTIES StopsDownloading
