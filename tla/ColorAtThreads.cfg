CONSTANTS
  Threads = {t1, t2}
  RecursionDepth = 0
  Lights = 2
  Objects = 2
  GroupSizes = {3}
  Shadows = TRUE
  NoThread = none
SPECIFICATION FairSpec
INVARIANTS
  TypeOK
  XsBelongToTheReader
  NoAdditionIsLost
PROPERTIES
  PixelsFinish
