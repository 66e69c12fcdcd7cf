CONSTANTS
  Threads = {t1}
  RecursionDepth = 2
  Lights = 1
  Objects = 2
  GroupSizes = {}
  Shadows = FALSE
  NoThread = none
SPECIFICATION FairSpec
INVARIANTS
  RecursionIsBounded
  RayBudget
  XsBelongToTheReader
