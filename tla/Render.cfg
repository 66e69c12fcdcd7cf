CONSTANTS
  Width = 2
  Height = 5
  Workers = {w1, w2}
  NumTasks = 4
  Main = main
SPECIFICATION FairSpec
INVARIANTS
  TypeOK
  ScratchIsExclusive
  ReleasedMemoryIsIdle
PROPERTIES
  ImplementsFill
  EventuallyReturns
