CONSTANTS
  cone = cone
  Objects = {cone}
  Groups = 0
  MaxXs <- MCMaxXs
  Times <- MCTimes
  Vacuum = vacuum
  Nil = nil
SPECIFICATION Spec
INVARIANT ScratchAssertionHolds
