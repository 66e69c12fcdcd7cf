CONSTANTS
  cone = cone
  Objects = {cone, s1, s2}
  Groups = 0
  MaxXs <- MCMaxXs
  Times <- MCTimes
  Vacuum = vacuum
  Nil = nil
SPECIFICATION Spec
INVARIANTS
  TypeOK
  ScratchNeverOverflows
  ListIsWhereTheRayIs
  MediaAreInnermost
