SPECIFICATION Spec
CONSTANTS
  outer = outer
  inner = inner
  ball = ball
  cone = cone
  floor = floor
  Nil = Nil
  Groups <- MCGroups
  Leaves <- MCLeaves
  Kind <- MCKind
  Radius <- MCRadius
  Unbounded <- MCUnbounded
  Transforms <- MCTransforms
  Rays = {2, 5}
INVARIANTS
  TypeOK
  BoundsHoldContent
  NothingIsCulled
  SpacesAgree
  BufferSuffices
