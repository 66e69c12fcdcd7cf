CONSTANTS
  Limit = 9
  Unit = 2
  Sizes = {0, 1, 2}
  Shapes <- MCShapes
  Rays <- MCRays
SPECIFICATION SolidSpec
INVARIANTS
  BoxTestIsConservative
  HitsAreTheEnds
  CapAssertionHolds
