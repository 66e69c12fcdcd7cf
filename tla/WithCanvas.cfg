CONSTANTS
  Width = 1
  Height = 3
  Workers = {w1}
  NumTasks = 2
  Main = main
SPECIFICATION CanvasFairSpec
INVARIANTS
  CanvasOutlivesItsUsers
PROPERTIES
  ShownPixelsStay
  ImageIsShown
  ClosedIsReleased
