CONSTANTS
  Width = 1
  Height = 2
  Components <- MCComponents
  Scale = 1000
  PPM_MAX_LINE_LENGTH = 7
SPECIFICATION Spec
INVARIANTS
  TypeOK
  LinesAreShort
  LinesAreFull
  ImageIsReadable
