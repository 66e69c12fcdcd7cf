CONSTANTS
  MaxLines = 4
  Files <- MCFiles
SPECIFICATION Spec
INVARIANTS
  NothingLeaks
  WellFormedFilesParse
  AllocationsAreFilled
  FacesBecomeFans
