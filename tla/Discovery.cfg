\* Four issues and pull requests, two to a page, and an edit.
SPECIFICATION Spec
CONSTANTS
  PageSize = 2
  MaxPages = 3
  MaxResources = 4
  MaxEdits = 1
INVARIANTS
  Inv
CHECK_DEADLOCK FALSE
