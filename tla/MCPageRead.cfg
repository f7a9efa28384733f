SPECIFICATION FairSpec
CONSTANTS
  PageSize = 3
  Space = 9
  MaxLen = 9
  MaxRemaps = 1
  Untouched = Untouched
INVARIANTS
  InPlace
  OnlyHolesSkipped
  FailsInOrder
PROPERTY
  Returns
CHECK_DEADLOCK FALSE
