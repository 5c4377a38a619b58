SPECIFICATION Spec
CONSTANTS
  BlockSize = 2
  Sizes = {0, 1, 3, 4}
  MaxJunk = 1
  MaxCopies = 3
INVARIANTS
  TypeOK
  CopyIsWhole
  DialogIsThere
  ProgressInRange
PROPERTIES
  CopiesEnd
CHECK_DEADLOCK FALSE
