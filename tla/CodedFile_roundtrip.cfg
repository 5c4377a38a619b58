SPECIFICATION Spec
CONSTANTS
  BlockSize = 3
  JunkSize = 4
  Errors = TRUE
  High <- Continued
  Script <- Items
  IntMax = 4
  MaxVarint = 2
  DefaultTotal = 3
  Descriptors <- RegularFiles
  Sizes <- AskedSizes
  LimitSizes <- PushedLimits
  TotalLimits <- LowTotal
  InputLimits <- InputEnds
  MaxNest = 2
  MaxReaders = 2
INVARIANTS
  TypeOK
  CloseTellsTheTruth
PROPERTIES
  ImplementsCursor
  EndIsNoticed
  DeliversInOrder
CHECK_DEADLOCK FALSE
