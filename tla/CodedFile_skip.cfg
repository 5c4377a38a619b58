SPECIFICATION Spec
CONSTANTS
  BlockSize = 3
  JunkSize = 4
  Errors = FALSE
  High <- Continued
  Script <- Items
  IntMax = 4
  MaxVarint = 2
  DefaultTotal = 3
  Descriptors <- Pipe
  Sizes <- AskedSizes
  LimitSizes <- PushedLimits
  TotalLimits <- LowTotal
  InputLimits <- InputEnds
  MaxNest = 2
  MaxReaders = 2
INVARIANTS
  NothingSkippedUnasked
CHECK_DEADLOCK FALSE
