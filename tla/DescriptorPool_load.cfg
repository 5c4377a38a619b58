SPECIFICATION Spec
CONSTANTS
  a = a
  b = b
  c = c
  o = o
  A = A
  B = B
  C = C
  P = P
  u1 = u1
  mk = mk
  Files = {a, b, c}
  Overlays = {o}
  Symbols = {A, B, C, P}
  Databases <- SmallDatabases
  Users = {u1}
  Builder = mk
  None = None
  MaxCalls = 2
INVARIANTS
  TypeOK
  LoadedFilesAreWhole
  PointersStayValid
  RecursionIsBounded
  FaultlessFilesAreFound
CHECK_DEADLOCK FALSE
