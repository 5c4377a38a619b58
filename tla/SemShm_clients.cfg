CONSTANTS
  s1 = s1  s2 = s2  c1 = c1  c2 = c2  c3 = c3
  Servers = {s1, s2}
  Clients = {c1, c2, c3}
  None = None
  NumMsg = 2
  Overlap = FALSE
SPECIFICATION FairSpec
INVARIANTS TypeOK InUseCountsHolders ClientExclusion
PROPERTIES ClientsStop
CHECK_DEADLOCK FALSE
