CONSTANTS
  m1 = m1  m2 = m2  m3 = m3  s1 = s1  s2 = s2  s3 = s3  c1 = c1  c2 = c2
  TcServers = {s1, s2, s3}
  Self = Self  Bcast = Bcast  None = None  MQ = MQ  Listen = Listen
  TcId <- TcOf
  Primary <- Line
  Authentic <- All
  Servers = {m1, m2, m3}
  Clients = {}
  AutoLinks = {m1}
  TcsUp = {}
  Home <- HomeM1
  Targets <- NoCalls
  Calls = {"ping"}
  MQMax = 2
  MaxCalls = 1
  MaxBcast <- OneBcast
SPECIFICATION Spec
INVARIANTS RoutesAreServed
CHECK_DEADLOCK FALSE
