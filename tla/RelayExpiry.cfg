SPECIFICATION Spec
CONSTANTS
  u1 = u1
  m2 = m2
  Users = {u1}
  Msgs = {m1, m2}
  Conns = {c1}
  NoConn = NoConn
  UserOf <- MCUserOf
  To <- MCTo
  HttpMsgs <- MCHttpMsgs
  MaxQueue = 1
  TTL = 1
  DbFaults = TRUE
  DiskFaults = TRUE
  MaxTime = 2
  MaxId = 6
INVARIANTS NoSilentLoss SingleCustody
PROPERTY ImplementsMailbox
