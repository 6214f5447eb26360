SPECIFICATION Spec
CONSTANTS
  u1 = u1
  m2 = m2
  Users = {u1}
  Msgs = {m1, m2}
  Conns = {c1, c2}
  NoConn = NoConn
  UserOf <- MCUserOf
  To <- MCTo
  HttpMsgs <- MCHttpMsgs
  MaxQueue = 2
  TTL = 1
  DbFaults = TRUE
  DiskFaults = TRUE
  MaxTime = 0
  MaxId = 6
INVARIANTS TypeOK NoSilentLoss SingleCustody NoOrphanSession
SYMMETRY ConnSymmetry
