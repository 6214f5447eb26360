SPECIFICATION AdmissionFairSpec
CONSTANTS
  u1 = u1
  m2 = m2
  Users = {u1}
  Msgs = {m2}
  Conns = {c1, c2}
  NoConn = NoConn
  UserOf <- MCUserOf
  To <- MCTo
  HttpMsgs <- MCHttpMsgs
  MaxQueue = 1
  TTL = 1
  DbFaults = TRUE
  DiskFaults = FALSE
  MaxTime = 0
  MaxId = 6
  MaxClients = 1
INVARIANTS AdmissionTypeOK AdmissionBound
PROPERTIES SupersededEnds DeliveriesFinish PlaceComesBack HandshakeEnds
