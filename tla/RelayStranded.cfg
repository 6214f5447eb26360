SPECIFICATION FairSpec
CONSTANTS
  u1 = u1
  m2 = m2
  Users = {u1}
  Msgs = {m1}
  Conns = {c1}
  NoConn = NoConn
  UserOf <- MCUserOf
  To <- MCTo
  HttpMsgs <- MCHttpMsgs
  MaxQueue = 2
  TTL = 1
  DbFaults = FALSE
  DiskFaults = FALSE
  MaxTime = 0
  MaxId = 6
PROPERTY NoStrandedMail
