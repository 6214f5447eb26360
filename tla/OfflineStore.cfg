SPECIFICATION FairStoreSpec
CONSTANTS
  Users = {u1, u2}
  Msgs = {m1}
  MaxQueue = 2
  TTL = 1
  DbFaults = TRUE
  DiskFaults = TRUE
  MaxTime = 3
  MaxId = 3
INVARIANTS
  StoreTypeOK
  QueueBounded
  FileMatchesTable
  IdOrderIsExpiryOrder
PROPERTY
  ExpiredRowsGo
