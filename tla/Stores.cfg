SPECIFICATION StoresSpec
CONSTANTS
  StoreOps = {o1, o2}
  Closers = {k1}
  PoolLimit = 4
  NoOp = NoOp
  Openers = {u1, u2}
  Shutters = {v1}
  Borrowers = {b1}
  UsesVectors = TRUE
  PgPoolLimit = 5
  RegLimit = 2
  Nobody = Nobody
  ThreadIds = {t1, t2}
  Clients = {x1, x2}
  NoRecord = NoRecord
  FsCalls = {e1, e2, e3}
  NoFsCall = NoFsCall
INVARIANTS StoresTypeOK OwnPoolSound OnePoolPerKey OpenedServes IndexSound
PROPERTIES SharedLockKept StoreCallsEnd
CHECK_DEADLOCK FALSE
