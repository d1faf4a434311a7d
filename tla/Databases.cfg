SPECIFICATION DatabasesSpec
CONSTANTS
  Threads = {w1, w2, w3}
  Conns = {c1, c2, c3, c4, c5}
  PoolSize = 2
  NoThread = NoThread  NoConn = NoConn
  Stores = {s1, s2, s3}
  Runtimes = {m1, m2, m3}
  NoRuntime = NoRuntime
  r1 = r1  r2 = r2  r3 = r3  pA = pA  pB = pB
  Runners = {r1, r2, r3}
  Processes = {pA, pB}
  ProcOf <- TwoProcesses
  Pools = {q1, q2}
  NoPool = NoPool  NoRunner = NoRunner
INVARIANTS DatabasesTypeOK ConnectionsSafe HeldOpen SetupExclusive FollowersHeard
PROPERTIES PermitsComeBack LastClosed FollowersReturn
CHECK_DEADLOCK FALSE
