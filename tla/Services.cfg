SPECIFICATION ServicesSpec
CONSTANTS
  Registries = {agA, agB}
  Servers = {web}
  Hosted = {}
  Remote = {web}
  Loops = {rl1, rl2, rl3, rl4}
  NoLoop = NoLoop  NoJob = NoJob
  LlmCalls = {m1, m2}
  Background = {}
  Discriminates = TRUE
  FallbackAfter = 2
  MaxBackoff = 2
  TotalCap = 3
  Requests = {q1, q2, q3}
  Concurrent = 2
  Burst = 1
  MaxRetries = 1
  Threshold = 2
  HalfOpenMax = 2
  ResetTime = 1
  InitialQueries = 2
  FollowUps = 1
  LoopLimits = {0, 1, 3, 4}
  MinResults = 3
  MinDiversity = 2
  RefLimit = 4
  MaxRecon = 2
  MaxPlan = 2
  HasTools = TRUE
  MaxOut = 5
  Block = 2
  OutCap = 3
INVARIANTS ServicesTypeOK OneRetry StatusEarned RetryBounded HttpSound CommandSound LoopsBounded
PROPERTIES ServicesEnd
CHECK_DEADLOCK FALSE
