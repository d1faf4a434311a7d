SPECIFICATION AgentsSpec
CONSTANTS
  a1 = a1  a2 = a2  b1 = b1  b2 = b2  sA = sA  sB = sB  fileF = fileF
  NoTask = NoTask  NoFile = NoFile
  Calls = {a1, a2, b1, b2}
  Scopes = {sA, sB}
  Files = {fileF}
  Tasks = {t1, t2, t3}
  Kind <- StringKind
  ScopeOf <- TwoScopes
  FileOf <- OneFile
  LongFiles = {}
  MaxStaged = 1
  Policy = "evict_oldest"
  Loads = {l1, l2}
  d1 = d1
  Downs = {d1, d2}
  Plugins = {p1}
  Guessed = {p1}
  NoLoad = NoLoad  NoInstance = NoInstance
  Registries = {agA}
  Servers = {web, local}
  Hosted = {agA}
  Remote = {web}
  Loops = {rl1, rl2, rl3}
  NoLoop = NoLoop  NoJob = NoJob
INVARIANTS AgentsTypeOK EveryCallOwned BoundedStaging FreshSnapshot
INVARIANTS StatusTrue PluginsAccounted
PROPERTIES OnlyBatchesErase LedgerSpec
CHECK_DEADLOCK FALSE
