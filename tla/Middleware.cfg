SPECIFICATION MiddlewareSpec
CONSTANTS
  s1 = s1  s2 = s2  s3 = s3  r1 = r1  r2 = r2  r3 = r3  e1 = e1
  find = find  slice = slice  whole = whole  dir = dir  kA = kA  kB = kB  stX = stX
  NoPath = NoPath  NoScope = NoScope  NoTask = NoTask  NoEntry = NoEntry  None = None  Raised = Raised
  Calls = {s1, s2, s3, r1, r2, r3, e1}
  Sigs = {find, slice, whole}
  Paths = {dir}
  Scopes = {kA, kB}
  States = {stX}
  Tasks = {w1, w2}
  Kind <- MixKind
  Sig <- MixSig
  Path <- AnyPath
  ScopeOf <- MixScope
  StateOf <- OneState
  a1 = a1  a2 = a2  a3 = a3  b1 = b1  sA = sA  fileF = fileF  fileG = fileG  t1 = t1  t2 = t2
  NoFile = NoFile
INVARIANTS TypeOK SearchOnce AnswerSound
PROPERTIES EveryCallTold EveryEditAnswered
CHECK_DEADLOCK FALSE
