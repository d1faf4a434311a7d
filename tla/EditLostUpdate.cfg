SPECIFICATION Spec
CONSTANTS
  a1 = a1  a2 = a2  a3 = a3  b1 = b1  b2 = b2  sA = sA  sB = sB  fileF = fileF  t1 = t1  t2 = t2  t3 = t3
  NoTask = NoTask  NoFile = NoFile
  Calls = {a1, a2, b1, b2}
  Scopes = {sA, sB}
  Files = {fileF}
  Tasks = {t1, t2, t3}
  Kind <- TwoScopesKind
  ScopeOf <- TwoScopes
  FileOf <- TwoScopesFile
  LongFiles = {}
  MaxStaged = 2
  Policy = "reject_newest"
SYMMETRY TaskSymmetry
INVARIANTS NoLostUpdate
CHECK_DEADLOCK FALSE
