SPECIFICATION PlugSpec
CONSTANTS
  Loads = {l1, l2}
  Downs = {d1}
  Plugins = {p1}
  Guessed = {p1}
  NoLoad = NoLoad  NoInstance = NoInstance
INVARIANTS ReturnsLoaded
CHECK_DEADLOCK FALSE
