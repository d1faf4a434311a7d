SPECIFICATION Spec
CONSTANTS
  Registries = {agA}
  Servers = {web}
  Hosted = {agA}
  Remote = {web}
  Loops = {l1, l2, l3}
  NoLoop = NoLoop  NoJob = NoJob
INVARIANTS RetriedOrTerminal
CHECK_DEADLOCK FALSE
