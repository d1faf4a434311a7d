SPECIFICATION ShellSpec
CONSTANTS
  MaxOut = 3
  Block = 2
  OutCap = 3
INVARIANTS OutputReturned
CHECK_DEADLOCK FALSE
