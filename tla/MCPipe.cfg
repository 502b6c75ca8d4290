CONSTANTS
  Procs = {sh, a, b}
  Shell = sh
  PIPESIZE = 2
  WORD = 4
  Bytes = {0, 1}
  MaxIO = 2
  Free = Free
SYMMETRY Commands
SPECIFICATION Spec
INVARIANTS EndsHeld NoLostWakeup
PROPERTIES EndOfFile FifoChannel
CHECK_DEADLOCK FALSE
