CONSTANTS
  Procs = {sh, a}
  Shell = sh
  NOFILE = 3
  NFILE = 4
  NPIPE = 1
  Modes = {"RDONLY"}
SPECIFICATION Spec
INVARIANTS RefsCounted
CHECK_DEADLOCK FALSE
