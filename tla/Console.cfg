CONSTANTS
  Readers = {sh, cat}
  Idle = idle
  NoProc = NoProc
  SIZE = 3
  LINE = 2
  SerialChars = {"BS", "NL"}
  Keys = {"c", "rctl", "shift"}
  MaxTyped = 3
SPECIFICATION Spec
INVARIANTS InputKept
PROPERTY ReadersServed
CHECK_DEADLOCK FALSE
