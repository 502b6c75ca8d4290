CONSTANTS
  Procs = {p, q}
  First = p
  Sigs = {2, 10}
  Catchers = {p}
  Killable = {q}
  Nested = FALSE
  MaxFrames = 1
SPECIFICATION FairSpec
 
PROPERTIES HandlersReturn 
