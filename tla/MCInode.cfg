CONSTANTS
  Procs = {p, q}
  NoProc = NoProc
  NINUM = 5
  NINODE = 5
  Names <- MCNames
  Tree <- MCTree
  Calls <- MCCalls
  MaxCalls = 4
SYMMETRY Processes
SPECIFICATION Spec
INVARIANTS   LinksMatch
