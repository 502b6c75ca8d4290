CONSTANTS
  Procs = {p, q}
  Sectors = {s, t}
  Blocks = {0, 1}
  LOGSIZE = 3
  NLOG = 4
  MaxBlocks = 2
  Early = {}
  Victims = {p}
SPECIFICATION FairSpec
INVARIANTS ReadsConsistent
PROPERTIES AtomicTransactions WaitersWoken
