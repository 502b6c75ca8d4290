CONSTANTS
  Procs = {w, r}
  Sectors = {s, t, u, v}
  Blocks = {0, 1}
  NoSector = NoSector
  NBUF = 3
  Writers = {w}
  MaxHeld = 1
  MaxPinned = 1
  Victims = {r}
  Faulty = FALSE
SPECIFICATION Spec
INVARIANTS CacheConsistent NoLostWakeup
PROPERTY LockedBlocks
SYMMETRY SectorSymmetry
