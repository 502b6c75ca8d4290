CONSTANTS
  NUM_IDS = 5
  MAX_CHILDREN = 2
  WORD = 32
  PAGESIZE = 2
  USERLO_PI = 2
  USERHI_PI = 15
  MemMap <- MCMemMap
  Pdes = {0, 1}
  Ptes = {0, 1}
  Image <- MCImage
  ShellQuota = 8
  Quotas = {2, 3}
  Mortals = {3, 4}
SPECIFICATION Spec
INVARIANTS Isolated SplitBacked NormalIsUsable
CHECK_DEADLOCK FALSE
