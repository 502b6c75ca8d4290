CONSTANTS
  NUM_IDS = 7
  MAX_CHILDREN = 2
  WORD = 64
  Chans = {c1}
  NoChan = NoChan
  NSIG = 10
  SIGKILL = 9
  Sigs = {2, 9}
  SCHED_SLICE = 0
  TICK_MS = 1
  REAL_QUOTA = 4
  IdleQuota = 1
  ShellQuota = 3
  Quotas = {1}
  IMAGE_PAGES = 1
  Kills <- MCKills
  Waits = {}
SPECIFICATION Spec
INVARIANTS SchedOK AlwaysSomeoneToRun NextChildFresh ChildrenCharged
PROPERTIES DeadForever WakeupComplete FifoScheduling
