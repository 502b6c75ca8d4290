CONSTANTS
  NUM_IDS = 7
  MAX_CHILDREN = 2
  WORD = 64
  Chans = {c1}
  NoChan = NoChan
  NSIG = 10
  SIGKILL = 9
  Sigs = {9}
  SCHED_SLICE = 1
  TICK_MS = 1
  REAL_QUOTA = 2
  IdleQuota = 1
  ShellQuota = 1
  Quotas = {1}
  IMAGE_PAGES = 0
  Kills = {}
  Waits <- MCWaitChild
SPECIFICATION FairSpec
PROPERTIES ReadyRuns WaitReturns
