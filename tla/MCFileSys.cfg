CONSTANTS
  BSIZE = 4
  NDIRECT = 1
  NOFILE = 2
  WCHUNK = 4
  Truncated <- MCTruncated
  CPBUF = 5
  DEPTH = 6
  TestImage <- MCTestImage
  NSMALL = 3
  FileNames <- MCFileNames
  NIREF = 3
  Image <- MCImage
  Paths <- MCPaths
  Text <- MCText
  Garbage <- MCGarbage
  MaxSteps = 3
  Kernel <- Syscall
SPECIFICATION Spec
INVARIANTS LinksCounted BlocksOwned FsTestsPass
PROPERTIES CommandsCloseFiles ContentsKept
CHECK_DEADLOCK FALSE
