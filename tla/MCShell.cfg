CONSTANTS
  MAXARGS = 3
  Lines <- MCLines
  MaxLines = 3
  NOFILE = 3
  NPIPE = 2
  MAX_CHILDREN = 7
  QUOTA = 3
  PIPESIZE = 1
  BUFSIZE = 2
  Listing <- MCListing
  Files <- MCFiles
  Rot <- MCRot
SPECIFICATION Spec
INVARIANTS OutputComplete PromptClean ParseCorrect
PROPERTIES PromptReturns
CHECK_DEADLOCK FALSE
