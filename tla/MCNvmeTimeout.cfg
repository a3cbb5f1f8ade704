\* A poll may give up while the command is still at work.
CONSTANTS
  LbasPerPage = 2
  ListEntries = 3
  ListPages = 2
  Depth = 2
  Buffers <- Calls
  MaxCmds = 4
  MaxTimeouts = 1
SPECIFICATION DiskFairSpec
INVARIANT DoneIsTransferred
CHECK_DEADLOCK FALSE
