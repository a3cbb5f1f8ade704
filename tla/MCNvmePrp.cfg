\* The largest batch, for a buffer that does not start a page.
CONSTANTS
  LbasPerPage = 2
  ListEntries = 3
  ListPages = 2
  Depth = 2
  Buffers <- Calls
  MaxCmds = 2
  MaxTimeouts = 1
SPECIFICATION DiskSpec
INVARIANT PrpInBounds
CHECK_DEADLOCK FALSE
