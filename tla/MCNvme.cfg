\* Queues of two; five commands wrap them twice.
CONSTANTS
  LbasPerPage = 2
  ListEntries = 3
  ListPages = 2
  Depth = 2
  Buffers <- Calls
  MaxCmds = 5
  MaxTimeouts = 1
SPECIFICATION DiskFairSpec
INVARIANTS SectorsAsReported PrpDescribesBuffer
PROPERTIES OverrunIsUnaligned CallReturns
CHECK_DEADLOCK FALSE
