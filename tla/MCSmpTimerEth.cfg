\* Four harts, three with a stack: hart 3 parks for good; two secondaries work.
\* One hart and every program for the interrupts.  A ring of three, which the
\* program polls until it attaches the handler.
CONSTANTS
  NHarts = 4
  MaxHarts = 3
  FdtCpus = 4
  Boot = 0
  Modes = {"m_clint", "s_sbi"}
  MaxJobs = 3
  Depth = 3
  MaxFrames = 4
  MaxSends = 4
  PollAfterAttach = FALSE
SPECIFICATION PartsSpec
INVARIANTS NoTornPair IdleMeansDone WakeNotLost
INVARIANTS IEAsAsked IpiNotLost BusyNeverTraps
INVARIANTS NothingLostOrReordered SentInOrder
PROPERTIES WaitReturns ImplementsSmpAbs BusyReturns TickUntilBusy AllDelivered AllSent
CHECK_DEADLOCK FALSE
