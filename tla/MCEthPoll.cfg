\* A ring of two; the program goes on polling with the handler attached.
CONSTANTS
  Depth = 2
  MaxFrames = 4
  MaxSends = 0
  PollAfterAttach = TRUE
SPECIFICATION EthSpec
INVARIANT DeliveredInOrder
CHECK_DEADLOCK FALSE
