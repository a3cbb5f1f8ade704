\* Frames wait in the ring when the handler is attached.
CONSTANTS
  Depth = 2
  MaxFrames = 2
  MaxSends = 0
  PollAfterAttach = FALSE
SPECIFICATION EthFairSpec
PROPERTY ReadyFramesDelivered
CHECK_DEADLOCK FALSE
