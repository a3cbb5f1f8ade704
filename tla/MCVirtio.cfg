\* A queue of three; indices wrap after two laps.
CONSTANTS
  QSize = 3
  IdxMod = 6
  MaxInits = 2
  MaxCmds = 8
  MaxEvents = 4
SPECIFICATION VirtioFairSpec
INVARIANTS OneOwner KeysInOrder TrustedWasDone
PROPERTY CommandReturns
CHECK_DEADLOCK FALSE
