\* Two devices on sources 1 and 2, priorities 0 to 2.
CONSTANTS
  Sources = {1, 2}
  Limit = 3
  PrioMod = 3
  Regs = 1
  MaxEvents = 2
SPECIFICATION IrqFairSpec
INVARIANTS EveryClaimCompleted NoTornHandler
PROPERTIES TrapReturns Serviced
