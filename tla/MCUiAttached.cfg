\* A menu on a keyboard whose interrupt is attached.
CONSTANTS
  MaxInits = 1
  MaxFrames = 0
  Keys = {"down", "enter"}
  PollsAttached = TRUE
  MaxReports = 2
  MaxFaults = 0
  MaxItems = 1
  TermKeys = {"up"}
  MaxTyped = 0
  MaxInputs = 3
SPECIFICATION UiSpec
INVARIANT KeysAddUp
CHECK_DEADLOCK FALSE
