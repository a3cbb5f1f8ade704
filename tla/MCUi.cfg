\* Menus of three items; four inputs in any mixture.
CONSTANTS
  MaxInits = 2
  MaxFrames = 2
  Keys = {"down", "enter"}
  PollsAttached = FALSE
  MaxReports = 2
  MaxFaults = 1
  MaxItems = 3
  TermKeys = {"up", "enter", "esc"}
  MaxTyped = 2
  MaxInputs = 4
SPECIFICATION UiSpec
INVARIANTS WholeFrames KeysAddUp ChoosesWhatIsShown TerminalKeysInOrder
CHECK_DEADLOCK FALSE
