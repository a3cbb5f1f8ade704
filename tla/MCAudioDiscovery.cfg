\* A ring of three, three samples for four cycles, a queue of two changes; three
\* functions for eight, four BAR words for six, three capability slots with as
\* many hops.
CONSTANTS
  WpMod = 8
  RirbSize = 3
  MaxVerbs = 7
  MaxTimeouts = 1
  RingN = 3
  EventsN = 2
  Rate = 3
  Hz = 4
  MaxWaits = 1
  Levels = {0, 1}
  MaxCycle = 4
  MaxOpens = 2
  Blobs <- MCBlobs
  Queries <- MCQueries
  Machines <- MCMachines
  Ids = {"nvme", "hda"}
  NBuses = 3
  NDevs = 2
  NFuncs = 3
  NBars = 4
  Uppers = {"zero", "m32", "m64"}
  NSlots = 3
  MaxHops = 3
  CapIds = {"msi", "other"}
  LoMod = 3
  TicksPerDay = 2
  FirstYear = 1970
  LastYear = 2108
  MaxLag = 2
SPECIFICATION PartsSpec
INVARIANTS AnswersLag NothingOverwritten WaveAsAsked
INVARIANTS FoundInTree FoundOnBus StampIsToday
CHECK_DEADLOCK FALSE
