SPECIFICATION FairSpec
CONSTANTS
  NULL = NULL
  Junk = Junk
  MinSize = 2
  Table <- MCTable
  Disabled = 3
  FirstSize = 1
  UINT_MAX = 3
  MaxEntries = 5
  MaxOptions = 3
INVARIANTS DevicesTerminated RanInOrder LowestPriorityWins
PROPERTIES ImplementsDeviceSet PackageEnds
CHECK_DEADLOCK FALSE
