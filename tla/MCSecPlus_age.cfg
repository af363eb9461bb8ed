SPECIFICATION SecPlusSpec
CONSTANTS
  USEC = 5
  CACHE_MAX_AGE = 4
  PressPause = 4
  MaxBursts = 6
  MaxClock = 15
INVARIANT HalvesJoined
CHECK_DEADLOCK FALSE
