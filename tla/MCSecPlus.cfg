SPECIFICATION SecPlusSpec
CONSTANTS
  USEC = 5
  CACHE_MAX_AGE = 4
  PressPause = 4
  MaxBursts = 6
  MaxClock = 15
INVARIANTS SamePress UsedOnce
CHECK_DEADLOCK FALSE
