SPECIFICATION FairSpec
CONSTANTS
  Sessions = "one"
  Options <- MCOptions
  MAX_FREQS = 4
  DEFAULT_FREQUENCY = 1
  DEFAULT_HOP_TIME = 2
  FSK_PULSE_DETECTOR_LIMIT = 1
  DEFAULT_BUF_LENGTH = 8
  sample_size = 4
  Frequencies = {1, 2}
  Buffers = {2, 4, 7}
  MaxClock = 6
  MaxTaken = 14
  MaxSessions = 1
INVARIANTS LimitAccounted EndsOnlyAsAsked HopInRange
PROPERTIES DwellsOnFrequency DurationEnds
CHECK_DEADLOCK FALSE
