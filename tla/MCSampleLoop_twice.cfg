SPECIFICATION Spec
CONSTANTS
  Sessions = "twice"
  Options <- MCOptions
  MAX_FREQS = 4
  DEFAULT_FREQUENCY = 1
  DEFAULT_HOP_TIME = 2
  FSK_PULSE_DETECTOR_LIMIT = 1
  DEFAULT_BUF_LENGTH = 8
  sample_size = 4
  Frequencies = {1, 2}
  Buffers = {4}
  MaxClock = 2
  MaxTaken = 24
  MaxSessions = 2
INVARIANT FrequenciesAsGiven
CHECK_DEADLOCK FALSE
