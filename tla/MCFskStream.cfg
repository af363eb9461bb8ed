SPECIFICATION Spec
CONSTANTS
  PD_MAX_PULSES = 4
  PD_MIN_PULSES = 1
  PD_MIN_PULSE_SAMPLES = 2
  FSK_SKIP_SAMPLES = 2
  MaxSamples = 15
  MaxRetunes = 2
INVARIANTS
  SlotsInRange
  SamplesConserved
  SpuriousSuppressed
CHECK_DEADLOCK FALSE
