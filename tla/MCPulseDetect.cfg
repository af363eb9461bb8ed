SPECIFICATION FairSpec
CONSTANTS
  PD_MAX_PULSES = 3
  PD_MIN_PULSES = 1
  PD_MIN_PULSE_SAMPLES = 2
  FSK_SKIP_SAMPLES = 1
  MinGap = 2
  MaxGap = 4
  PD_MAX_GAP_RATIO = 1
  OOK_EST_LOW_RATIO = 1
  Fm = {"up", "down", "near"}
  Chunks = {1, 8}
  MaxStream = 15
INVARIANTS
  TypeOK
  SlotsInRange
  TriggerLocated
  OpenPackageConserved
  OokPackageSpan
  StartMarksFirstPulse
  FskPackageSpan
PROPERTIES
  ImplementsPackageStream
  BufferConsumed
CHECK_DEADLOCK FALSE
