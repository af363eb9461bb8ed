SPECIFICATION Spec
CONSTANTS
  BITBUF_ROWS = 3
  BITBUF_COLS = 4
  BYTE = 4
  UINT16_MAX = 65535
  Devices <- MCDevices
  Signals <- MCSignals
  SamplesPerMs = 500
  BehindTrain = {0, 24}
  MinRzPreamble = 4
  MinNrzPreamble = 12
  MinRzMeasured = 8
  MinNrzMeasured = 20
INVARIANTS TypeOK RowsKept LengthsAddUp DecodesWhatWasSent
CHECK_DEADLOCK FALSE
