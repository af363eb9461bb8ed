SPECIFICATION Spec
CONSTANTS
  BITBUF_ROWS = 3
  BITBUF_COLS = 2
  BYTE = 2
  UINT16_MAX = 100
  Widths = {0, 3, 6, 13}
  MaxAdded = 7
  MaxTransforms = 1
INVARIANTS RoomForBit RowsApart UnusedBitsClear RepeatsFound
PROPERTY ImplementsRows
CHECK_DEADLOCK FALSE
