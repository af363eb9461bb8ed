SPECIFICATION Spec
CONSTANTS
  BITBUF_ROWS = 1
  BITBUF_COLS = 12
  BYTE = 8
  UINT16_MAX = 65535
  Formats <- MCFormats
  Messages <- MCMessages
  Leads <- MCLeads
  Sync <- MCSync
  MaxBurst = 5
INVARIANTS TelegramDecoded NoiseDetected
CHECK_DEADLOCK FALSE
