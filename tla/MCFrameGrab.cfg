SPECIFICATION Spec
CONSTANTS
  sg_size = 40
  BLOCK_SIZE = 8
  sample_size = 2
  Chunks = {4, 8}
  FileChunk = 8
  MaxStream = 28
  MaxEvents = 1
INVARIANTS
  TypeOK
  RingHoldsStream
  FrameClosedInTime
  FileHoldsFrame
PROPERTIES
  ImplementsFrameStream
CHECK_DEADLOCK FALSE
