\* Two streams, frames of at most 4 bytes with 3 of header, reads of at most 3 bytes.
SPECIFICATION Spec
CONSTANTS
  Streams = {1, 2}
  MaxFrame = 4
  ReadSize = 3
  Threshold = 2
  MaxData = 2
  MaxBytes = 11
  MaxOdd = 2
INVARIANTS FramesArrive BufferBounded
CHECK_DEADLOCK FALSE
