\* The tail of a stream that is closed before the feeder has moved it.
SPECIFICATION FSafeSpec
CONSTANTS
    MaxBuffer = 4
    Sizes = {1, 2, 3}
    MaxBytes = 6
    IOChunk = 2
INVARIANT TailDelivered
CHECK_DEADLOCK FALSE
