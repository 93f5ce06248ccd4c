\* Payloads and reads of 1, 2 and 3 bytes against a buffer of 4, and a feeder that reads 2.
SPECIFICATION FSpec
CONSTANTS
    MaxBuffer = 4
    Sizes = {1, 2, 3}
    MaxBytes = 6
    IOChunk = 2
INVARIANTS NothingLost BufferAccounting
PROPERTY EndIsReported
CHECK_DEADLOCK FALSE
