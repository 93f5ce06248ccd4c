\* Two tunnels and two calls of connect(): a rebuild while tunnels are lost and redialled.
SPECIFICATION Spec
CONSTANTS
    PoolSize = 2
    MaxBatches = 2
INVARIANTS Supervised DialsAlone OldBatchesClosed StopIsComplete
PROPERTY Recovers
CHECK_DEADLOCK FALSE
