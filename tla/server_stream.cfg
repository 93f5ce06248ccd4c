\* One client with one stream, which may go through every course of events: pipelined DATA,
\* an overflow, a slow target, a deferred CLOSE, a stalled or lost tunnel, stop().
SPECIFICATION Spec
CONSTANTS
    c1 = c1
    s1 = s1
    Pong = Pong
    None = None
    Clients = {c1}
    Streams = {s1}
    MaxConnections = 1
    MaxPending = 1
    MaxData = 2
    MaxDown = 1
INVARIANTS InOrderDelivery FrameGrammar OpenIsServed RelayBacked GoneIsClean
PROPERTIES CloseHonoured CleanupEnds SendsReturn WriterContract
CHECK_DEADLOCK FALSE
