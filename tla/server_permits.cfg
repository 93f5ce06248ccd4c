\* The streams of two clients compete for the only permit, while either tunnel may stall.
SPECIFICATION PermitsSpec
CONSTANTS
    c1 = c1
    c2 = c2
    s1 = s1
    Pong = Pong
    None = None
    Clients = {c1, c2}
    Streams = {s1}
    MaxConnections = 1
    MaxPending = 1
    MaxData = 0
    MaxDown = 0
INVARIANTS PermitsConserved
PROPERTIES ConnectSettles
CHECK_DEADLOCK FALSE
