\* One address, of a name or asked for directly, and two handlers.
SPECIFICATION SafeSpec
CONSTANTS
    IPs = {i1}
    Names = {h1}
    Hosts = {h1, i1}
    Calls = {c1, c2}
    LocalIPs = {}
    None = None
    Threshold = 2
    Cooldown = 2
    MaxEntries = 1
    SaveGap = 0
    DnsTTL = 1
    DnsMax = 1
    FailTTL = 1
    FailMax = 1
    MaxTime = 3
    MaxStreak = 2
PROPERTY DeadNotDialled
CHECK_DEADLOCK FALSE
