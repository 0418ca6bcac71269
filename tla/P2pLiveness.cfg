SPECIFICATION FairSpec
CONSTANTS
    Macs = {m1}
    Punches = {p1}
    Socks = {s1}
    Readers = {r1}
    Tap = tap
    None = None
    P2pTryCount = 1
    PingLimit = 1
    FailLimit = 1
INVARIANT SilenceBounded
PROPERTY TryResolved
PROPERTY DeadLinkEvicted
CHECK_DEADLOCK FALSE
