SPECIFICATION Spec
CONSTANTS
    Macs = {m1}
    Punches = {p1}
    Socks = {s1, s2}
    Readers = {r1, r2}
    Tap = tap
    None = None
    P2pTryCount = 1
    PingLimit = 0
    FailLimit = 1
SYMMETRY Symmetry
CONSTRAINT OnePuncher
INVARIANT ContextsSeparate
INVARIANT TryIsDialedOrOpen
CHECK_DEADLOCK FALSE
VIEW View
