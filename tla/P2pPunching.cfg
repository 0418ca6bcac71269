SPECIFICATION Spec
CONSTANTS
    Macs = {m1}
    Punches = {p1, p2}
    Socks = {s1}
    Readers = {r1, r2}
    Tap = tap
    None = None
    P2pTryCount = 0
    PingLimit = 0
    FailLimit = 2
SYMMETRY Symmetry
CHECK_DEADLOCK FALSE
VIEW View
INVARIANT PunchIsDialedOrOpen
