SPECIFICATION DirSpec
CONSTANTS
    Peers = {p1, p2}
    Cookies = {1, 2}
    MaxFrames = 2
    MaxChanges = 1
INVARIANT DirectoryCurrent
CHECK_DEADLOCK FALSE
