SPECIFICATION FairSpec
CONSTANTS
    Chans = {c1, c2}
    Checkers = {k1}
    First = k1
    None = None
PROPERTY DeadChannelReplaced
PROPERTY LinkRecovers
CHECK_DEADLOCK FALSE
