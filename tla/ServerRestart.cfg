SPECIFICATION Spec
CONSTANTS
    Chans = {c1, c2}
    Checkers = {k1, k2}
    First = k1
    None = None
INVARIANT OneLink
CHECK_DEADLOCK FALSE
SYMMETRY Symmetry
