SPECIFICATION Spec
CONSTANTS
    MaxConns = 2
    Ports = {p1}
    Callers = {k1}
    Calls = {"connect", "disconnect", "open", "set", "close"}
    MaxFaults = 0
    None = None
INVARIANT RegisteredIsServed
CHECK_DEADLOCK FALSE
