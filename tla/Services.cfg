CONSTANTS
MaxConns = 2
Ports = {po1}
Callers = {k1}
Calls = {"connect", "disconnect", "open", "set", "config", "list", "ports", "close"}
MaxFaults = 1
None = None
Devices = {d1, d2}
Readers = {r1, r2}
NoDevice = NoDevice
Askers = {u1, u2}
Seconds = {1, 2}
LinkPages = 2
MaxStored = 3
MaxPolls = 3
MaxCalls = 2
Nets = {v0, v1}
AutoNets = {v0}
NetAddrs = {v0, v1}
Pwds = {v0, v1}
Names = {v0, v1}
Default = v0
MaxSaves = 2
MaxCrashes = 1
SPECIFICATION ServicesSpec
INVARIANT PortsBacked
INVARIANT CardServed
INVARIANT LinksOfOneSecond
INVARIANT NoStaleChannel
INVARIANT ConfigDurable
INVARIANT RuntimeCurrent
PROPERTY ContextEvicted
PROPERTY PortReleased
PROPERTY CardHonest
PROPERTY CallsReturn
CHECK_DEADLOCK FALSE
