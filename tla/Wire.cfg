CONSTANTS
Users = {u1}
Ticks = {t1}
Capacity = 1
Types <- MCTypes
Implements <- MCImplements
MaxHandlers = 3
MaxGroup = 2
Conns = {c1, c2}
MaxListens = 2
Addrs = {a1, a2}
MaxPackets = 2
MaxSent = 2
MaxTransports = 2
MaxBacklog = 1
QueueCap = 1
Base = 2
Word = 16
Payloads <- MCPayloads
Poison <- MCPoison
Mark <- MCMark
MaxFrames = 3
PackLength = 7
FrameLimit = 6
ByteValues = 4
Messages <- MCMessages
MaxMessages = 2
MaxLength = 5
Delimiter <- MCDelimiter
FixedLength = 2
FieldLengths = {1, 2}
SPECIFICATION WireSpec
INVARIANT NothingLost
INVARIANT TimerFollowsChannel
INVARIANT EventsDelivered
INVARIANT Attended
INVARIANT PeersApart
INVARIANT FramesIntact
INVARIANT RoundTrip
PROPERTY Cancelled
PROPERTY WriteReturns
PROPERTY KeepsPromise
PROPERTY Delivers
PROPERTY ImplementsList
PROPERTY StopEndsLoops
PROPERTY AcceptorCloses
CHECK_DEADLOCK FALSE
