# A TLA+ model of vilan-peer

vilan-peer is the client of a peer-to-peer virtual LAN. It reads Ethernet frames
from a virtual network card (tap), sends them to the other peers directly where a
UDP hole could be punched and through a relay server where not, and also forwards
serial ports. This directory holds TLA+ modules translated from its source, the
TLC configurations that check them on small instances, and TLAPS proofs of the
main safety properties for every size.

`PROJECT.json` maps each definition to the lines it models and lists runs,
findings, hazards and theorems.

## Inventory

| Component | State | Operations | Hard behaviour | What makes it correct |
|---|---|---|---|---|
| P2pService (`service/p2p_service.go`, `data_handler.go`, part of `msg_handler.go`) | four maps keyed by mac: contexts that punch, that are tried, that are established, and the failures; `running` | frames from the tap, server messages P2PTrigger, P2PAck, StateChanged, reads of peer sockets, idle timer, a sweep every 3 s, Start, Stop | no lock across test and store; contexts are pointers that outlive their entries; dials block; datagrams are lost, duplicated, reordered | a context is in both maps only while it is promoted; a dead entry never blocks punching; a vanished peer is evicted; tries end |
| WorkerPool (`netty/utils/worker_pool.go`), used by `netty/executor.go` | task queue, queue of ready workers, hand-kept worker count | AddTask, RunTask, Stop, StopWait, dispatch, workers | channels at their capacity, close versus send, drain | count exact, task runs once, close is safe, accepted tasks run, Stop ends |
| RuntimeService (`service/runtime_service.go`, rest of `msg_handler.go`) | peer state, server context and channel, group directory, link infos, pending configurations, route | stateCheck, connect, authenticate, ping, restart, directory pages, remote configuration | restart beside a blocked stateCheck; late callbacks of the old channel; acks out of order | the link recovers; one loop; answers reach their waiter |
| TunTapService (`service/tuntap_service.go`) | device, state | Start, Stop, readTap with its own restart, write | fields without a lock; the reader of an old device closes whatever is there now | a card that says it runs is read |
| Group directory, link information, remote configuration (`runtime_service.go`, `wails-app.go`) | peers and cookie, pages and cookie, waiting channels | requests of the user interface, pages and acknowledgements of the read loop | frames lost or late; maps changed by two goroutines; an unbuffered send into a waiter that has left | the list heals and is the group; answers of different seconds are not mixed; calls return |
| Configuration (`config/config_app.go`, `wails-app.go`) | AppConfig, the file, the copy of the runtime service | load, defaults, save by the form, save of an assigned address, restart | two savers without a lock, passwords encoded in place, a crash inside a write | the next start loads what was in use; the services run with what is shown |
| Serial forwarding (`serial/*.go`) | client and server contexts by peer id, ports, pending requests | connect, disconnect, open, set, close, list, sweeps | answers without numbers, timeouts with a second try, an old and a new connection of one peer | an open port has a device behind it; dead contexts and their ports go away |
| netty core (`netty/*.go`) | channel life, send queue, idle timer, linked pipeline, accept loop | Connect, Listen, Write, Close, read loop, write loop, AddFirst, AddLast, AddHandler, events, Stop | close from several goroutines, full queue, late callbacks | packets in order, close once and for all, no event skips a handler |
| netty transports (`netty/transport`) | listener, UDP server transports | Listen, Accept, Close, the loop that sorts datagrams | Close beside a send | a peer gets its own packets; Close closes all |
| Codecs (`serial/protocol/protobuf.go`, `netty/codec`) | partial frame | decode, encode | frames split over reads, lengths at the width of their field | decode inverts encode |
| UI, drivers, arp, crypto, generated messages, frontend | | | pure I/O, display or generated | not modelled |

How they interact: the tap reader calls `PostTunTapData`, which asks
`P2pService.TryForwardMessage` and falls back to the server socket. The read loop
of the server socket, and that of every punch socket, calls `processMsg`, which
dispatches to RuntimeService and P2pService. A successful AuthAck calls
`ResetP2PSocks`, a StateChanged message `PeerStateChanged`. Peer sockets have
their own handler, which writes to the tap and calls `P2PSuccess`. Each service
has one ticker goroutine. The serial server asks for the pool as executor, but the
executor is inserted behind the last handler that counts as a codec, which is the
server's own handler: its read events stay on the read loop.
The user interface calls RuntimeService, TunTapService and PortService, and writes the
configuration. Every connection is a netty channel with a pipeline: idle handler,
codec, message handler.

## Modules

| Module | What it is |
|---|---|
| `P2pService` | the hole-punching service of one peer: state, actions, properties, inductive invariants |
| `MCP2pService` | symmetry and view for TLC |
| `P2pServiceProofs` | its theorems |
| `WorkerPool` | the goroutine pool |
| `MCWorkerPool` | symmetry for TLC |
| `WorkerPoolProofs` | its theorems |
| `ServerLink` | the link of a peer to the server: connection, registration, restart |
| `MCServerLink` | symmetry for TLC |
| `ServerLinkProofs` | its theorems |
| `SerialPort`, `MCSerialPort` | remote serial ports between a client and a server peer |
| `SerialPortProofs` | its theorems |
| `NetworkCard` | the virtual network card and its readers |
| `PeerDirectory` | the list of the group |
| `PeerRequests` | link information and remote configuration |
| `Configuration` | the configuration, its file and its copy |
| `MCServices` | `NetworkCard`, `PeerRequests`, `Configuration` and `SerialPort` for TLC (`PeerDirectory` needs no harness) |
| `ServiceProofs` | theorems about `NetworkCard`, `PeerRequests`, `Configuration` and `PeerDirectory` |
| `AbstractChannel` | what a channel promises |
| `NettyChannel` | a channel, which implements it |
| `AbstractPipeline` | a pipeline as a list |
| `Pipeline` | the linked contexts, which implement it |
| `PipelineProofs` | its theorems, with the refinement, and induction over numbers |
| `Listener` | Listen, Stop and the accept loops over TCP |
| `UdpAcceptor` | the server side of UDP |
| `Digits` | lengths as bytes: varints and length fields |
| `ProtobufCodec` | the two protobuf codecs |
| `FrameCodecs` | the other frame codecs |
| `CodecProofs` | theorems about the codecs |
| `MCWire` | the six detailed modules above for TLC |
| `NettyProofs` | theorems about `NettyChannel`, with its refinement, `Listener` and `UdpAcceptor` |

Operators described as "a plausible slip" are faulty versions of the action that
follows them. No specification uses them; they show that each property can fail.

### P2pService

Contexts are pointers in the code and identities here: `punch[p]` and `sock[s]`
hold the fields of the structs, the three maps `punchSocks`, `p2pTrySocks` and
`p2pSocks` hold identities, and an identity is used again only when no map, no
goroutine and no open channel refers to it. `failed` and `cooling` are
`hisP2PFailInfo`.

A handler is one action except where it blocks or where a value it has read can
be changed before it is used. `pc[t]` says where a goroutine is in the middle of a
handler: `store` between the test of `StartPunch` and the store of `newPunchSock`;
`dialPunch` and `dialPeer` in `Bootstrap.Connect`; `bind` before `LocalSock` is
set. `success[s]` says where the read loop of a peer socket is in `P2PSuccess`, whose
`Load`, `Store` and `Delete` (`p2p_service.go:375-378`) are steps of their own: between
the two last the context is in both maps, where the sweep may stop it, and the delete is
by mac and takes whatever is being tried by then. `checker` says where `stateCheck` is: its two `Range` calls and its two loops
of `Delete` are four steps, because everything it marked can change in between.

| Action | Code |
|---|---|
| `TryForwardMessage`, `isNeedP2P`, `StartPunch`, `newPunchSock`, `PunchActive`, `PunchRefused`, `PunchBound` | punching, from the tap or from a P2PTrigger message |
| `ProcessP2PTrigger`, `ProcessP2PAck`, `ProcessP2PAckInvalid`, `PeerStateChanged`, `ResetP2PSocks` | server messages |
| `PeerActive`, `PeerRefused` | end of the dial to the peer |
| `PeerRead`, `ReadIdle`, `PeerReadTry` (up to the `Load` of `P2PSuccess`) | `DataHandler` |
| `P2PSuccessStore`, `P2PSuccessDelete` or `P2PSuccessOwn` | the rest of `P2PSuccess`; the write to a promoted context that is still being dialed panics and closes the channel of the reader |
| `SockClosed`, `PunchClosed` | the channels |
| `RangeP2P`, `DeleteP2P`, `RangeTry`, `DeleteTry`, `stopP2pSockets` | `stateCheck` |
| `Stop`, `Start` | life cycle |
| `GoSilent`, `Expire`, `CoolDown` | the three clock comparisons |

Abstractions. Messages are not stored: a UDP network may lose, repeat and reorder
them, so any message may be read at any time from an open channel. Time appears as
the truth of the comparisons the code makes. `uint32(now - LastReceive)` wraps for
a context that hears something in the second after `now` was read; `RangeP2P`
therefore chooses a set `late` of contexts just heard that count as silent.
`PingTryCount` is written by three goroutines without a lock, so the reset of a
read may be lost (`AfterRead`). Counters that the code only compares with a limit
saturate at it. Assumed: the frames read from a peer socket carry the mac it was
dialed for, and `AppConfig.Offline` is more than 7 seconds (65 or 90 in the shipped
configurations), which makes the branch at lines 95-99 unreachable.
`DeleteFailedP2P` has no caller. `saveFailPunchInfo`, the walks of `PeerStateChanged`
and those of `ResetP2PSocks` are one action each.

### WorkerPool

One step per channel operation. `calls[t]` is the progress of `AddTask` for task
`t`: past its test (`checked`), sent, refused, or ended by a send on the closed
channel. `dispatch` is where the dispatcher is, `hand` its local variable,
`worker[w]` and `inbox[w]` a worker goroutine and its one-slot channel. A receive
from `readyWorkers` with the send to that worker is one step, which is justified by
the property `ReadyAreWaiting`: the inbox of a ready worker is empty.

### ServerLink

The life cycle of RuntimeService and its connection to the server. One
`ServerSockContext` is shared by every channel the service opens (`connected`,
`heard`, `handler`, `boot`), so events of an old channel change the fields by which
the new one is judged. `chan[c]` is the life of a channel, `pc[k]` where a goroutine
is in `stateCheck`.

| Action | Code |
|---|---|
| `FirstTest`, `Tick`, `NetPing`, `Reset`, `Leave` | `stateCheck` with `IsConnected` and `stopAllSockets` |
| `ServerPing`, `HandleActive`, `DialFails`, `Bound` | `initServerSocket`; the handler runs inside `Connect` |
| `Registered`, `AuthSent` | `SendAuthRequest` from the loop; its last assignment comes after the write |
| `Frame`, `AuthAck`, `AuthRefused` | `HandleRead` with `processMsg` and `ProcessAuthResponse` |
| `BeginClose`, `HandleInactive`, `HandleException`, `ReadLoopEnds` | the end of a channel, one step per event that reaches the shared context |
| `Stop`, `Start` | the halves of `Restart` |
| `GrowLate`, `NetChange`, `Lose` | the clock comparisons of `IsConnected`, the network |

Abstractions. Only the registration is told apart from other frames; `asked` holds
the channels with a request or an answer on the way, which may be repeated, delayed
and lost. The loop test `r.running` is made in the step that returns to the loop
(`Loop`), so the timer can still win over a cancellation, once. The 150 ms between
the halves of `Restart` are modelled as what they achieve: when `Start` runs, an old
`stateCheck` has left unless it is blocked in a ping, which lasts up to a second. Such
a goroutine then sees the new context instead of the cancelled one and runs beside the
new `stateCheck`. `overlapped` records that this has happened; the properties of the
link are stated for executions without it, since the code has nothing to prevent two
loops from replacing each other's channels. After an overlap the model is coarser:
the new Bootstrap appears with its channel and not just before `Connect`.

### SerialPort

Both sides of the connections from one peer to another. A context is named by the
connection it was made for. `pc[k]` is where a call of the user interface is: dialing,
in the 50 ms of `Stop`, after the write and before its waiter is registered, in the
select, past it. Frames of a connection arrive in order; those of different
connections in any order, and the server finds the context by peer id for all of them.
`Silent` says when `now-LastReceive > 65` may hold: no registered connection with
running loops is left, and nothing is on the way. `Auth` replaces a context without
stopping it (`serial_service.go:117-122`); the sweep never sees such a context again, and
its ports stay open for ever: `PortReleased` speaks of the context that is stored.
`late` counts the calls that have timed out, `beside` records that two calls have been
under way at once, which the user interface does not exclude. Calls that time out, changed peers
and broken connections share the bound `MaxFaults`. `PortService.Stop`, the bytes that
pass a port and the goroutines that read them are left out.

### NetworkCard, PeerDirectory, PeerRequests, Configuration

`NetworkCard`: `starts` and `readers` say where the goroutines of `Start`, `Stop` and
`readTap` are; they meet in the plain fields `state` and `tapper`. On Linux a read of
a closed device may never return (`Parked`), on Windows it returns with an error.

`PeerDirectory`: the link is UDP, so `told` is the set of frames that may arrive, in any
order, once, again or never, and `unread` those that have not arrived yet. Pages of two
answers that arrive mixed flip the cookie (`runtime_service.go:747`) and clear the list
each time, without any loss. `ClearMap` deletes key by key, beside the read loop. `sure`
records that nothing disturbs the last answer: no older page or change was on the way when
it was sent, none of it was lost before it arrived, and no change has overtaken it. From
then on the list is right again. The server is modelled from the frames the code expects
of it.

`PeerRequests`: what was sent may arrive at any later time, again or never, in both
directions. The cookie of an answer is the second of the clock of the peer that answers,
since `rand.Seed(time.Now().Unix())` precedes it (`runtime_service.go:788`): pages of
answers of one second, or repeated pages, are mixed, and `LinksOfOneSecond` says that no
others are. A channel of `UpdateConfig` is named by the number of its call. The
read loop can be left in the send to a waiter that has timed out and not yet deleted
its entry; the model has this, and it blocks the loop for ever (line 680). That
concurrent access to Go's maps may also end the program is not modelled.

`Configuration`: the savers are the user interface, which writes the file and then
replaces the object, and the read loop, which encodes the password in the object,
marshals and restores it. `enc` counts encodings. A crash inside `WriteFile`
leaves a file that is not parsed; the next start takes the branch of the defaults, which
writes passwords that are encoded twice and runs with the defaults. `defaulted` marks the
time from there to the next save. `clash` records that both savers were at work together,
when a save may be lost for good; the properties are stated up to then.

### The netty library

`NettyChannel`: one channel with the goroutines that serve, read, write, use and
close it and the callback of its idle timer, which belongs to the read or to the write
idle handler. `posted` and `closed` are tested by one goroutine and set by another.
`serve` tells the handlers of the active channel before it starts the loops, and a service
may write and close from the moment `HandleActive` has published the handler
(`Published`). Before the loops run nothing empties the queue, so early writes are kept
below its capacity (`LeavesRoom`; 128 in the code), as a handler that fills it would wait
for itself.
It implements `AbstractChannel` with `up <- transport # "closed"`: accepted packets
reach the transport in order, and while it is open they all do. The refinement is stated in
two parts, `KeepsPromise` for its steps, which is proved, and `Delivers` for its
fairness. The program counter `crashed` is the nil
call of `fireChannelException` after `Close` has cleared the pipeline; the callbacks of
the idle timer recover from a panic of their handlers and reach it too
(`handler.go:306-311`), while `serveChannel` has a reference of its own and does not.

`Pipeline` keeps the contexts as the code links them, with `next`, `prev`, type and
size; the refinement mapping to `AbstractPipeline` is the walk along `next`. The loops
that search a position or add a group of handlers are recursive functions over the
number of the turn. The loops of the channel fire at the head or
the tail; a write, a close or a trigger of a handler starts at its own context, whichever
that is. Events run handler by handler; each handler keeps the event or passes it on.
`called` records the last call that filled or served the pipeline, so that the abstract
list can say for each of AddFirst, AddLast, AddHandler and the executor the one place
where its handlers go.

`Listener`: one goroutine calls Listen and Stop, each Listen starts an accept loop.
The factory is also the acceptor, so a second Listen closes the new listener instead of
the old one, and the old loop and the new one compete; Stop may clear the acceptor a
loop is about to call, which ends the process (`crashed`). `UdpAcceptor`: `mainLoop`,
`Accept`, the reader of each transport and the two callers of its Close; any error of a
read makes `mainLoop` sweep its table, also one on an open socket (`ReadError`). The services
listen over TCP only, and use neither the UDP acceptor nor the codecs of `FrameCodecs`.

`ProtobufCodec` and `FrameCodecs` compute on sequences of bytes with a small base, the
lengths digit by digit (`Digits`); reads cut the stream anywhere. `DealFrame` is one turn
of the loop of `readAndDeal`, and `Deal` makes as many turns as there are bytes and one
more, since each turn but the last takes a byte off the buffer. A frame whose handler panics makes the serial codec
drop what it has buffered, so frames are followed up to the first one.

## Runs

| Run | Checks | Result |
|---|---|---|
| `P2pSafety` | `ContextsSeparate`, `TryIsDialedOrOpen` | hold |
| `P2pPunching` | `PunchIsDialedOrOpen` | holds |
| `P2pLiveness` | `SilenceBounded`; `TryResolved`, `DeadLinkEvicted` under `FairSpec` | hold |
| `Pool` | `WorkersCounted`, `ReadyAreWaiting`, `TaskOnce`, `CloseIsSafe`, `SentTasksRun`, `StopWithWorkerCloses` under `FairSpec` | hold |
| `PoolStop` | `StopDrains` (comments at `worker_pool.go:182` and `:99`) | violated |
| `PoolClose` | `NoSendOnClosed` (comment at `worker_pool.go:199`) | violated |
| `ServerLink` | `DeadChannelReplaced`, `LinkRecovers` under `FairSpec` | hold |
| `ServerRestart` | `OneLink` with two goroutines that run `stateCheck` | holds |
| `Services` | serial: `PortsBacked`, `ContextEvicted`, `PortReleased`; card: `CardServed`, `CardHonest`; requests: `LinksOfOneSecond`, `NoStaleChannel`, `CallsReturn`; configuration: `ConfigDurable`, `RuntimeCurrent` | hold |
| `Directory` | `DirectoryCurrent` | holds |
| `Wire` | channel: `NothingLost`, `TimerFollowsChannel`, `Cancelled`, `WriteReturns`, `KeepsPromise` (refinement), `Delivers` (liveness of the abstract channel); pipeline: `EventsDelivered`, `ImplementsList` (refinement); listener: `Attended`, `StopEndsLoops`; UDP: `PeersApart`, `AcceptorCloses`; codecs: `FramesIntact`, `RoundTrip` | hold |
| `SerialRegistered` | `RegisteredIsServed` (tip at `serial_service.go:143`) | violated |

What the violations show: a caller of `AddTask` that is past its test when the pool is
stopped, with an empty queue and no worker, still sends its task; `dispatch` then waits for
a ready worker at `worker_pool.go:186` for ever, and the task never runs; `AddTask` can send on the closed queue; the UnAuth of a replaced serial
connection stops the context of the new one, whose caller is told that it is
registered.

Met while modelling, without a run of their own: `stopP2pSockets` asserts the struct type
`punchSockContext` while the map holds pointers, and so stops no punch socket; an expired punch context leaves
without a failure record, although the comment at `p2p_service.go:36` says it moves to
the failures; a P2PTry frame read on an old socket promotes a new one that nothing was
heard on; `Uvarint32` says it returns a negative count for values above 32 bits and
does so only from the sixth byte on; `compareIP` compares the digits of two addresses as
one number, so 192.168.1.100 sorts behind 192.168.10.2 although the comment says by
address; `readSerial` sets `Running` when it starts, also if the port was closed before.

Bounds. Every race of P2pService is between goroutines that work on the same mac:
maps are only indexed by the mac of the message or context at hand, except by
sweeps and resets, which treat every entry alike. So one mac with two contexts and
two read loops (three punching goroutines with the tap) exhibits them; the theorems
cover every number of macs. In `P2pSafety` one goroutine punches at a time (`OnePuncher`),
as the races between several are the subject of `P2pPunching`; `P2pLiveness` has one
context of each kind and one read loop, so that its temporal properties can be checked
in the time of a run; a context that is dropped there comes back with a new dial, so old
and new lives of a context follow each other, but two do not compete. `P2pTryCount`,
`PingLimit` and `FailLimit` (3, 10 and the configured number in the code) are small so that
the limits are reached: one count and the limit where liveness depends on counting, at most one
in the runs about the maps, which are larger; `P2pLiveness` passes with limits of two
as well. The pool has more tasks than workers, more
workers than `idleWorkers` and a queue of one, so that every channel is full in some
state. The link has an old and a new channel, which is what its races are between,
and a second `stateCheck` in the run about restarts. Serial: an old and a new
connection, one port and one caller beside the sweep and the peer goroutine, one fault.
`PortsBacked` speaks of the time up to the first call that times out (`late`) or meets
another one (`beside`), because it is lost then: a later call takes the late answer for
its own; and OpenPort and ClosePort of the same port, side by side, may end with the local
port open and the device closed, when ClosePort has closed both before OpenPort, which has
its answer, stores the port. A second caller would add nothing before that moment, so the
run has one; the theorem holds for any number. Card: two
devices and two readers, an old one and a new one. Directory: two peers, answers of two
cookies, two requests and two frames on the way before another is sent, one change.
Requests: two callers, two calls, answers of two pages, a clock of two seconds, three looks
of a poll, and three stored pages, so that a repeated page is stored too.
Configuration: two saves and one crash, so that a save follows or meets another. Channel:
one user, one timer callback, two packets over a queue of one (with this capacity
`LeavesRoom` lets a user only close before the loops run, not write; a queue of two and
three packets pass as well, in more time than a regular run should take, and the proofs
cover every capacity). Pipeline: three
handlers of four types, added one or two at a time, every order and every event.
Listener: two Listens, two connections. UDP: two addresses, two packets each, queues of
one. Codecs: digits of two values in `ProtobufCodec` and bytes of four in `FrameCodecs`,
length fields of one and two bytes, so that headers of one byte and of more occur; three
frames, among them one above the limit, one whose handler panics, an empty one and one
longer than a read; every cut of the stream.
Deadlock is not checked: the systems may stop, and rest then.

The modules of `Services`, and those of `Wire`, have no variable in common. The
harness chooses one of them at the start, and only that one moves: the run explores
the sum of their states and not the product. Each module keeps its own Next; where
they meet in the code (an AuthAck starts the card and empties the directory, a form
restarts the services) the other side is an action of each module that may happen at
any time.

Symmetry is used only in runs without liveness: contexts, read loops, tasks, workers
and channels are interchangeable. The view of `MCP2pService` drops the fields that no
step and no checked property can read in the given state (for instance the
`TryConnCount` of a context that is not in `p2pTrySocks`, or `LastReceive` of one that
neither a map nor a `P2PSuccess` under way refers to); the module says why for each.

Fairness. P2pService: the ticker goroutine keeps running and time passes; nothing is
assumed of the network, of the other peers, of the callers. WorkerPool: goroutines
that can run do run, senders blocked on a channel are served in turn (Go's channels
queue them), `select` chooses among ready cases at random, so a case that stays
ready is chosen at some time, and every task returns. ServerLink: `stateCheck` runs
(its pings and dials have timeouts), the loops of a channel see its end, time passes,
and a server that can be reached and is asked again and again answers one of the
requests (strong fairness of `AuthAck`, on open channels only). `LinkRecovers`
counts the state after a failed start of the network card as registered: the server
has accepted, and its frames may keep that state for ever. `MCServices`: the loops that
read a connection, the rest of a `Stop` that has begun and the two sweeps run; the
goroutines of the card run, and the server goes on to acknowledge; a call that has begun
goes on, with its timeout. `MCWire`: every goroutine that is not waiting runs; a read of
an open transport may wait for ever, nobody need call, and no timer need fire.

## Proofs

Every safety invariant that a run checks is also a theorem, and so are the refinement of
`AbstractPipeline` and the safety half of that of `AbstractChannel`. The theorems hold
for every value of the constants that satisfies the named assumption of the module. The
type invariants are theorems and not part of a run.

| Module | Theorems | Assumption |
|---|---|---|
| `P2pServiceProofs` | `TypeCorrect`, `ServiceInvariant`, `ContextsAreSeparate`, `TriesAreDialedOrOpen`, `SilenceIsBounded`, `PunchesAreDialedOrOpen` | `ConstantsAssumption`: the names differ, limits are numbers |
| `WorkerPoolProofs` | `TypeCorrect`, `PoolInvariant`, `WorkersAreCounted`, `ReadyWorkersWait`, `CloseNeverPanics`, `TasksRunOnce` | `PoolAssumption`: finitely many workers, a queue with room, `idleWorkers <= maxWorkers` |
| `ServerLinkProofs` | `TypeCorrect`, `LinkInvariant`, `LinksNeverLeak` | `LinkAssumption`: the names differ |
| `NettyProofs` | `ChannelTimer`, `ChannelInvariant`, `ChannelTypes`, `ChannelNothingLost`, `ChannelKeepsPromise`, `ListenerAttended`, `UdpPeersApart` | `ChannelAssumption`: a queue with room, the goroutines differ; `ListenAssumption`, `UdpAssumption`: the bounds are numbers |
| `PipelineProofs` | `PipeDelivery`, `PipeImplementsList` | `PipeAssumption`: the head, the tail and the executor are of types of their own, the bounds are numbers |
| `CodecProofs` | `FrmRoundTrip`, `CodFramesIntact` | `FrmAssumption`: a byte has at least four values, lengths are positive, the delimiter is not empty (the constructors assert this); `CodAssumption`: a word has at most five digits and a read holds five bytes (32 bits in digits of 7, 2048 bytes), the limit is a word |
| `ServiceProofs` | `CardTypes`, `CardIsServed`, `ReqTypes`, `LinksShareSecond`, `ChannelsNeverStale`, `ConfInvariant`, `ConfigIsDurable`, `RuntimeIsCurrent`, `DirTypes`, `DirectoryIsCurrent` | `CardAssumption`, `ReqAssumption`, `ConfAssumption`, `DirAssumption`: names differ, bounds are numbers, the defaults are values of their fields, a finite group, cookies are not 0 |
| `SerialPortProofs` | `SerialTypes`, `PortsAreBacked` | `SerialAssumption`: names differ |

How they go, and which invariants they need:

- P2pService. `ServiceInv` is `ContextsSeparate`, `SuccessKnown` (what `P2PSuccess` has
  loaded belongs to the mac of its read loop), `TryIsDialedOrOpen`, `DialersKnown`
  (a goroutine dials a context for the mac it was given) and `RoundsCounted` (the
  auxiliary count of silent sweeps is at most `PingTryCount`). `DialersKnown` is needed
  because a failed dial deletes by mac and must hit its own context; `RoundsCounted`
  because the bound on silent sweeps is a bound on the counter the code keeps. Most
  actions only take entries out of the maps; the lemma `OnlyRemoves` deals with them
  at once. `PunchInv` adds `PunchersKnown` and `RemovedKnown` (whatever a sweep has
  marked has a mac, so giving it up names a map entry).
- WorkerPool. `PoolInv` adds to the properties what an inbox can hold in each state of
  its worker and that a closed pool counts no worker. `TaskOnce` counts the places of a
  task: the lemmas on `Queued` say what `Append` and `Tail` do to the number of its
  places in a queue, those on `Carriers` what a send or a receive does to the number of
  workers that have it, and each action moves one place. It needs `HandFree`, that
  `dispatch` holds a task only between its receive and its send, and `InboxShape`.
- ServerLink. `OneLink` is not inductive: that `stopAllSockets` leaves nothing open
  needs that no other `stateCheck` is between `Connect` and the assignment of
  `serverChannel` (`OneChecker`), and that a new channel is the only one needs that
  nothing was open before the dial (`Unlinked`). The lemma `LinkQuiet` deals with the
  steps of channels and of the clock, `LinkMove` with the steps of `stateCheck` that
  leave the channels alone.
- NettyChannel. `ControlInv` says where each goroutine can be and where it goes on
  after Write and Close (`InCode`), that the loops have not begun while the handlers are
  told of the channel and nobody uses it before (`NotServed`), that the body of Close runs under its flag, and how the timer follows
  it (`TimerKept`). `DataInv` says what the write loop holds (`WriterHolds`). With
  them every step accepts one packet, puts the next accepted ones on the wire, closes,
  or is a stutter of `AbstractChannel`: `ChannelKeepsPromise`.
- Listener. `LsnInv`: the one open listener is the one the factory holds
  (`OneListener`), and it is attended also while Stop is about to close it.
- UdpAcceptor. `UdpInv`: who has passed the flag of Close leaves a closed transport
  (`CloseFollows`), `mainLoop` carries the last packet of an address to the transport
  of the table and forgets only closed ones (`MainFollows`), and the packet it carries
  is later than all its address was given (`GivenBefore`).
- NetworkCard and PeerRequests. `CardServed`, `LinksOfOneSecond` and `NoStaleChannel`
  are inductive relative to the types.
- Configuration. `ConfInv` follows what the two properties say through the steps of
  each saver: the savers are apart (`SavesApart`), what is encoded in place
  (`InPlaceEncoding`), what the file holds in between (`FileFollows`) and what the
  services run with (`RuntimeFollows`). All of it is for executions in which the savers
  have not overlapped; with an overlap a save may be lost.
- PeerDirectory. `DirInv` says of the time in which nothing disturbs the last answer:
  every frame on the way tells the truth about its peer (`Truthful`), and either no page of
  the answer has arrived and all are on the way under a new cookie (`Arriving`), or one has
  and each peer is right in the directory or in an unread frame that completes it
  (`Arrived`).
- SerialPort. `SerialInv` says that, until a call has timed out or met another one, requests and answers
  alternate (`Synchronous`): at most one request or answer is on the way on all
  connections (`OneInFlight`), it is that of the call which waits, or is going to wait,
  for it (`Owned`); connections not dialed are nobody's (`Undialed`); a context that is
  being connected has no ports (`Portless`); the port a call opens is not open and the
  one it closes no longer is (`Asking`); and a successful answer speaks of a port that
  is still open (`AnswerTrue`). The lemma `StepSync` deals with all steps that send
  nothing but UnAuth; the steps that write a request, answer it or take the answer have
  a lemma each. The theorem has no hypothesis on the callers: that calls may overlap is in
  the specification, and `beside` remembers that they did.
- Pipeline. `PipeInv` says that the contexts are linked to a list (`Listed`): there is a
  walk from the head to the tail that meets every context once and has `next` and `prev`
  as its two directions. Insertion behind position k turns this walk into one with the
  new context at k + 1; that the loops over a group of handlers put them in their order
  there (`Grown`) is an induction over the group. An event that is under way stands on
  its way, which is the walk for forward events and its mirror image for backward ones,
  behind the context it started from, and has been seen by those between the two that
  implement its interface (`UnderWay`); the handler
  that is found next is the first behind the cursor, so nobody between is skipped.
  That `LastIndexOf`, which walks back from the tail, and `ContextAt`, which walks from
  the head, mean the same positions places the executor; with the walks the
  refinement follows action by action (`PipeInserts`).
- FrameCodecs. Each decoder takes from a stream that starts with an encoded message
  exactly that message, and waits for the rest when the stream is a part of it
  (`EncodedDecodes` and the lemmas before it). `FrmInv`: what has been read is the front
  of what was written, and the stream is the bytes of the rest (`Rest`). For a length
  field and a varint this rests on digits: the sum of the digits of a number is the
  number. A fixed base is never needed.
- ProtobufCodec. `CodInv` over TCP: either all frames before the first one that spoils
  reassembly have been handed up (`Spoiled`), or the handed frames are the written ones
  and the buffer with the bytes under way is the rest of the stream, in front of a header
  or inside a frame (`Even`, `Waits`). Within one call of `readAndDeal` every turn keeps
  this (`InStep`), and the loop ends because each turn that goes on takes a byte. Over
  UDP: a header has at most five bytes, which one read always holds, so the header is
  that of the datagram just read and the bytes behind it never take part in a frame.
  TLC has checked `CodInv` and `FrmInv` on the instance of `Wire`.

Induction over data. The library's induction theorems take an operator as a parameter,
which the provers cannot instantiate; its theorem `WFMin` on minimal elements takes a set.
`LeastNumber` and `InductiveSet` in `PipelineProofs` make induction over a set of numbers
of it. A loop is a recursive function over the number of the turn: `LoopRuns` shows that
a function with these equations exists and `LoopUnique` that there is only one, so that the
function defined with CHOOSE has them. `Shifted`, `Number`, `Along`, `AllLast`, `Deal` and
`FlattenSeq` are unfolded in this way.

Only model-checked: the liveness properties, since fairness and ENABLED are beyond the
prover (`TryResolved`, `DeadLinkEvicted`, `SentTasksRun`, `StopWithWorkerCloses`,
`DeadChannelReplaced`, `LinkRecovers`, `ContextEvicted`, `PortReleased`, `CardHonest`,
`CallsReturn`, `Cancelled`, `WriteReturns`, `Delivers`, `StopEndsLoops`,
`AcceptorCloses`). No safety property of a run is left to TLC alone. What TLC shows
besides is that the assumptions have instances, that the interesting states are
reached and that each property can fail.

## Not modelled

- The payload of frames, its encryption and the buffer that both directions of the UDP
  codec share for it; traffic counters.
- The one route that `AddRoute` keeps: a system call and a field.
- `PortService.Stop`, the bytes between a serial port and the network, and the
  external program behind virtual ports.
- Of the length field codec: offset, adjustment and byte order. `buffered.go` and the
  options of sockets.
- Errors of the file system other than a write that a crash cuts off.
- The window, the tray, sorting and formatting for the page, logging.
- The drivers (tuntap, serial, wifi) and arp: system calls. `*.pb.go`: generated by
  protoc. The frontend: display.

## Plan

Done: the modules above, a proof of every safety property of the runs, and the
refinements.

What could follow: the liveness properties, if a prover for fairness and ENABLED becomes
available, and the bytes between a serial port and the network (`PortService.Stop`
included), which no module has yet.
