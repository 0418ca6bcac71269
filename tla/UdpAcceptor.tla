---------------------------- MODULE UdpAcceptor ----------------------------
(***************************************************************************)
(* The server side of the UDP transport: netty/transport/udp.  One socket  *)
(* receives for every peer; mainLoop sorts the packets by remote address   *)
(* into the queues of server transports, creates a transport for an unknown*)
(* address and hands it to Accept.  Each accepted transport is read and    *)
(* closed by its channel, while mainLoop writes into its queue and, when a *)
(* read of the socket fails, closes it too.                                *)
(***************************************************************************)
EXTENDS Naturals, Sequences

CONSTANTS Addrs,          \* remote addresses
          MaxSent,     \* bound: packets each address sends
          MaxTransports,  \* bound: server transports created
          MaxBacklog,     \* capacity of incoming
          QueueCap        \* capacity of receivedQueue (128)

ASSUME UdpAssumption == MaxTransports \in Nat /\ "none" \notin Addrs

Trans == 1..MaxTransports
NoTrans == 0
Closers == {"channel", "mainLoop"}

VARIABLES socket,         \* the listener's socket is open
          sent,           \* packets each address has sent: 1 .. sent[a]
          main,           \* mainLoop: where it is, its packet and transport
          table,          \* transports: the transport of each address
          incoming,       \* transports that wait for Accept
          raddr,          \* address of each transport, or "none"
          flag,           \* isClosed of each transport
          signal,         \* closed (the channel) of each transport is closed
          queue,          \* receivedQueue: its packets, and whether it is closed
          got,            \* packets each transport's reader has read
          owner,          \* "incoming", "channel" or "dropped"
          closing,        \* where each closer of a transport is
          panicked        \* a panic ended the process

udpVars == <<socket, sent, main, table, incoming, raddr, flag, signal, queue, got, owner, closing, panicked>>

MainIdle == [at |-> "read", from |-> "none", packet |-> 0, trans |-> NoTrans]

UdpInit == /\ socket = TRUE
           /\ sent = [a \in Addrs |-> 0]
           /\ main = MainIdle
           /\ table = [a \in Addrs |-> NoTrans]
           /\ incoming = <<>>
           /\ raddr = [t \in Trans |-> "none"]
           /\ flag = [t \in Trans |-> FALSE]
           /\ signal = [t \in Trans |-> FALSE]
           /\ queue = [t \in Trans |-> [packets |-> <<>>, closed |-> FALSE]]
           /\ got = [t \in Trans |-> <<>>]
           /\ owner = [t \in Trans |-> "none"]
           /\ closing = [t \in Trans |-> [w \in Closers |-> "no"]]
           /\ panicked = FALSE

(***************************************************************************)
(* mainLoop                                                                *)
(***************************************************************************)
Fresh == {t \in Trans : raddr[t] = "none" /\ \A u \in Trans : u < t => raddr[u] # "none"}

(* A packet of a known address is on its way to its transport.             *)
ReadKnown(a) ==
    /\ socket /\ main.at = "read" /\ sent[a] < MaxSent /\ table[a] # NoTrans
    /\ sent' = [sent EXCEPT ![a] = @ + 1]
    /\ main' = [at |-> "test", from |-> a, packet |-> sent[a] + 1, trans |-> table[a]]
    /\ UNCHANGED <<socket, table, incoming, raddr, flag, signal, queue, got, owner, closing, panicked>>

(* An unknown address gets a transport, if incoming has room for it; if    *)
(* not, transport and packet are dropped.                                  *)
ReadUnknown(a) ==
    /\ socket /\ main.at = "read" /\ sent[a] < MaxSent /\ table[a] = NoTrans
    /\ sent' = [sent EXCEPT ![a] = @ + 1]
    /\ \/ /\ Len(incoming) < MaxBacklog
          /\ \E t \in Fresh :
                /\ incoming' = Append(incoming, t)
                /\ table' = [table EXCEPT ![a] = t]
                /\ raddr' = [raddr EXCEPT ![t] = a]
                /\ owner' = [owner EXCEPT ![t] = "incoming"]
                /\ main' = [at |-> "test", from |-> a, packet |-> sent[a] + 1, trans |-> t]
       \/ /\ Len(incoming) = MaxBacklog
          /\ UNCHANGED <<incoming, table, raddr, owner, main>>
    /\ UNCHANGED <<socket, flag, signal, queue, got, closing, panicked>>

(* received: the test of isClosed ...                                      *)
TestClosed ==
    /\ main.at = "test"
    /\ main' = [main EXCEPT !.at = IF flag[main.trans] THEN "forget" ELSE "push"]
    /\ UNCHANGED <<socket, sent, table, incoming, raddr, flag, signal, queue, got, owner, closing, panicked>>

(* A slip of the select: with a default case, a full queue counts as closed.*)
SelectClosedOrFull ==
    /\ main.at = "push" /\ (signal[main.trans] \/ Len(queue[main.trans].packets) = QueueCap)
    /\ main' = [main EXCEPT !.at = "forget"]
    /\ UNCHANGED <<socket, sent, table, incoming, raddr, flag, signal, queue, got, owner, closing, panicked>>

(* ... and the select.  It waits while the queue is full; of two cases     *)
(* that are ready it takes either, and a send on a closed channel panics.  *)
SelectClosed ==
    /\ main.at = "push" /\ signal[main.trans]
    /\ main' = [main EXCEPT !.at = "forget"]
    /\ UNCHANGED <<socket, sent, table, incoming, raddr, flag, signal, queue, got, owner, closing, panicked>>

SelectSend ==
    LET t == main.trans
    IN /\ main.at = "push" /\ (Len(queue[t].packets) < QueueCap \/ queue[t].closed)
       /\ panicked' = queue[t].closed
       /\ main' = MainIdle
       /\ queue' = IF queue[t].closed THEN queue ELSE [queue EXCEPT ![t].packets = Append(@, main.packet)]
       /\ UNCHANGED <<socket, sent, table, incoming, raddr, flag, signal, got, owner, closing>>

(* received returned false: the address is unknown again.                  *)
ForgetTransport ==
    /\ main.at = "forget"
    /\ table' = [table EXCEPT ![main.from] = NoTrans]
    /\ main' = MainIdle
    /\ UNCHANGED <<socket, sent, incoming, raddr, flag, signal, queue, got, owner, closing, panicked>>

(***************************************************************************)
(* udpServerTransport.Close, by the channel and by mainLoop                *)
(***************************************************************************)
At(t, w, from, to) == closing[t][w] = from /\ closing' = [closing EXCEPT ![t][w] = to]

(* The select: the first to close goes on, but so does a second one that   *)
(* comes before the first has closed the channel.                          *)
TestSignal(t, w) ==
    /\ At(t, w, "begin", IF signal[t] THEN "done" ELSE "flag")
    /\ UNCHANGED <<socket, sent, main, table, incoming, raddr, flag, signal, queue, got, owner, panicked>>

SetFlag(t, w) ==
    /\ At(t, w, "flag", "signal")
    /\ flag' = [flag EXCEPT ![t] = TRUE]
    /\ UNCHANGED <<socket, sent, main, table, incoming, raddr, signal, queue, got, owner, panicked>>

CloseSignal(t, w) ==
    /\ At(t, w, "signal", "queue")
    /\ panicked' = signal[t]
    /\ signal' = [signal EXCEPT ![t] = TRUE]
    /\ UNCHANGED <<socket, sent, main, table, incoming, raddr, flag, queue, got, owner>>

CloseQueue(t, w) ==
    /\ At(t, w, "queue", "done")
    /\ panicked' = queue[t].closed
    /\ queue' = [queue EXCEPT ![t].closed = TRUE]
    /\ UNCHANGED <<socket, sent, main, table, incoming, raddr, flag, signal, got, owner>>

CloseStep(t, w) == TestSignal(t, w) \/ SetFlag(t, w) \/ CloseSignal(t, w) \/ CloseQueue(t, w)

(* After an error of a read mainLoop takes the transports out of the table *)
(* and closes them, one after the other, and goes on reading.              *)
TakeOut ==
    /\ \E a \in Addrs :
          /\ table[a] # NoTrans
          /\ main' = [MainIdle EXCEPT !.at = "sweep", !.trans = table[a]]
          /\ At(table[a], "mainLoop", "no", "begin")
          /\ table' = [table EXCEPT ![a] = NoTrans]
    /\ UNCHANGED <<socket, sent, incoming, raddr, flag, signal, queue, got, owner, panicked>>

(* A slip: mainLoop returns when the socket is closed, and only an error of *)
(* an open socket has the transports closed.                               *)
SweepOpenOnly == main.at = "more" /\ TakeOut

(* Every read of a closed socket fails.                                    *)
Sweep ==
    /\ main.at = "more" \/ (main.at = "read" /\ ~socket)
    /\ TakeOut

Swept ==
    /\ main.at = "sweep" /\ closing[main.trans]["mainLoop"] = "done"
    /\ main' = IF \E a \in Addrs : table[a] # NoTrans
                 THEN [MainIdle EXCEPT !.at = "more"] ELSE MainIdle
    /\ UNCHANGED <<socket, sent, table, incoming, raddr, flag, signal, queue, got, owner, closing, panicked>>

(* A read of the open socket may fail too.                                 *)
ReadError == main.at = "read" /\ socket /\ TakeOut

mainLoop == TestClosed \/ SelectClosed \/ SelectSend \/ ForgetTransport \/ Sweep \/ Swept

(***************************************************************************)
(* Accept, the channels and Close of the acceptor                          *)
(***************************************************************************)
(* Accept: of a closed acceptor and a waiting transport it takes either;   *)
(* the accept loop of a cancelled bootstrap closes the transport.          *)
Accept ==
    /\ incoming # <<>>
    /\ owner' = [owner EXCEPT ![incoming[1]] = "channel"]
    /\ incoming' = SubSeq(incoming, 2, Len(incoming))
    /\ UNCHANGED <<socket, sent, main, table, raddr, flag, signal, queue, got, closing, panicked>>

(* Read of the read loop: one packet, or the queue is closed and drained.  *)
ReadPacket(t) ==
    /\ owner[t] = "channel" /\ ~flag[t] /\ queue[t].packets # <<>>
    /\ got' = [got EXCEPT ![t] = Append(@, Head(queue[t].packets))]
    /\ queue' = [queue EXCEPT ![t].packets = Tail(@)]
    /\ UNCHANGED <<socket, sent, main, table, incoming, raddr, flag, signal, owner, closing, panicked>>

(* The channel closes its transport, for its own reasons or because Read   *)
(* has failed.                                                             *)
ChannelCloses(t) ==
    /\ owner[t] = "channel"
    /\ At(t, "channel", "no", "begin")
    /\ UNCHANGED <<socket, sent, main, table, incoming, raddr, flag, signal, queue, got, owner, panicked>>

(* udpAcceptor.Close; Stop calls it once.                                  *)
CloseAcceptor ==
    /\ socket
    /\ socket' = FALSE
    /\ UNCHANGED <<sent, main, table, incoming, raddr, flag, signal, queue, got, owner, closing, panicked>>

UdpNext == /\ ~panicked
           /\ \/ \E a \in Addrs : ReadKnown(a) \/ ReadUnknown(a)
              \/ mainLoop \/ ReadError
              \/ \E t \in Trans : \/ ReadPacket(t) \/ ChannelCloses(t)
                                  \/ \E w \in Closers : CloseStep(t, w)
              \/ Accept \/ CloseAcceptor

UdpSpec == UdpInit /\ [][UdpNext]_udpVars

(***************************************************************************)
(* Properties                                                              *)
(***************************************************************************)
(* A peer has one transport: of the transports of an address at most one   *)
(* is open, and it is the one its packets are routed to, until mainLoop    *)
(* takes it out to close it.                                               *)
OnePerPeer ==
    \A t \in Trans : raddr[t] # "none" /\ ~flag[t] =>
       \/ table[raddr[t]] = t
       \/ main.at = "sweep" /\ main.trans = t

(* The packets a transport has been given, read or not.                    *)
Given(t) == got[t] \o queue[t].packets

(* What a transport receives is what its peer sent: packets of its own     *)
(* address, in the order of their arrival, none twice, and none that an    *)
(* earlier transport of that address was given.                            *)
OwnPackets ==
    \A t \in Trans : raddr[t] # "none" =>
       /\ \A i \in 1..Len(Given(t)) : Given(t)[i] \in 1..sent[raddr[t]]
       /\ \A i, j \in 1..Len(Given(t)) : i < j => Given(t)[i] < Given(t)[j]
       /\ \A u \in Trans \ {t} : raddr[u] = raddr[t] =>
             \A i \in 1..Len(Given(t)), k \in 1..Len(Given(u)) : Given(t)[i] # Given(u)[k]

(* Peers are kept apart: one open transport each, with its own packets.    *)
PeersApart == OnePerPeer /\ OwnPackets

(* Closing the acceptor closes every transport it has created, unless the  *)
(* process has panicked or mainLoop waits for room in the queue of a       *)
(* transport that nobody has accepted.                                     *)
AcceptorCloses ==
    []<>(\/ socket \/ panicked
         \/ \A t \in Trans : raddr[t] # "none" => flag[t]
         \/ main.at = "push" /\ owner[main.trans] = "incoming")

(***************************************************************************)
(* The inductive invariant of PeersApart                                   *)
(***************************************************************************)
UdpTypeOK ==
    /\ sent \in [Addrs -> Nat]
    /\ table \in [Addrs -> Trans \cup {NoTrans}]
    /\ raddr \in [Trans -> Addrs \cup {"none"}]
    /\ flag \in [Trans -> BOOLEAN] /\ signal \in [Trans -> BOOLEAN]
    /\ queue \in [Trans -> [packets : Seq(Nat), closed : BOOLEAN]]
    /\ got \in [Trans -> Seq(Nat)]
    /\ closing \in [Trans -> [Closers -> {"no", "begin", "flag", "signal", "queue", "done"}]]
    /\ main \in [at : {"read", "test", "push", "forget", "sweep", "more"}, from : Addrs \cup {"none"},
                 packet : Nat, trans : Trans \cup {NoTrans}]

(* Whoever has passed SetFlag, or has seen that another one did, leaves a  *)
(* closed transport behind.                                                *)
CloseFollows ==
    \A t \in Trans : /\ signal[t] => flag[t]
                     /\ \A w \in Closers : closing[t][w] \in {"signal", "queue", "done"} => flag[t]

(* mainLoop carries the last packet of an address to the transport the     *)
(* table has for it, which it forgets only once that one is closed, and it *)
(* sweeps one transport at a time.                                         *)
MainFollows ==
    /\ \A a \in Addrs : table[a] # NoTrans => raddr[table[a]] = a
    /\ main.at \in {"test", "push", "forget"} =>
          /\ main.from \in Addrs /\ main.trans \in Trans
          /\ table[main.from] = main.trans /\ main.packet = sent[main.from] /\ main.packet > 0
    /\ main.at = "forget" => flag[main.trans]
    /\ main.at = "sweep" => main.trans \in Trans

(* The packet mainLoop carries is later than every one its address has     *)
(* been given, and a transport without an address has been given none.     *)
GivenBefore ==
    \A t \in Trans :
       /\ raddr[t] = "none" => Given(t) = <<>>
       /\ main.at \in {"test", "push"} /\ raddr[t] = main.from =>
             \A i \in 1..Len(Given(t)) : Given(t)[i] < main.packet

UdpInv == UdpTypeOK /\ CloseFollows /\ MainFollows /\ GivenBefore /\ PeersApart
=============================================================================
