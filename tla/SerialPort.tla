----------------------------- MODULE SerialPort -----------------------------
(***************************************************************************)
(* Remote serial ports (src/serial): the requests of a client peer, whose  *)
(* ClientContext dials a TCP connection to the other peer, and the server  *)
(* side of it, a ServerContext that opens the real ports.                  *)
(*                                                                         *)
(* Both sides keep one context per peer id, whichever connection it came   *)
(* from, and look it up by that id for every frame of every connection.  A *)
(* context is named here by the connection it was made for.  Goroutines:   *)
(* calls of the user interface, stateCheck, the handling of a changed peer *)
(* state, and one read loop at each end of each connection.  The requests  *)
(* of the opposite direction use the other two maps; only deleteContext    *)
(* reaches both, which is PeerStateChanged as seen from here.              *)
(*                                                                         *)
(* Frames of a connection arrive in order.  Ping, Pong, State and data     *)
(* frames only refresh LastReceive; they are not modelled one by one, see  *)
(* Silent.                                                                 *)
(***************************************************************************)
EXTENDS Naturals, Sequences

CONSTANTS
    MaxConns,     \* bound: how many connections are dialed
    Ports,        \* names of remote ports
    Callers,      \* goroutines of the user interface
    Calls,        \* what they call
    MaxFaults,    \* bound: how many calls time out, peers change, connections
                  \* break
    None

\* The connections, and the contexts that are made for them.
Conns == 1..MaxConns

ASSUME SerialAssumption ==
    /\ MaxConns \in Nat
    /\ None \notin Ports /\ None \notin Nat
    /\ Callers \cap {"sweep", "peer"} = {}
    /\ Calls \subseteq {"connect", "disconnect", "open", "set", "config", "list",
                       "ports", "close"}
    /\ MaxFaults \in Nat

VARIABLES
    clientCtx,    \* PortService.clientCtx of the client, at the server's id
    serverCtx,    \* PortService.serverCtx of the server, at the client's id
    cch, sch,     \* the channel and the handler at either end of a connection
    up, down,     \* frames on the way to the server and to the client
    handler,      \* ClientContext.handler, as the connection it writes to
    cports,       \* keys of ClientContext.portCtx
    sports,       \* keys of ServerContext.portCtx
    msgResult,    \* ClientContext.msgResult
    pc,           \* the callers and background goroutines of the client
    late,         \* how many calls have timed out
    beside,       \* history: two calls have been under way at once
    faults        \* how many peers have changed or connections broken

client == <<clientCtx, handler, cports, msgResult>>
server == <<serverCtx, sports>>
net == <<cch, sch, up, down>>
vars == <<clientCtx, serverCtx, cch, sch, up, down, handler, cports, sports,
          msgResult, pc, late, beside, faults>>
past == <<late, beside>>

Actors == Callers \cup {"sweep", "peer"}

\* ResultType with the name of the port.
Keys == {<<"auth", None>>, <<"list", None>>}
        \cup {"open", "close", "config"} \X Ports

Msg(kind, port, ok) == [kind |-> kind, port |-> port, ok |-> ok]

Msgs == [kind : {"Auth", "AuthAck", "UnAuth", "list"}, port : {None}, ok : BOOLEAN]
        \cup [kind : {"open", "close", "config"}, port : Ports, ok : BOOLEAN]

Ops == {"connect", "disconnect", "open", "set", "config", "list", "ports",
        "close"}

\* The key under which op waits: SetPortConfig sends and awaits an OpenPort.
KeyOf(op, p) == IF op = "list" THEN <<"list", None>>
                ELSE <<IF op = "set" THEN "open" ELSE op, p>>

\* Where a goroutine of the client is: before Connect, back from it, in the 50
\* milliseconds of Stop, before WaitAuth, after the write of a request, in a
\* select, past it with an answer or a timeout, before the second try.
Steps == {"idle", "dial", "dialed", "stopping", "stored", "sent", "wait", "got",
          "expired", "again"}

Idle == [at |-> "idle", op |-> "connect", port |-> None, ctx |-> None,
         key |-> <<"auth", None>>, old |-> None, next |-> "idle",
         second |-> FALSE, ok |-> FALSE]

\* An end is new before the dial and open until its handler is registered; the
\* read loop of a client is stuck when it waits in a send nobody receives.
ClientEnds == {"new", "open", "auth", "stuck", "closed"}
ServerEnds == {"new", "open", "auth", "closed"}

Init ==
    /\ clientCtx = None /\ serverCtx = None
    /\ cch = [c \in Conns |-> "new"] /\ sch = [c \in Conns |-> "new"]
    /\ up = [c \in Conns |-> <<>>] /\ down = [c \in Conns |-> <<>>]
    /\ handler = [c \in Conns |-> None]
    /\ cports = [c \in Conns |-> {}] /\ sports = [c \in Conns |-> {}]
    /\ msgResult = [c \in Conns |-> [k \in Keys |-> None]]
    /\ pc = [a \in Actors |-> Idle]
    /\ late = 0 /\ beside = FALSE /\ faults = 0

-----------------------------------------------------------------------------
(***************************************************************************)
(* Channels.  A write to a channel that is not open is dropped without an  *)
(* error (headHandler.HandleWrite), and one whose other end is gone is     *)
(* lost; what has arrived at a closed end is never read.                   *)
(***************************************************************************)
Up(ends, c) == ends[c] \notin {"new", "closed"}

Written(q, ends, others, c, m) ==
    IF c # None /\ Up(ends, c) /\ Up(others, c)
    THEN [q EXCEPT ![c] = Append(@, m)] ELSE q

SentUp(c, m) == Written(up, cch, sch, c, m)
SentDown(c, m) == Written(down, sch, cch, c, m)

Closed(ends, cs) ==
    [c \in Conns |-> IF c \in cs THEN "closed" ELSE ends[c]]

Carry(newUp, newDown) ==
    /\ up' = [c \in Conns |-> IF Up(sch', c) THEN newUp[c] ELSE <<>>]
    /\ down' = [c \in Conns |-> IF Up(cch', c) THEN newDown[c] ELSE <<>>]

Live(c) == Up(cch, c) /\ Up(sch, c)

Fault == late + faults < MaxFaults /\ faults' = faults + 1

Goto(a, where) == pc' = [pc EXCEPT ![a].at = where]

\* The end of a call, as [at |-> "idle"] without what it has referred to.
Return(a) == pc' = [pc EXCEPT ![a] = Idle]

-----------------------------------------------------------------------------
(***************************************************************************)
(* ClientContext.Stop, with what its callers do around it.                 *)
(***************************************************************************)
\* Up to the sleep: UnAuth goes to whatever handler the context has, and the
\* local ports are closed.  deleteContext has closed the handler before.
StopContext(o, hasty) ==
    /\ cch' = IF hasty THEN Closed(cch, {handler[o]}) ELSE cch
    /\ UNCHANGED sch
    /\ Carry(IF hasty THEN up ELSE SentUp(handler[o], Msg("UnAuth", None, TRUE)),
             down)
    /\ cports' = [cports EXCEPT ![o] = {}]

BeginStop(a, o, hasty, next) ==
    /\ StopContext(o, hasty)
    /\ pc' = [pc EXCEPT ![a].at = "stopping", ![a].old = o, ![a].next = next]
    /\ UNCHANGED <<server, clientCtx, handler, msgResult, late>>

\* Past the sleep: the channel and the handler are closed, the context of the
\* id, which may be another one by now, is deleted, and ConnectRemote stores
\* the one it has dialed.  The handler of a context without references is
\* dropped with it.
EndStop(a) ==
    /\ pc[a].at = "stopping"
    /\ LET o == pc[a].old
           shared == \E b \in Actors \ {a} : o \in {pc[b].old, pc[b].ctx}
       IN /\ cch' = Closed(cch, {o, handler[o]})
          /\ UNCHANGED sch
          /\ Carry(up, down)
          /\ handler' = IF shared THEN handler ELSE [handler EXCEPT ![o] = None]
    /\ IF pc[a].next = "stored"
       THEN clientCtx' = pc[a].ctx
       ELSE clientCtx' = None
    /\ IF pc[a].next = "idle" THEN Return(a)
       ELSE pc' = [pc EXCEPT ![a].at = pc[a].next, ![a].old = None]
    /\ UNCHANGED <<server, cports, msgResult, past, faults>>

\* A plausible slip: a context is kept as long as any channel is open.
SilentIfClosed == \A c \in Conns : ~ Up(cch, c)

\* now-v.LastReceive > 65 may hold.  A registered connection whose loops run
\* carries a Ping every 32 seconds, and refreshes the context of the id
\* whether or not it is its own; a frame does not travel for 65 seconds.
Silent ==
    \A c \in Conns :
       /\ cch[c] # "auth" \/ sch[c] # "auth"
       /\ up[c] = <<>> /\ (down[c] = <<>> \/ cch[c] = "stuck")

\* stateCheck at the client.
ClientSweep ==
    /\ pc["sweep"].at = "idle"
    /\ clientCtx # None /\ Silent
    /\ BeginStop("sweep", clientCtx, FALSE, "idle")
    /\ UNCHANGED <<beside, faults>>

\* PeerStateChanged at the client, for a peer that came or went.
ClientPeerChanged ==
    /\ Fault
    /\ pc["peer"].at = "idle"
    /\ clientCtx # None
    /\ BeginStop("peer", clientCtx, TRUE, "idle")
    /\ UNCHANGED beside

-----------------------------------------------------------------------------
(***************************************************************************)
(* Calls of the user interface.                                            *)
(***************************************************************************)
\* Request: GetConnectedPorts only reads, OpenPort and SetPortConfig refuse a
\* port that is open, a context without a handler fails; the rest write.
Request(k, c, op, p, second) ==
    IF op = "ports" \/ (op \in {"open", "set"} /\ p \in cports[c])
                    \/ handler[c] = None
    THEN Return(k) /\ UNCHANGED <<cch, sch, up, down>>
    ELSE /\ UNCHANGED <<cch, sch>>
         /\ Carry(SentUp(handler[c],
                         Msg(KeyOf(op, p)[1], KeyOf(op, p)[2], TRUE)), down)
         /\ pc' = [pc EXCEPT ![k] = [Idle EXCEPT !.at = "sent", !.op = op,
                       !.port = p, !.ctx = c, !.key = KeyOf(op, p),
                       !.second = second]]

\* ConnectRemote, OpenPort, SetPortConfig, GetPortConfig, GetRemotePortList,
\* GetConnectedPorts, ClosePort and DisConnectRemote of PortService.
Call(k) ==
    /\ pc[k].at = "idle"
    /\ beside' = (beside \/ \E l \in Callers : pc[l].at # "idle")
    /\ \E op \in Calls, p \in Ports :
          \/ /\ op = "connect" \/ (clientCtx = None
                                   /\ op \notin {"close", "disconnect"})
             /\ pc' = [pc EXCEPT ![k] = [Idle EXCEPT !.at = "dial", !.op = op,
                                            !.port = p, !.second = TRUE]]
             /\ UNCHANGED <<client, server, net, late, faults>>
          \/ /\ op = "disconnect" /\ clientCtx # None
             /\ BeginStop(k, clientCtx, FALSE, "idle") /\ UNCHANGED faults
          \/ /\ op \notin {"connect", "disconnect"} /\ clientCtx # None
             /\ Request(k, clientCtx, op, p, FALSE)
             /\ UNCHANGED <<client, server, late, faults>>

\* FindPeer or the dial fails.
DialFails(k) ==
    /\ pc[k].at = "dial"
    /\ Return(k)
    /\ UNCHANGED <<client, server, net, past, faults>>

\* ClientContext.Start: HandleActive writes Auth before Connect returns.
Start(k) ==
    /\ pc[k].at = "dial"
    /\ \E c \in Conns :
          /\ cch[c] = "new" /\ \A d \in 1..(c - 1) : cch[d] # "new"
          /\ cch' = [cch EXCEPT ![c] = "open"]
          /\ sch' = [sch EXCEPT ![c] = "open"]
          /\ up' = [up EXCEPT ![c] = <<Msg("Auth", None, TRUE)>>]
          /\ down' = [down EXCEPT ![c] = <<>>]
          /\ pc' = [pc EXCEPT ![k].at = "dialed", ![k].ctx = c,
                              ![k].key = <<"auth", None>>]
    /\ UNCHANGED <<client, server, past, faults>>

\* ConnectRemote stops the present context and stores the new one.
Replace(k) ==
    /\ pc[k].at = "dialed"
    /\ \/ /\ clientCtx = None
          /\ clientCtx' = pc[k].ctx
          /\ Goto(k, "stored")
          /\ UNCHANGED <<server, net, handler, cports, msgResult, past, faults>>
       \/ /\ clientCtx # None
          /\ BeginStop(k, clientCtx, FALSE, "stored") /\ UNCHANGED <<beside, faults>>

\* The waiter is entered in msgResult; ClosePort closes the local port too.
Register(k) ==
    /\ pc[k].at \in {"stored", "sent"}
    /\ msgResult' = [msgResult EXCEPT ![pc[k].ctx][pc[k].key] = k]
    /\ cports' = IF pc[k].key[1] = "close"
                 THEN [cports EXCEPT ![pc[k].ctx] = @ \ {pc[k].port}] ELSE cports
    /\ Goto(k, "wait")
    /\ UNCHANGED <<server, net, clientCtx, handler, past, faults>>

\* case <-time.After(c.cmdTimeout).
Timeout(k) ==
    /\ pc[k].at = "wait"
    /\ late + faults < MaxFaults
    /\ Goto(k, "expired")
    /\ UNCHANGED <<client, server, net, past, faults>>

\* The deferred delete of the entry in msgResult.
Unregistered(k) == [msgResult EXCEPT ![pc[k].ctx][pc[k].key] = None]

\* A plausible slip: the local port is opened whatever the answer.
OpenedLocallyAnyway(k) == {pc[k].port}

\* What OpenPort adds to portCtx: the local port, if it opens.
OpenedLocally(k) == IF pc[k].ok THEN {pc[k].port} ELSE {}

\* The end of ClosePort, which disconnects when no port is left.
ClosePortEnd(k) ==
    IF cports[pc[k].ctx] = {} /\ clientCtx # None
    THEN /\ StopContext(clientCtx, FALSE)
         /\ pc' = [pc EXCEPT ![k] = [Idle EXCEPT !.at = "stopping",
                                                 !.old = clientCtx]]
    ELSE Return(k) /\ UNCHANGED <<net, cports>>

\* An answer: WaitAuth succeeds, and OpenPort, if the remote port is open and
\* the local one opens, stores the port in the context it has called.
Finish(k) ==
    /\ pc[k].at = "got"
    /\ msgResult' = Unregistered(k)
    /\ \/ /\ pc[k].key[1] = "auth"
          /\ IF pc[k].op = "connect" THEN Return(k)
             ELSE pc' = [pc EXCEPT ![k].at = "again", ![k].ctx = None]
          /\ UNCHANGED <<net, cports>>
       \/ /\ pc[k].op = "open" /\ pc[k].key[1] = "open"
          /\ \E new \in {{}, OpenedLocally(k)} :
                cports' = [cports EXCEPT ![pc[k].ctx] = @ \cup new]
          /\ Return(k)
          /\ UNCHANGED net
       \/ /\ pc[k].key[1] # "auth" /\ pc[k].op \in {"set", "config", "list"}
          /\ Return(k)
          /\ UNCHANGED <<net, cports>>
       \/ /\ pc[k].op = "close" /\ pc[k].key[1] = "close"
          /\ ClosePortEnd(k)
    /\ UNCHANGED <<server, clientCtx, handler, past, faults>>

\* No answer in time.  ConnectRemote deletes the context of the id without
\* stopping it; the other calls delete the context and, once, connect again.
Expired(k) ==
    /\ pc[k].at = "expired"
    /\ msgResult' = Unregistered(k)
    /\ clientCtx' = IF pc[k].key[1] = "auth" THEN None ELSE clientCtx
    /\ \/ /\ pc[k].key[1] = "auth" \/ (pc[k].second /\ pc[k].op # "close")
          /\ Return(k)
          /\ UNCHANGED <<net, cports>>
       \/ /\ pc[k].key[1] = "close"
          /\ ClosePortEnd(k)
       \/ /\ pc[k].key[1] \notin {"auth", "close"} /\ ~ pc[k].second
          /\ IF clientCtx # None
             THEN /\ StopContext(clientCtx, TRUE)
                  /\ pc' = [pc EXCEPT ![k] = [@ EXCEPT !.at = "stopping",
                               !.old = clientCtx, !.ctx = None, !.next = "dial",
                               !.second = TRUE]]
             ELSE /\ pc' = [pc EXCEPT ![k] = [@ EXCEPT !.at = "dial",
                               !.ctx = None, !.second = TRUE]]
                  /\ UNCHANGED <<net, cports>>
    /\ late' = late + 1
    /\ UNCHANGED <<server, handler, beside, faults>>

\* The second try, on the context the id has now.
Again(k) ==
    /\ pc[k].at = "again"
    /\ IF clientCtx = None THEN Return(k) /\ UNCHANGED net
       ELSE Request(k, clientCtx, pc[k].op, pc[k].port, TRUE)
    /\ UNCHANGED <<client, server, past, faults>>

-----------------------------------------------------------------------------
(***************************************************************************)
(* The read loop of the client end of a connection.                        *)
(***************************************************************************)
\* processMsg hands an answer to the waiter of the key.  The channel has no
\* buffer: if the waiter has left its select and not yet deleted its entry,
\* the read loop never returns.
Answer(c, o, key, ok) ==
    LET k == IF o = None THEN None ELSE msgResult[o][key]
        waits == k # None /\ pc[k].at = "wait" /\ pc[k].ctx = o
                 /\ pc[k].key = key
    IN /\ pc' = IF waits THEN [pc EXCEPT ![k].at = "got", ![k].ok = ok] ELSE pc
       /\ cch' = [cch EXCEPT ![c] = IF k = None \/ waits THEN "auth" ELSE "stuck"]

\* ClientHandler.processMsg and ProcessServerMessage: the context of the id is
\* used, whichever connection the frame is from.
ClientRead(c) ==
    /\ cch[c] \in {"open", "auth"} /\ down[c] # <<>>
    /\ LET m == Head(down[c])
           o == clientCtx
       IN \/ /\ m.kind = "AuthAck"
             /\ handler' = IF o = None THEN handler
                           ELSE [handler EXCEPT ![o] = c]
             /\ Answer(c, o, <<"auth", None>>, TRUE)
          \/ /\ m.kind # "AuthAck"
             /\ IF cch[c] = "auth" THEN Answer(c, o, <<m.kind, m.port>>, m.ok)
                ELSE UNCHANGED <<cch, pc>>
             /\ UNCHANGED handler
    /\ down' = [down EXCEPT ![c] = Tail(@)]
    /\ UNCHANGED <<server, sch, up, clientCtx, cports, msgResult, past, faults>>

-----------------------------------------------------------------------------
(***************************************************************************)
(* The server side.                                                        *)
(***************************************************************************)
\* ServerContext.Stop of the present context, whose ports and channel are
\* closed, and its deletion.
RemoveServerHandler(newUp) ==
    /\ serverCtx' = None
    /\ sports' = [sports EXCEPT ![serverCtx] = {}]
    /\ sch' = Closed(sch, {serverCtx})
    /\ UNCHANGED cch
    /\ Carry(newUp, down)

\* stateCheck at the server, and PeerStateChanged.
ServerSweep ==
    /\ serverCtx # None /\ Silent
    /\ RemoveServerHandler(up)
    /\ UNCHANGED <<client, pc, past, faults>>

ServerPeerChanged ==
    /\ Fault
    /\ serverCtx # None
    /\ RemoveServerHandler(up)
    /\ UNCHANGED <<client, pc, past>>

\* Auth: the peer must be known; the new context takes the place of another,
\* which is not stopped.
Auth(c, rest) ==
    /\ sch' = [sch EXCEPT ![c] = "auth"]
    /\ UNCHANGED cch
    /\ \/ Carry(rest, down) /\ UNCHANGED <<serverCtx, sports>>
       \/ /\ Carry(rest, SentDown(c, Msg("AuthAck", None, TRUE)))
          /\ serverCtx' = c
          /\ sports' = [sports EXCEPT ![c] = {}]

\* ServerContext.processMsg: OpenPort closes an open port and opens it anew,
\* which may fail.
PortsAfter(o, m) ==
    CASE m.kind = "open" -> {sports[o] \ {m.port}, sports[o] \cup {m.port}}
      [] m.kind = "close" -> {sports[o] \ {m.port}}
      [] OTHER -> {sports[o]}

\* The acknowledgement goes to the connection of the context.  GetConfig of a
\* port without a configuration panics, and is not answered.
Acks(m, ports) ==
    CASE m.kind = "open" -> {<<Msg("open", m.port, m.port \in ports)>>}
      [] m.kind = "close" -> {<<Msg("close", m.port, TRUE)>>}
      [] m.kind = "config" -> {<<>>, <<Msg("config", m.port, TRUE)>>}
      [] m.kind = "list" -> {<<Msg("list", None, ok)>> : ok \in BOOLEAN}
      [] OTHER -> {<<>>}

Process(o, m, rest) ==
    /\ UNCHANGED <<cch, sch>>
    /\ \E ports \in PortsAfter(o, m) : \E acks \in Acks(m, ports) :
          /\ sports' = [sports EXCEPT ![o] = ports]
          /\ Carry(rest, IF acks = <<>> THEN down ELSE SentDown(o, acks[1]))

\* ServerHandler.processMsg and ProcessClientMessage.
ServerRead(c) ==
    /\ Up(sch, c) /\ up[c] # <<>>
    /\ LET m == Head(up[c])
           o == serverCtx
           rest == [up EXCEPT ![c] = Tail(@)]
       IN \/ m.kind = "Auth" /\ Auth(c, rest)
          \/ /\ m.kind # "Auth"
             /\ sch[c] = "open" \/ o = None
             /\ UNCHANGED <<server, cch, sch>> /\ Carry(rest, down)
          \/ /\ m.kind = "UnAuth" /\ sch[c] = "auth" /\ o # None
             /\ RemoveServerHandler(rest)
          \/ /\ m.kind \notin {"Auth", "UnAuth"} /\ sch[c] = "auth"
             /\ o # None
             /\ Process(o, m, rest)
             /\ UNCHANGED serverCtx
    /\ UNCHANGED <<client, pc, past, faults>>

-----------------------------------------------------------------------------
(***************************************************************************)
(* Idle events and faults.                                                 *)
(***************************************************************************)
\* The Ping of a registered end finds that the other end is gone.
ReadIdle(c) ==
    /\ \/ /\ cch[c] \in {"auth", "stuck"} /\ sch[c] = "closed"
          /\ cch' = [cch EXCEPT ![c] = "closed"] /\ UNCHANGED sch
       \/ /\ sch[c] = "auth" /\ cch[c] = "closed"
          /\ sch' = [sch EXCEPT ![c] = "closed"] /\ UNCHANGED cch
    /\ Carry(up, down)
    /\ UNCHANGED <<client, server, pc, past, faults>>

\* One end of a connection fails.
Break(c) ==
    /\ Fault
    /\ Live(c)
    /\ \/ cch' = [cch EXCEPT ![c] = "closed"] /\ UNCHANGED sch
       \/ sch' = [sch EXCEPT ![c] = "closed"] /\ UNCHANGED cch
    /\ Carry(up, down)
    /\ UNCHANGED <<client, server, pc, past>>

\* What a closed end has written is discarded (linger 0).
Lose(c) ==
    /\ \/ /\ cch[c] = "closed" /\ up[c] # <<>>
          /\ up' = [up EXCEPT ![c] = <<>>] /\ UNCHANGED down
       \/ /\ sch[c] = "closed" /\ down[c] # <<>>
          /\ down' = [down EXCEPT ![c] = <<>>] /\ UNCHANGED up
    /\ UNCHANGED <<client, server, cch, sch, pc, past, faults>>

CallerStep(k) ==
    \/ Call(k) \/ DialFails(k) \/ Start(k) \/ Replace(k) \/ Register(k)
    \/ Timeout(k) \/ Finish(k) \/ Expired(k) \/ Again(k)

Next ==
    \/ \E k \in Callers : CallerStep(k)
    \/ \E a \in Actors : EndStop(a)
    \/ ClientSweep \/ ClientPeerChanged
    \/ ServerSweep \/ ServerPeerChanged
    \/ \E c \in Conns : ClientRead(c) \/ ServerRead(c) \/ ReadIdle(c)
                        \/ Break(c) \/ Lose(c)

Spec == Init /\ [][Next]_vars

-----------------------------------------------------------------------------
(***************************************************************************)
(* Properties.                                                             *)
(***************************************************************************)
\* The variables have their types; in particular a context never writes to
\* anything but a connection this peer has dialed.
TypeOK ==
    /\ clientCtx \in Conns \cup {None} /\ serverCtx \in Conns \cup {None}
    /\ cch \in [Conns -> ClientEnds] /\ sch \in [Conns -> ServerEnds]
    /\ up \in [Conns -> Seq(Msgs)] /\ down \in [Conns -> Seq(Msgs)]
    /\ handler \in [Conns -> Conns \cup {None}]
    /\ cports \in [Conns -> SUBSET Ports]
    /\ sports \in [Conns -> SUBSET Ports]
    /\ late \in Nat /\ beside \in BOOLEAN /\ faults \in Nat
    /\ msgResult \in [Conns -> [Keys -> Callers \cup {None}]]
    /\ pc \in [Actors -> [at : Steps, op : Ops, port : Ports \cup {None},
                          ctx : Conns \cup {None}, key : Keys,
                          old : Conns \cup {None}, second : BOOLEAN,
                          next : {"idle", "dial", "stored"}, ok : BOOLEAN]]
    /\ \A k \in Callers :
          /\ pc[k].op # "disconnect" /\ (pc[k].at = "again" => pc[k].op # "connect")
          /\ (pc[k].at \in {"idle", "stopping"} /\ pc[k].next = "idle") \/ pc[k].port \in Ports

\* Until a call has timed out, and until two of them have been under way at
\* once: as long as the client's context is served by the server's context of
\* the same connection, a port that is open at the client is open at the
\* server, unless its close is under way, so that bytes written to the local
\* port of OpenPort reach a device.  Connections may break, be swept and be
\* dialed anew meanwhile.  Beyond those two moments it does not hold: frames
\* carry no number, so a later call takes the late answer for its own, and
\* OpenPort beside ClosePort of the same port may end with the local port open
\* and the device closed.
PortsBacked ==
    late = 0 /\ ~ beside =>
       \A c \in Conns : \A p \in cports[c] :
          clientCtx = c /\ serverCtx = c /\ Live(c) =>
             \/ p \in sports[c]
             \/ \E k \in Callers : pc[k].at = "sent" /\ pc[k].op = "close" /\ pc[k].port = p

-----------------------------------------------------------------------------
(***************************************************************************)
(* The inductive invariant behind PortsBacked: until a call has timed out  *)
(* or two are under way at once, at most one request or answer is on the   *)
(* way, and it is that of the call which waits, or is going to wait, for   *)
(* it.                                                                     *)
(***************************************************************************)
\* A queue without request or answer: UnAuth is not answered.
Calm(q) == \A i \in 1..Len(q) : q[i].kind = "UnAuth"

Single(q) ==
    \A i, j \in 1..Len(q) : q[i].kind # "UnAuth" /\ q[j].kind # "UnAuth" => i = j

CalmConn(c) == Calm(up[c]) /\ Calm(down[c])

OneInFlight ==
    /\ \A c \in Conns : Single(up[c]) /\ Single(down[c]) /\ (Calm(up[c]) \/ Calm(down[c]))
    /\ \A c, d \in Conns : CalmConn(c) \/ CalmConn(d) \/ c = d

AuthKey == <<"auth", None>>

\* Call k has dialed a connection and goes on to store its context.
Storing(k) ==
    pc[k].at \in {"dialed", "stored"} \/ (pc[k].at = "stopping" /\ pc[k].next = "stored")

\* It has no answer to its Auth yet.
Connecting(k) ==
    pc[k].key = AuthKey /\ (Storing(k) \/ pc[k].at \in {"wait", "expired"})

\* Call k has written a request and has no answer yet.
Requesting(k) == pc[k].key # AuthKey /\ pc[k].at \in {"sent", "wait", "expired"}

\* Whose request, and whose answer, a frame on connection c is.
Asks(k, c, m) ==
    \/ m.kind = "Auth" /\ Connecting(k) /\ pc[k].ctx = c
    \/ m.kind # "Auth" /\ Requesting(k) /\ pc[k].key = <<m.kind, m.port>>

Answers(k, m) ==
    \/ m.kind = "AuthAck" /\ Connecting(k)
    \/ m.kind # "AuthAck" /\ Requesting(k) /\ pc[k].key = <<m.kind, m.port>>

Owned ==
    \A c \in Conns :
       /\ \A i \in 1..Len(up[c]) : up[c][i].kind # "UnAuth" =>
             \E k \in Callers : Asks(k, c, up[c][i])
       /\ \A i \in 1..Len(down[c]) : down[c][i].kind # "UnAuth" =>
             \E k \in Callers : Answers(k, down[c][i])

\* A connection that is not dialed is nobody's; the two goroutines beside the
\* callers only stop contexts.
Undialed ==
    /\ \A a \in {"sweep", "peer"} : pc[a].at \in {"idle", "stopping"} /\ pc[a].next = "idle"
    /\ \A c \in Conns : cch[c] = "new" =>
          cports[c] = {} /\ clientCtx # c /\ \A k \in Callers : pc[k].ctx # c

\* A context that is being connected has no ports yet.
Portless(k) ==
    /\ Storing(k) => pc[k].key = AuthKey
    /\ Connecting(k) => pc[k].ctx # None /\ cports[pc[k].ctx] = {}
    /\ pc[k].at = "sent" => pc[k].key # AuthKey
    /\ pc[k].at = "stopping" => pc[k].next \in {"idle", "stored"}

\* A call that waits has asked the context that the id still has, if it has
\* one; the port it wants to open is not open there, and the one it wants to
\* close no longer is.
Asking(k) ==
    pc[k].key # AuthKey /\ pc[k].at \in {"sent", "wait", "got", "expired"} =>
       /\ pc[k].ctx # None /\ clientCtx \in {None, pc[k].ctx}
       /\ pc[k].key = KeyOf(pc[k].op, pc[k].port)
       /\ pc[k].key[1] = "open" /\ pc[k].at # "got" => pc[k].port \notin cports[pc[k].ctx]
       /\ pc[k].key[1] = "close" /\ pc[k].at # "sent" => pc[k].port \notin cports[pc[k].ctx]

\* A successful answer to OpenPort speaks of a port that is still open, if the
\* server still has a context.
AnswerTrue ==
    serverCtx # None =>
       /\ \A c \in Conns : \A i \in 1..Len(down[c]) :
             down[c][i].kind = "open" /\ down[c][i].ok => down[c][i].port \in sports[serverCtx]
       /\ \A k \in Callers : pc[k].at = "got" /\ pc[k].key[1] = "open" /\ pc[k].ok
             => pc[k].port \in sports[serverCtx]

\* Call k has written the close of port p, and has not closed its own end yet.
Closing(k, p) == pc[k].at = "sent" /\ pc[k].op = "close" /\ pc[k].port = p

Backed ==
    clientCtx # None /\ serverCtx = clientCtx => \A p \in cports[clientCtx] :
       p \in sports[clientCtx] \/ \E k \in Callers : Closing(k, p)

\* One call is under way at a time.
OneCallAtATime ==
    \A k, l \in Callers : pc[k].at # "idle" /\ pc[l].at # "idle" => k = l

\* Requests and answers alternate.
Synchronous ==
    /\ OneInFlight /\ Owned /\ Undialed
    /\ \A k \in Callers : Portless(k) /\ Asking(k)
    /\ AnswerTrue /\ Backed

SerialInv ==
    /\ ~ beside => OneCallAtATime
    /\ late = 0 /\ ~ beside => Synchronous

\* stateCheck removes a context of the client that can no longer be reached:
\* no live connection is left whose read loop still runs, so that a read loop
\* that waits for ever on msgResult costs at most this connection.
ContextEvicted ==
    \A c \in Conns :
       ~ <>[](clientCtx = c /\ \A d \in Conns : ~ Live(d) \/ cch[d] = "stuck")

\* A port of the context that the server has stored for the peer is closed in
\* the end when no connection is left, although UnAuth may be lost: stateCheck
\* finds the silence.  A context whose place Auth has given to a newer one is
\* no longer in the map; nothing stops it, and what it has open stays open.
PortReleased ==
    \A c \in Conns :
       ~ <>[](serverCtx = c /\ sports[c] # {} /\ \A d \in Conns : ~ Live(d))

\* ConnectRemote reports success for a connection that is registered at the
\* server (the tip of its AuthAck).
RegisteredIsServed ==
    \A k \in Callers :
       pc[k].at = "got" /\ pc[k].key[1] = "auth" => Live(pc[k].ctx)
=============================================================================
