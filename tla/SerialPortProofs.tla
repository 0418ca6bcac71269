-------------------------- MODULE SerialPortProofs --------------------------
(***************************************************************************)
(* Proofs about remote serial ports, for any number of connections, ports, *)
(* callers and faults: the variables keep their types, and a port that is  *)
(* open at the client has a device behind it at the server, until a call   *)
(* has timed out or two have been under way at once.                       *)
(***************************************************************************)
EXTENDS SerialPort, SequenceTheorems, TLAPS

Pcs == [at : Steps, op : Ops, port : Ports \cup {None}, ctx : Conns \cup {None},
        key : Keys, old : Conns \cup {None}, second : BOOLEAN,
        next : {"idle", "dial", "stored"}, ok : BOOLEAN]

-----------------------------------------------------------------------------
(***************************************************************************)
(* Queues of frames.                                                       *)
(***************************************************************************)
LEMMA AppendTyped ==
    ASSUME NEW q \in Seq(Msgs), NEW m \in Msgs
    PROVE  /\ Append(q, m) \in Seq(Msgs)
           /\ Len(Append(q, m)) = Len(q) + 1
           /\ \A i \in 1..Len(q) : Append(q, m)[i] = q[i]
           /\ Append(q, m)[Len(q) + 1] = m
  BY AppendProperties

LEMMA TailTyped ==
    ASSUME NEW q \in Seq(Msgs), q # <<>>
    PROVE  /\ Tail(q) \in Seq(Msgs) /\ Len(q) > 0
           /\ Len(Tail(q)) = Len(q) - 1
           /\ \A i \in 1..Len(Tail(q)) : i + 1 \in 1..Len(q) /\ Tail(q)[i] = q[i + 1]
           /\ Head(q) = q[1] /\ Head(q) \in Msgs
  OBVIOUS

LEMMA EmptyTyped == <<>> \in Seq(Msgs) /\ Len(<<>>) = 0
  OBVIOUS

\* Connections are numbers, so None is not one of them.
LEMMA NoneNew == None \notin Conns
  BY SerialAssumption DEF Conns

\* What the operators on queues return.
LEMMA CarryTyped ==
    ASSUME NEW newUp \in [Conns -> Seq(Msgs)], NEW newDown \in [Conns -> Seq(Msgs)],
           Carry(newUp, newDown)
    PROVE  /\ up' \in [Conns -> Seq(Msgs)] /\ down' \in [Conns -> Seq(Msgs)]
           /\ \A c \in Conns : up'[c] = newUp[c] \/ up'[c] = <<>>
           /\ \A c \in Conns : down'[c] = newDown[c] \/ down'[c] = <<>>
  BY EmptyTyped DEF Carry

LEMMA WrittenTyped ==
    ASSUME NEW q \in [Conns -> Seq(Msgs)], NEW ends, NEW others, NEW c, NEW m \in Msgs
    PROVE  /\ Written(q, ends, others, c, m) \in [Conns -> Seq(Msgs)]
           /\ \A d \in Conns : d # c => Written(q, ends, others, c, m)[d] = q[d]
           /\ c \in Conns => \/ Written(q, ends, others, c, m)[c] = q[c]
                             \/ Written(q, ends, others, c, m)[c] = Append(q[c], m)
  BY AppendTyped DEF Written

LEMMA SentTyped ==
    ASSUME up \in [Conns -> Seq(Msgs)], down \in [Conns -> Seq(Msgs)], NEW c, NEW m \in Msgs
    PROVE  /\ SentUp(c, m) \in [Conns -> Seq(Msgs)]
           /\ \A d \in Conns : \/ SentUp(c, m)[d] = up[d]
                               \/ d = c /\ SentUp(c, m)[d] = Append(up[d], m)
           /\ SentDown(c, m) \in [Conns -> Seq(Msgs)]
           /\ \A d \in Conns : \/ SentDown(c, m)[d] = down[d]
                               \/ d = c /\ SentDown(c, m)[d] = Append(down[d], m)
  <1>1. /\ SentUp(c, m) \in [Conns -> Seq(Msgs)]
        /\ \A d \in Conns : \/ SentUp(c, m)[d] = up[d]
                            \/ d = c /\ SentUp(c, m)[d] = Append(up[d], m)
    BY AppendTyped DEF SentUp, Written
  <1>2. /\ SentDown(c, m) \in [Conns -> Seq(Msgs)]
        /\ \A d \in Conns : \/ SentDown(c, m)[d] = down[d]
                            \/ d = c /\ SentDown(c, m)[d] = Append(down[d], m)
    BY AppendTyped DEF SentDown, Written
  <1>. QED
    BY <1>1, <1>2

LEMMA MsgTyped ==
    /\ \A kind \in {"Auth", "AuthAck", "UnAuth", "list"}, ok \in BOOLEAN :
          Msg(kind, None, ok) \in Msgs
    /\ \A kind \in {"open", "close", "config"}, p \in Ports, ok \in BOOLEAN :
          Msg(kind, p, ok) \in Msgs
  BY DEF Msg, Msgs

\* The key of a request names its kind and its port, and makes a frame.
LEMMA KeyTyped ==
    ASSUME NEW op \in Ops \ {"connect", "disconnect", "ports"}, NEW p \in Ports
    PROVE  /\ KeyOf(op, p) \in Keys
           /\ KeyOf(op, p) # AuthKey
           /\ Msg(KeyOf(op, p)[1], KeyOf(op, p)[2], TRUE) \in Msgs
  BY MsgTyped DEF KeyOf, Keys, Ops, AuthKey

-----------------------------------------------------------------------------
(***************************************************************************)
(* Types.                                                                  *)
(***************************************************************************)
\* A call that goes on knows what it was called with.
CallTyped(k) ==
    /\ pc[k].op # "disconnect" /\ (pc[k].at = "again" => pc[k].op # "connect")
    /\ (pc[k].at \in {"idle", "stopping"} /\ pc[k].next = "idle") \/ pc[k].port \in Ports

NetTyped ==
    /\ cch \in [Conns -> ClientEnds] /\ sch \in [Conns -> ServerEnds]
    /\ up \in [Conns -> Seq(Msgs)] /\ down \in [Conns -> Seq(Msgs)]

ClientTyped ==
    /\ clientCtx \in Conns \cup {None}
    /\ handler \in [Conns -> Conns \cup {None}]
    /\ cports \in [Conns -> SUBSET Ports]
    /\ msgResult \in [Conns -> [Keys -> Callers \cup {None}]]

ServerTyped == serverCtx \in Conns \cup {None} /\ sports \in [Conns -> SUBSET Ports]

PcTyped == pc \in [Actors -> Pcs] /\ \A k \in Callers : CallTyped(k)

CountTyped == late \in Nat /\ faults \in Nat /\ beside \in BOOLEAN

LEMMA TypeParts ==
    TypeOK <=> NetTyped /\ ClientTyped /\ ServerTyped /\ PcTyped /\ CountTyped
  BY DEF TypeOK, NetTyped, ClientTyped, ServerTyped, PcTyped, CountTyped, CallTyped, Pcs

LEMMA TypeJoin ==
    ASSUME NetTyped', ClientTyped', ServerTyped', PcTyped', CountTyped'
    PROVE  TypeOK'
  BY DEF TypeOK, NetTyped, ClientTyped, ServerTyped, PcTyped, CountTyped, CallTyped, Pcs

LEMMA IdleTyped == Idle \in Pcs
  BY DEF Idle, Pcs, Steps, Ops, Keys

\* Closing ends keeps their types.
LEMMA ClosedTyped ==
    ASSUME NEW S, "closed" \in S, NEW ends \in [Conns -> S], NEW cs
    PROVE  /\ Closed(ends, cs) \in [Conns -> S]
           /\ \A c \in Conns : Closed(ends, cs)[c] \in {"closed", ends[c]}
  BY DEF Closed

\* The steps of the goroutines of a call change pc at one place.
LEMMA PcStep ==
    ASSUME PcTyped, NEW k \in Callers, NEW r \in Pcs, pc' = [pc EXCEPT ![k] = r],
           r.op # "disconnect", r.at = "again" => r.op # "connect",
           (r.at \in {"idle", "stopping"} /\ r.next = "idle") \/ r.port \in Ports
    PROVE  PcTyped'
  <1>1. k \in Actors
    BY DEF Actors
  <1>2. pc' \in [Actors -> Pcs]
    BY <1>1 DEF PcTyped
  <1>3. ASSUME NEW l \in Callers PROVE CallTyped(l)'
    <2>1. l \in Actors
      BY DEF Actors
    <2>. QED
      BY <1>1, <2>1 DEF PcTyped, CallTyped
  <1>. QED
    BY <1>2, <1>3 DEF PcTyped

LEMMA PcReturns ==
    ASSUME PcTyped, NEW k \in Callers, Return(k)
    PROVE  PcTyped'
  <1>1. Idle.op = "connect" /\ Idle.at = "idle" /\ Idle.next = "idle"
    BY DEF Idle
  <1>. QED
    BY <1>1, IdleTyped, PcStep DEF Return

\* StopContext writes UnAuth or closes the handler, and closes local ports.
LEMMA StopTyped ==
    ASSUME NetTyped, ClientTyped, NEW o \in Conns, NEW hasty \in BOOLEAN, StopContext(o, hasty)
    PROVE  NetTyped' /\ cports' \in [Conns -> SUBSET Ports]
  <1>1. cch' \in [Conns -> ClientEnds]
    BY ClosedTyped DEF StopContext, NetTyped, ClientEnds
  <1>2. Msg("UnAuth", None, TRUE) \in Msgs
    BY MsgTyped
  <1>3. SentUp(handler[o], Msg("UnAuth", None, TRUE)) \in [Conns -> Seq(Msgs)]
    BY <1>2, WrittenTyped DEF SentUp, NetTyped
  <1>4. up' \in [Conns -> Seq(Msgs)] /\ down' \in [Conns -> Seq(Msgs)]
    <2>1. CASE hasty
      BY <2>1, CarryTyped DEF StopContext, NetTyped
    <2>2. CASE ~ hasty
      BY <2>2, <1>3, CarryTyped DEF StopContext, NetTyped
    <2>. QED
      BY <2>1, <2>2
  <1>. QED
    BY <1>1, <1>4 DEF StopContext, NetTyped, ClientTyped

LEMMA BeginStopTyped ==
    ASSUME TypeOK, NEW a \in Actors, clientCtx # None, NEW hasty \in BOOLEAN,
           NEW next \in {"idle", "stored"}, BeginStop(a, clientCtx, hasty, next),
           next = "stored" => pc[a].port \in Ports, faults' \in Nat, beside' \in BOOLEAN
    PROVE  TypeOK'
  <1>1. clientCtx \in Conns /\ NetTyped /\ ClientTyped /\ ServerTyped /\ PcTyped /\ CountTyped
    BY TypeParts DEF TypeOK
  <1>2. NetTyped' /\ cports' \in [Conns -> SUBSET Ports]
    BY <1>1, StopTyped DEF BeginStop
  <1>3. ClientTyped' /\ ServerTyped' /\ CountTyped'
    BY <1>1, <1>2 DEF BeginStop, ClientTyped, ServerTyped, CountTyped, server
  <1>4. pc' = [pc EXCEPT ![a] = [pc[a] EXCEPT !.at = "stopping", !.old = clientCtx, !.next = next]]
    BY <1>1 DEF BeginStop, PcTyped, Pcs
  <1>5. pc[a] \in Pcs
    BY <1>1 DEF PcTyped
  <1>6. [pc[a] EXCEPT !.at = "stopping", !.old = clientCtx, !.next = next] \in Pcs
    BY <1>1, <1>5 DEF Pcs, Steps
  <1>7. pc' \in [Actors -> Pcs]
    BY <1>1, <1>4, <1>6 DEF PcTyped
  <1>8. ASSUME NEW k \in Callers PROVE CallTyped(k)'
    <2>1. k \in Actors /\ CallTyped(k)
      BY <1>1 DEF Actors, PcTyped
    <2>2. CASE k # a
      BY <2>1, <2>2, <1>1, <1>4 DEF CallTyped, PcTyped
    <2>3. CASE k = a
      <3>1. pc'[k] = [pc[k] EXCEPT !.at = "stopping", !.old = clientCtx, !.next = next]
        BY <2>3, <1>1, <1>4 DEF PcTyped
      <3>2. pc'[k].at = "stopping" /\ pc'[k].next = next /\ pc'[k].op = pc[k].op
            /\ pc'[k].port = pc[k].port
        BY <3>1, <1>5, <2>3 DEF Pcs
      <3>. QED
        BY <3>2, <2>1, <2>3 DEF CallTyped
    <2>. QED
      BY <2>2, <2>3
  <1>. QED
    BY <1>2, <1>3, <1>7, <1>8, TypeJoin DEF PcTyped

\* A request is written to the handler of the context, or the call ends.
LEMMA RequestTyped ==
    ASSUME TypeOK, NEW k \in Callers, NEW c \in Conns, NEW p \in Ports,
           NEW op \in Ops \ {"connect", "disconnect"}, NEW second \in BOOLEAN,
           Request(k, c, op, p, second)
    PROVE  NetTyped' /\ PcTyped'
  <1>1. NetTyped /\ ClientTyped /\ PcTyped
    BY TypeParts
  <1>2. CASE Return(k) /\ UNCHANGED <<cch, sch, up, down>>
    BY <1>1, <1>2, PcReturns DEF NetTyped
  <1>3. CASE op # "ports" /\ ~ (Return(k) /\ UNCHANGED <<cch, sch, up, down>>)
    <2>1. /\ UNCHANGED <<cch, sch>>
          /\ Carry(SentUp(handler[c], Msg(KeyOf(op, p)[1], KeyOf(op, p)[2], TRUE)), down)
          /\ pc' = [pc EXCEPT ![k] = [Idle EXCEPT !.at = "sent", !.op = op,
                       !.port = p, !.ctx = c, !.key = KeyOf(op, p), !.second = second]]
      BY <1>3 DEF Request
    <2>2. KeyOf(op, p) \in Keys /\ Msg(KeyOf(op, p)[1], KeyOf(op, p)[2], TRUE) \in Msgs
      BY <1>3, KeyTyped
    <2>3. NetTyped'
      <3>1. SentUp(handler[c], Msg(KeyOf(op, p)[1], KeyOf(op, p)[2], TRUE))
              \in [Conns -> Seq(Msgs)]
        BY <1>1, <2>2, WrittenTyped DEF SentUp, NetTyped
      <3>. QED
        BY <1>1, <2>1, <3>1, CarryTyped DEF NetTyped
    <2>4. PICK r : r = [Idle EXCEPT !.at = "sent", !.op = op,
                       !.port = p, !.ctx = c, !.key = KeyOf(op, p), !.second = second]
      OBVIOUS
    <2>5. r \in Pcs /\ r.op = op /\ r.at = "sent" /\ r.port = p
      BY <2>4, <2>2, IdleTyped DEF Pcs, Steps, Idle
    <2>6. PcTyped'
      BY <1>1, <2>1, <2>4, <2>5, PcStep
    <2>. QED
      BY <2>3, <2>6
  <1>. QED
    BY <1>2, <1>3 DEF Request

LEMMA CallTypes ==
    ASSUME TypeOK, NEW k \in Callers, Call(k)
    PROVE  TypeOK'
  <1>. k \in Actors
    BY DEF Actors
  <1>1. NetTyped /\ ClientTyped /\ ServerTyped /\ PcTyped /\ CountTyped
    BY TypeParts
  <1>2. PICK op \in Calls, p \in Ports :
          \/ /\ op = "connect" \/ (clientCtx = None /\ op \notin {"close", "disconnect"})
             /\ pc' = [pc EXCEPT ![k] = [Idle EXCEPT !.at = "dial", !.op = op,
                                            !.port = p, !.second = TRUE]]
             /\ UNCHANGED <<client, server, net, late, faults>>
          \/ /\ op = "disconnect" /\ clientCtx # None
             /\ BeginStop(k, clientCtx, FALSE, "idle") /\ UNCHANGED faults
          \/ /\ op \notin {"connect", "disconnect"} /\ clientCtx # None
             /\ Request(k, clientCtx, op, p, FALSE)
             /\ UNCHANGED <<client, server, late, faults>>
    BY DEF Call
  <1>o. op \in Ops
    BY SerialAssumption DEF Ops
  <1>b. beside' \in BOOLEAN
    BY DEF Call
  <1>3. CASE /\ op # "disconnect"
             /\ pc' = [pc EXCEPT ![k] = [Idle EXCEPT !.at = "dial", !.op = op,
                                            !.port = p, !.second = TRUE]]
             /\ UNCHANGED <<client, server, net, late, faults>>
    <2>1. PICK r : r = [Idle EXCEPT !.at = "dial", !.op = op, !.port = p, !.second = TRUE]
      OBVIOUS
    <2>2. r \in Pcs /\ r.op = op /\ r.at = "dial" /\ r.port = p
      BY <2>1, <1>o, IdleTyped DEF Pcs, Steps, Idle
    <2>3. PcTyped'
      BY <1>1, <1>3, <2>1, <2>2, PcStep
    <2>. QED
      BY <1>1, <1>3, <1>b, <2>3, TypeJoin
      DEF NetTyped, ClientTyped, ServerTyped, CountTyped, client, server, net
  <1>4. CASE clientCtx # None /\ BeginStop(k, clientCtx, FALSE, "idle") /\ UNCHANGED faults
    BY <1>1, <1>4, <1>b, BeginStopTyped DEF CountTyped
  <1>5. CASE /\ op \notin {"connect", "disconnect"} /\ clientCtx # None
             /\ Request(k, clientCtx, op, p, FALSE)
             /\ UNCHANGED <<client, server, late, faults>>
    <2>1. NetTyped' /\ PcTyped'
      BY <1>1, <1>5, <1>o, RequestTyped DEF ClientTyped
    <2>. QED
      BY <1>1, <1>5, <1>b, <2>1, TypeJoin DEF ClientTyped, ServerTyped, CountTyped, client, server
  <1>. QED
    BY <1>2, <1>3, <1>4, <1>5

LEMMA StartTypes ==
    ASSUME TypeOK, NEW k \in Callers, Start(k)
    PROVE  TypeOK'
  <1>1. NetTyped /\ ClientTyped /\ ServerTyped /\ PcTyped /\ CountTyped
    BY TypeParts
  <1>2. PICK c \in Conns :
          /\ cch' = [cch EXCEPT ![c] = "open"]
          /\ sch' = [sch EXCEPT ![c] = "open"]
          /\ up' = [up EXCEPT ![c] = <<Msg("Auth", None, TRUE)>>]
          /\ down' = [down EXCEPT ![c] = <<>>]
          /\ pc' = [pc EXCEPT ![k].at = "dialed", ![k].ctx = c, ![k].key = <<"auth", None>>]
    BY DEF Start
  <1>3. NetTyped'
    <2>1. \A m \in Msgs : <<m>> \in Seq(Msgs)
      OBVIOUS
    <2>2. Msg("Auth", None, TRUE) \in Msgs
      BY MsgTyped
    <2>3. <<Msg("Auth", None, TRUE)>> \in Seq(Msgs)
      BY <2>1, <2>2
    <2>. QED
      BY <1>1, <1>2, <2>3, EmptyTyped DEF NetTyped, ClientEnds, ServerEnds
  <1>4. PcTyped'
    <2>. k \in Actors
      BY DEF Actors
    <2>1. PICK r : r = [pc[k] EXCEPT !.at = "dialed", !.ctx = c, !.key = <<"auth", None>>]
      OBVIOUS
    <2>2. pc' = [pc EXCEPT ![k] = r]
      BY <1>1, <1>2, <2>1 DEF PcTyped, Pcs
    <2>3. pc[k] \in Pcs /\ CallTyped(k)
      BY <1>1 DEF PcTyped
    <2>4. r \in Pcs /\ r.op = pc[k].op /\ r.at = "dialed" /\ r.port = pc[k].port
      BY <2>1, <2>3 DEF Pcs, Steps, Keys
    <2>5. pc[k].port \in Ports
      BY <2>3 DEF CallTyped, Start
    <2>. QED
      BY <1>1, <2>2, <2>3, <2>4, <2>5, PcStep DEF CallTyped
  <1>. QED
    BY <1>1, <1>3, <1>4, TypeJoin
    DEF Start, ClientTyped, ServerTyped, CountTyped, past, client, server

\* A step that only changes where a call is.
LEMMA GotoTyped ==
    ASSUME PcTyped, NEW k \in Callers, NEW s \in Steps \ {"again"}, Goto(k, s),
           pc[k].at \notin {"idle", "stopping"}
    PROVE  PcTyped'
  <1>. k \in Actors
    BY DEF Actors
  <1>1. pc[k] \in Pcs /\ CallTyped(k)
    BY DEF PcTyped
  <1>2. PICK r : r = [pc[k] EXCEPT !.at = s]
    OBVIOUS
  <1>3. pc' = [pc EXCEPT ![k] = r]
    BY <1>1, <1>2 DEF PcTyped, Pcs, Goto
  <1>4. r \in Pcs /\ r.op = pc[k].op /\ r.at = s /\ r.port = pc[k].port
    BY <1>1, <1>2 DEF Pcs
  <1>. QED
    BY <1>1, <1>3, <1>4, PcStep DEF CallTyped

LEMMA ReplaceTypes ==
    ASSUME TypeOK, NEW k \in Callers, Replace(k)
    PROVE  TypeOK'
  <1>. k \in Actors
    BY DEF Actors
  <1>1. NetTyped /\ ClientTyped /\ ServerTyped /\ PcTyped /\ CountTyped
    BY TypeParts
  <1>2. pc[k] \in Pcs /\ pc[k].port \in Ports
    BY <1>1 DEF PcTyped, CallTyped, Replace
  <1>3. CASE /\ clientCtx' = pc[k].ctx
             /\ Goto(k, "stored")
             /\ UNCHANGED <<server, net, handler, cports, msgResult, past, faults>>
    <2>1. PcTyped'
      BY <1>1, <1>3, GotoTyped DEF Steps, Replace
    <2>2. ClientTyped'
      BY <1>1, <1>2, <1>3 DEF ClientTyped, Pcs
    <2>. QED
      BY <1>1, <1>3, <2>1, <2>2, TypeJoin DEF NetTyped, ServerTyped, CountTyped, past, server, net
  <1>4. CASE clientCtx # None /\ BeginStop(k, clientCtx, FALSE, "stored") /\ UNCHANGED <<beside, faults>>
    BY <1>1, <1>2, <1>4, BeginStopTyped DEF CountTyped
  <1>. QED
    BY <1>3, <1>4 DEF Replace

LEMMA RegisterTypes ==
    ASSUME TypeOK, NEW k \in Callers, Register(k)
    PROVE  TypeOK'
  <1>1. NetTyped /\ ClientTyped /\ ServerTyped /\ PcTyped /\ CountTyped
    BY TypeParts
  <1>2. PcTyped'
    BY <1>1, GotoTyped DEF Steps, Register
  <1>3. msgResult' \in [Conns -> [Keys -> Callers \cup {None}]]
    BY <1>1 DEF Register, ClientTyped
  <1>4. cports' \in [Conns -> SUBSET Ports]
    BY <1>1 DEF Register, ClientTyped
  <1>. QED
    BY <1>1, <1>2, <1>3, <1>4, TypeJoin
    DEF Register, NetTyped, ClientTyped, ServerTyped, CountTyped, past, server, net

\* ClosePort disconnects when no port is left.
LEMMA ClosePortEndTyped ==
    ASSUME TypeOK, NEW k \in Callers, ClosePortEnd(k)
    PROVE  NetTyped' /\ PcTyped' /\ cports' \in [Conns -> SUBSET Ports]
  <1>1. NetTyped /\ ClientTyped /\ PcTyped
    BY TypeParts
  <1>2. CASE Return(k) /\ UNCHANGED <<net, cports>>
    BY <1>1, <1>2, PcReturns DEF NetTyped, ClientTyped, net
  <1>3. CASE /\ clientCtx # None
             /\ StopContext(clientCtx, FALSE)
             /\ pc' = [pc EXCEPT ![k] = [Idle EXCEPT !.at = "stopping", !.old = clientCtx]]
    <2>1. clientCtx \in Conns
      BY <1>1, <1>3 DEF ClientTyped
    <2>2. NetTyped' /\ cports' \in [Conns -> SUBSET Ports]
      BY <1>1, <1>3, <2>1, StopTyped
    <2>3. PICK r : r = [Idle EXCEPT !.at = "stopping", !.old = clientCtx]
      OBVIOUS
    <2>4. r \in Pcs /\ r.at = "stopping" /\ r.next = "idle" /\ r.op = "connect"
      BY <2>1, <2>3, IdleTyped DEF Pcs, Steps, Idle
    <2>. QED
      BY <1>1, <1>3, <2>2, <2>3, <2>4, PcStep
  <1>. QED
    BY <1>2, <1>3 DEF ClosePortEnd

LEMMA FinishTypes ==
    ASSUME TypeOK, NEW k \in Callers, Finish(k)
    PROVE  TypeOK'
  <1>. k \in Actors
    BY DEF Actors
  <1>1. NetTyped /\ ClientTyped /\ ServerTyped /\ PcTyped /\ CountTyped
    BY TypeParts
  <1>2. pc[k] \in Pcs /\ CallTyped(k) /\ pc[k].port \in Ports
    BY <1>1 DEF PcTyped, CallTyped, Finish
  <1>3. msgResult' \in [Conns -> [Keys -> Callers \cup {None}]]
    BY <1>1 DEF Finish, Unregistered, ClientTyped
  <1>4. NetTyped' /\ PcTyped' /\ cports' \in [Conns -> SUBSET Ports]
    <2>1. CASE Return(k) /\ UNCHANGED <<net, cports>>
      BY <1>1, <2>1, PcReturns DEF NetTyped, ClientTyped, net
    <2>2. CASE /\ pc[k].op # "connect"
               /\ pc' = [pc EXCEPT ![k].at = "again", ![k].ctx = None]
               /\ UNCHANGED <<net, cports>>
      <3>1. PICK r : r = [pc[k] EXCEPT !.at = "again", !.ctx = None]
        OBVIOUS
      <3>2. pc' = [pc EXCEPT ![k] = r]
        BY <1>1, <1>2, <2>2, <3>1 DEF PcTyped, Pcs
      <3>3. r \in Pcs /\ r.at = "again" /\ r.op = pc[k].op /\ r.port = pc[k].port
        BY <1>2, <3>1 DEF Pcs, Steps
      <3>4. PcTyped'
        BY <1>1, <1>2, <2>2, <3>2, <3>3, PcStep DEF CallTyped
      <3>. QED
        BY <1>1, <2>2, <3>4 DEF NetTyped, ClientTyped, net
    <2>3. CASE /\ \E new \in {{}, OpenedLocally(k)} :
                     cports' = [cports EXCEPT ![pc[k].ctx] = @ \cup new]
               /\ Return(k)
               /\ UNCHANGED net
      <3>1. OpenedLocally(k) \subseteq Ports
        BY <1>2 DEF OpenedLocally
      <3>2. PICK new \in SUBSET Ports : cports' = [cports EXCEPT ![pc[k].ctx] = @ \cup new]
        BY <2>3, <3>1
      <3>3. cports' \in [Conns -> SUBSET Ports]
        BY <1>1, <3>2 DEF ClientTyped
      <3>. QED
        BY <1>1, <2>3, <3>3, PcReturns DEF NetTyped, net
    <2>4. CASE ClosePortEnd(k)
      BY <2>4, ClosePortEndTyped
    <2>. QED
      BY <2>1, <2>2, <2>3, <2>4 DEF Finish
  <1>. QED
    BY <1>1, <1>3, <1>4, TypeJoin DEF Finish, ClientTyped, ServerTyped, CountTyped, past, server

LEMMA ExpiredTypes ==
    ASSUME TypeOK, NEW k \in Callers, Expired(k)
    PROVE  TypeOK'
  <1>. k \in Actors
    BY DEF Actors
  <1>1. NetTyped /\ ClientTyped /\ ServerTyped /\ PcTyped /\ CountTyped
    BY TypeParts
  <1>2. pc[k] \in Pcs /\ CallTyped(k) /\ pc[k].port \in Ports
    BY <1>1 DEF PcTyped, CallTyped, Expired
  <1>3. /\ msgResult' \in [Conns -> [Keys -> Callers \cup {None}]]
        /\ clientCtx' \in Conns \cup {None}
    BY <1>1 DEF Expired, Unregistered, ClientTyped
  <1>4. NetTyped' /\ PcTyped' /\ cports' \in [Conns -> SUBSET Ports]
    <2>1. CASE Return(k) /\ UNCHANGED <<net, cports>>
      BY <1>1, <2>1, PcReturns DEF NetTyped, ClientTyped, net
    <2>2. CASE ClosePortEnd(k)
      BY <2>2, ClosePortEndTyped
    <2>3. CASE /\ clientCtx # None /\ StopContext(clientCtx, TRUE)
               /\ pc' = [pc EXCEPT ![k] = [@ EXCEPT !.at = "stopping",
                            !.old = clientCtx, !.ctx = None, !.next = "dial",
                            !.second = TRUE]]
      <3>1. NetTyped' /\ cports' \in [Conns -> SUBSET Ports]
        BY <1>1, <2>3, StopTyped DEF ClientTyped
      <3>2. PICK r : r = [pc[k] EXCEPT !.at = "stopping", !.old = clientCtx, !.ctx = None,
                                       !.next = "dial", !.second = TRUE]
        OBVIOUS
      <3>3. pc' = [pc EXCEPT ![k] = r]
        BY <1>1, <2>3, <3>2 DEF PcTyped
      <3>4. r \in Pcs /\ r.at = "stopping" /\ r.op = pc[k].op /\ r.port = pc[k].port
        BY <1>1, <1>2, <2>3, <3>2 DEF Pcs, Steps, ClientTyped
      <3>. QED
        BY <1>1, <1>2, <3>1, <3>3, <3>4, PcStep DEF CallTyped
    <2>4. CASE /\ pc' = [pc EXCEPT ![k] = [@ EXCEPT !.at = "dial", !.ctx = None, !.second = TRUE]]
               /\ UNCHANGED <<net, cports>>
      <3>1. PICK r : r = [pc[k] EXCEPT !.at = "dial", !.ctx = None, !.second = TRUE]
        OBVIOUS
      <3>2. pc' = [pc EXCEPT ![k] = r]
        BY <1>1, <2>4, <3>1 DEF PcTyped
      <3>3. r \in Pcs /\ r.at = "dial" /\ r.op = pc[k].op /\ r.port = pc[k].port
        BY <1>2, <3>1 DEF Pcs, Steps
      <3>4. PcTyped'
        BY <1>1, <1>2, <3>2, <3>3, PcStep DEF CallTyped
      <3>. QED
        BY <1>1, <2>4, <3>4 DEF NetTyped, ClientTyped, net
    <2>. QED
      BY <2>1, <2>2, <2>3, <2>4 DEF Expired
  <1>. QED
    BY <1>1, <1>3, <1>4, TypeJoin DEF Expired, ClientTyped, ServerTyped, CountTyped, past, server

LEMMA AgainTypes ==
    ASSUME TypeOK, NEW k \in Callers, Again(k)
    PROVE  TypeOK'
  <1>1. NetTyped /\ ClientTyped /\ ServerTyped /\ PcTyped /\ CountTyped
    BY TypeParts
  <1>2. k \in Actors /\ pc[k] \in Pcs /\ CallTyped(k)
    BY <1>1 DEF PcTyped, Actors
  <1>3. NetTyped' /\ PcTyped'
    <2>1. CASE Return(k) /\ UNCHANGED net
      BY <1>1, <2>1, PcReturns DEF NetTyped, net
    <2>2. CASE clientCtx # None /\ Request(k, clientCtx, pc[k].op, pc[k].port, TRUE)
      <3>1. pc[k].op \in Ops \ {"connect", "disconnect"} /\ pc[k].port \in Ports
            /\ clientCtx \in Conns
        BY <1>1, <1>2, <2>2 DEF Again, Pcs, CallTyped, ClientTyped
      <3>. QED
        BY <2>2, <3>1, RequestTyped
    <2>. QED
      BY <2>1, <2>2 DEF Again
  <1>. QED
    BY <1>1, <1>3, TypeJoin DEF Again, ClientTyped, ServerTyped, CountTyped, past, client, server

LEMMA EndStopTypes ==
    ASSUME TypeOK, NEW a \in Actors, EndStop(a)
    PROVE  TypeOK'
  <1>1. NetTyped /\ ClientTyped /\ ServerTyped /\ PcTyped /\ CountTyped
    BY TypeParts
  <1>2. pc[a] \in Pcs
    BY <1>1 DEF PcTyped
  <1>3. NetTyped'
    <2>1. cch' = Closed(cch, {pc[a].old, handler[pc[a].old]}) /\ UNCHANGED sch /\ Carry(up, down)
      BY DEF EndStop
    <2>. QED
      BY <1>1, <2>1, ClosedTyped, CarryTyped DEF NetTyped, ClientEnds
  <1>4. ClientTyped'
    <2>1. clientCtx' \in Conns \cup {None}
      BY <1>2 DEF EndStop, Pcs
    <2>2. handler' = handler \/ handler' = [handler EXCEPT ![pc[a].old] = None]
      BY DEF EndStop
    <2>. QED
      BY <1>1, <2>1, <2>2 DEF EndStop, ClientTyped
  <1>5. PICK r : r = IF pc[a].next = "idle" THEN Idle
                     ELSE [pc[a] EXCEPT !.at = pc[a].next, !.old = None]
    OBVIOUS
  <1>6. r \in Pcs /\ (r = Idle \/ (r.at \in {"dial", "stored"} /\ r.op = pc[a].op
                                   /\ r.port = pc[a].port /\ pc[a].next # "idle"))
    BY <1>2, <1>5, IdleTyped DEF Pcs, Steps
  <1>7. pc' = [pc EXCEPT ![a] = r]
    BY <1>1, <1>2, <1>5 DEF EndStop, Return, PcTyped, Pcs
  <1>8. pc' \in [Actors -> Pcs]
    BY <1>1, <1>6, <1>7 DEF PcTyped
  <1>9. ASSUME NEW k \in Callers PROVE CallTyped(k)'
    <2>1. k \in Actors /\ CallTyped(k)
      BY <1>1 DEF PcTyped, Actors
    <2>2. CASE k # a
      BY <1>1, <1>7, <2>1, <2>2 DEF CallTyped, PcTyped
    <2>3. CASE k = a
      <3>1. pc'[k] = r
        BY <1>1, <1>7, <2>1, <2>3 DEF PcTyped
      <3>. QED
        BY <1>6, <2>1, <2>3, <3>1 DEF CallTyped, Idle
    <2>. QED
      BY <2>2, <2>3
  <1>. QED
    BY <1>1, <1>3, <1>4, <1>8, <1>9, TypeJoin
    DEF EndStop, ServerTyped, CountTyped, past, PcTyped, server

\* The answer for key goes to a call that waits for it.
Woken(key, ok) ==
    /\ clientCtx # None
    /\ \E a \in Actors :
          /\ pc[a].at = "wait" /\ pc[a].ctx = clientCtx /\ pc[a].key = key
          /\ pc' = [pc EXCEPT ![a] = [pc[a] EXCEPT !.at = "got", !.ok = ok]]

\* An answer goes to at most one call, which is waiting for it, or changes no
\* call at all; the read loop goes on or is stuck.
LEMMA AnswerStep ==
    ASSUME TypeOK, NEW c \in Conns, NEW key, NEW ok \in BOOLEAN, Answer(c, clientCtx, key, ok)
    PROVE  /\ cch' = [cch EXCEPT ![c] = "auth"] \/ cch' = [cch EXCEPT ![c] = "stuck"]
           /\ pc' = pc \/ Woken(key, ok)
  <1>1. PICK k : k = IF clientCtx = None THEN None ELSE msgResult[clientCtx][key]
    OBVIOUS
  <1>2. PICK w : w = (k # None /\ pc[k].at = "wait" /\ pc[k].ctx = clientCtx /\ pc[k].key = key)
    OBVIOUS
  <1>3. /\ pc' = IF w THEN [pc EXCEPT ![k].at = "got", ![k].ok = ok] ELSE pc
        /\ cch' = [cch EXCEPT ![c] = IF k = None \/ w THEN "auth" ELSE "stuck"]
    BY <1>1, <1>2 DEF Answer
  <1>4. pc \in [Actors -> Pcs]
    BY TypeParts DEF PcTyped
  <1>5. CASE w /\ k \in Actors
    <2>1. pc[k].at = "wait" /\ pc[k].ctx = clientCtx /\ pc[k].key = key /\ clientCtx # None
      BY <1>1, <1>2, <1>5
    <2>2. pc' = [pc EXCEPT ![k] = [pc[k] EXCEPT !.at = "got", !.ok = ok]]
      BY <1>3, <1>4, <1>5 DEF Pcs
    <2>. QED
      BY <1>3, <1>5, <2>1, <2>2 DEF Woken
  <1>6. CASE w /\ k \notin Actors
    <2>1. pc' = pc
      BY <1>3, <1>4, <1>6
    <2>. QED
      BY <1>3, <2>1
  <1>7. CASE ~ w
    BY <1>3, <1>7
  <1>. QED
    BY <1>2, <1>5, <1>6, <1>7

\* What a read loop of the client does to the calls, for each kind of frame.
LEMMA ClientReadStep ==
    ASSUME TypeOK, NEW c \in Conns, ClientRead(c)
    PROVE  \E key : \E ok \in BOOLEAN :
              /\ IF Head(down[c]).kind = "AuthAck" THEN key = AuthKey
                 ELSE key = <<Head(down[c]).kind, Head(down[c]).port>> /\ ok = Head(down[c]).ok
              /\ cch[c] # "new"
              /\ cch' \in [Conns -> ClientEnds]
              /\ \A d \in Conns : cch'[d] = "new" => cch[d] = "new"
              /\ pc' = pc \/ Woken(key, ok)
              /\ handler' \in [Conns -> Conns \cup {None}]
              /\ down' = [down EXCEPT ![c] = Tail(@)]
  <1>2. NetTyped /\ ClientTyped
    BY TypeParts
  <1>3. Head(down[c]) \in Msgs
    BY <1>2, TailTyped DEF ClientRead, NetTyped
  <1>4. Head(down[c]).ok \in BOOLEAN
    BY <1>3 DEF Msgs
  <1>5. PICK ok \in BOOLEAN : ok = IF Head(down[c]).kind = "AuthAck" THEN TRUE ELSE Head(down[c]).ok
    BY <1>4, Zenon
  <1>6. PICK key : key = IF Head(down[c]).kind = "AuthAck" THEN AuthKey
                         ELSE <<Head(down[c]).kind, Head(down[c]).port>>
    OBVIOUS
  <1>7. cch[c] # "new" /\ down' = [down EXCEPT ![c] = Tail(@)]
    BY DEF ClientRead
  <1>8. handler' \in [Conns -> Conns \cup {None}]
    BY <1>2 DEF ClientRead, ClientTyped
  <1>9. Answer(c, clientCtx, key, ok) \/ UNCHANGED <<cch, pc>>
    <2>1. CASE Head(down[c]).kind = "AuthAck"
      <3>1. Answer(c, clientCtx, <<"auth", None>>, TRUE)
        BY <2>1 DEF ClientRead
      <3>2. key = <<"auth", None>> /\ ok = TRUE
        BY <1>5, <1>6, <2>1 DEF AuthKey
      <3>. QED
        BY <3>1, <3>2
    <2>2. CASE Head(down[c]).kind # "AuthAck" /\ cch[c] = "auth"
      <3>1. Answer(c, clientCtx, <<Head(down[c]).kind, Head(down[c]).port>>, Head(down[c]).ok)
        BY <2>2 DEF ClientRead
      <3>2. key = <<Head(down[c]).kind, Head(down[c]).port>> /\ ok = Head(down[c]).ok
        BY <1>5, <1>6, <2>2
      <3>. QED
        BY <3>1, <3>2
    <2>3. CASE Head(down[c]).kind # "AuthAck" /\ cch[c] # "auth"
      BY <2>3 DEF ClientRead
    <2>. QED
      BY <2>1, <2>2, <2>3
  <1>10. /\ cch' \in {cch, [cch EXCEPT ![c] = "auth"], [cch EXCEPT ![c] = "stuck"]}
         /\ pc' = pc \/ Woken(key, ok)
    <2>1. CASE Answer(c, clientCtx, key, ok)
      <3>1. /\ cch' = [cch EXCEPT ![c] = "auth"] \/ cch' = [cch EXCEPT ![c] = "stuck"]
            /\ pc' = pc \/ Woken(key, ok)
        BY <2>1, AnswerStep, Zenon
      <3>. QED
        BY <3>1
    <2>. QED
      BY <1>9, <2>1
  <1>11. cch' \in [Conns -> ClientEnds] /\ \A d \in Conns : cch'[d] = "new" => cch[d] = "new"
    BY <1>2, <1>10 DEF NetTyped, ClientEnds
  <1>12. IF Head(down[c]).kind = "AuthAck" THEN key = AuthKey
         ELSE key = <<Head(down[c]).kind, Head(down[c]).port>> /\ ok = Head(down[c]).ok
    BY <1>5, <1>6
  <1>. QED
    BY <1>7, <1>8, <1>10, <1>11, <1>12, Zenon

LEMMA ClientReadTypes ==
    ASSUME TypeOK, NEW c \in Conns, ClientRead(c)
    PROVE  TypeOK'
  <1>1. NetTyped /\ ClientTyped /\ ServerTyped /\ PcTyped /\ CountTyped
    BY TypeParts
  <1>2. NetTyped' /\ ClientTyped'
    <2>1. Tail(down[c]) \in Seq(Msgs)
      BY <1>1, TailTyped DEF ClientRead, NetTyped
    <2>2. cch' \in [Conns -> ClientEnds] /\ handler' \in [Conns -> Conns \cup {None}]
          /\ down' = [down EXCEPT ![c] = Tail(@)]
      BY ClientReadStep, Zenon
    <2>. QED
      BY <1>1, <2>1, <2>2 DEF ClientRead, NetTyped, ClientTyped
  <1>3. PcTyped'
    <2>1. CASE pc' = pc
      BY <1>1, <2>1 DEF PcTyped, CallTyped
    <2>2. CASE pc' # pc
      <3>1. PICK a \in Actors, ok \in BOOLEAN :
              /\ pc[a].at = "wait"
              /\ pc' = [pc EXCEPT ![a] = [pc[a] EXCEPT !.at = "got", !.ok = ok]]
        BY <2>2, ClientReadStep, Zenon DEF Woken
      <3>2. pc[a] \in Pcs
        BY <1>1 DEF PcTyped
      <3>3. PICK r : r = [pc[a] EXCEPT !.at = "got", !.ok = ok]
        OBVIOUS
      <3>4. r \in Pcs /\ r.at = "got" /\ r.op = pc[a].op /\ r.port = pc[a].port
        BY <3>2, <3>3 DEF Pcs, Steps
      <3>5. pc' \in [Actors -> Pcs]
        BY <1>1, <3>1, <3>3, <3>4 DEF PcTyped
      <3>6. ASSUME NEW k \in Callers PROVE CallTyped(k)'
        <4>1. k \in Actors /\ CallTyped(k)
          BY <1>1 DEF PcTyped, Actors
        <4>2. pc'[k] = IF k = a THEN r ELSE pc[k]
          BY <1>1, <3>1, <3>3, <4>1 DEF PcTyped
        <4>. QED
          BY <3>1, <3>4, <4>1, <4>2 DEF CallTyped
      <3>. QED
        BY <3>5, <3>6 DEF PcTyped
    <2>. QED
      BY <2>1, <2>2
  <1>. QED
    BY <1>1, <1>2, <1>3, TypeJoin DEF ClientRead, ServerTyped, CountTyped, past, server

\* The server deletes its context, with its ports and its channel.
LEMMA RemoveTyped ==
    ASSUME TypeOK, NEW newUp \in [Conns -> Seq(Msgs)], RemoveServerHandler(newUp)
    PROVE  NetTyped' /\ ServerTyped'
  <1>1. NetTyped /\ ServerTyped
    BY TypeParts
  <1>2. sch' \in [Conns -> ServerEnds] /\ UNCHANGED cch
    BY <1>1, ClosedTyped DEF RemoveServerHandler, NetTyped, ServerEnds
  <1>3. up' \in [Conns -> Seq(Msgs)] /\ down' \in [Conns -> Seq(Msgs)]
    BY <1>1, CarryTyped DEF RemoveServerHandler, NetTyped
  <1>. QED
    BY <1>1, <1>2, <1>3 DEF RemoveServerHandler, NetTyped, ServerTyped

\* What the server does with a request: the ports of the context afterwards,
\* and at most one acknowledgement of the same kind and port.
LEMMA ProcessStep ==
    ASSUME TypeOK, NEW o \in Conns, NEW m \in Msgs, NEW rest \in [Conns -> Seq(Msgs)],
           Process(o, m, rest)
    PROVE  \E ports \in SUBSET Ports :
              /\ sports' = [sports EXCEPT ![o] = ports]
              /\ ports \in PortsAfter(o, m)
              /\ \/ Carry(rest, down)
                 \/ \E ack \in Msgs :
                       /\ ack.kind = m.kind /\ ack.port = m.port
                       /\ m.kind \in {"open", "close", "config", "list"}
                       /\ ack.kind = "open" /\ ack.ok => ack.port \in ports
                       /\ Carry(rest, SentDown(o, ack))
  <1>1. ServerTyped
    BY TypeParts
  <1>a. PICK ports \in PortsAfter(o, m) : \E acks \in Acks(m, ports) :
          /\ sports' = [sports EXCEPT ![o] = ports]
          /\ Carry(rest, IF acks = <<>> THEN down ELSE SentDown(o, acks[1]))
    BY DEF Process
  <1>2. PICK acks \in Acks(m, ports) :
          /\ sports' = [sports EXCEPT ![o] = ports]
          /\ Carry(rest, IF acks = <<>> THEN down ELSE SentDown(o, acks[1]))
    BY <1>a
  <1>3. ports \in SUBSET Ports
    <2>1. sports[o] \in SUBSET Ports
      BY <1>1 DEF ServerTyped
    <2>2. m.kind \in {"open", "close"} => m.port \in Ports
      BY DEF Msgs
    <2>. QED
      BY <1>a, <2>1, <2>2 DEF PortsAfter
  <1>4. \/ acks = <<>>
        \/ \E ack \in Msgs : /\ acks = <<ack>>
                             /\ ack.kind = m.kind /\ ack.port = m.port
                             /\ m.kind \in {"open", "close", "config", "list"}
                             /\ ack.kind = "open" /\ ack.ok => ack.port \in ports
    <2>1. CASE m.kind = "open"
      <3>1. m.port \in Ports
        BY <2>1 DEF Msgs
      <3>2. PICK b \in BOOLEAN : b = (m.port \in ports)
        <4>1. CASE m.port \in ports
          <5>1. TRUE = (m.port \in ports)
            BY <4>1
          <5>. QED
            BY <5>1, Zenon
        <4>2. CASE m.port \notin ports
          <5>1. FALSE = (m.port \in ports)
            BY <4>2
          <5>. QED
            BY <5>1, Zenon
        <4>. QED
          BY <4>1, <4>2
      <3>3. Msg("open", m.port, b) \in Msgs /\ acks = <<Msg("open", m.port, b)>>
        BY <1>2, <2>1, <3>1, <3>2, MsgTyped DEF Acks
      <3>. QED
        BY <2>1, <3>2, <3>3 DEF Msg
    <2>2. CASE m.kind = "close"
      <3>1. m.port \in Ports
        BY <2>2 DEF Msgs
      <3>2. Msg("close", m.port, TRUE) \in Msgs /\ acks = <<Msg("close", m.port, TRUE)>>
        BY <1>2, <2>2, <3>1, MsgTyped DEF Acks
      <3>. QED
        BY <2>2, <3>2 DEF Msg
    <2>3. CASE m.kind = "config"
      <3>1. m.port \in Ports
        BY <2>3 DEF Msgs
      <3>2. Msg("config", m.port, TRUE) \in Msgs /\ acks \in {<<>>, <<Msg("config", m.port, TRUE)>>}
        BY <1>2, <2>3, <3>1, MsgTyped DEF Acks
      <3>. QED
        BY <2>3, <3>2 DEF Msg
    <2>4. CASE m.kind = "list"
      <3>1. m.port = None
        BY <2>4 DEF Msgs
      <3>2. PICK b \in BOOLEAN : acks = <<Msg("list", None, b)>>
        BY <1>2, <2>4 DEF Acks
      <3>3. Msg("list", None, b) \in Msgs
        BY MsgTyped
      <3>. QED
        BY <2>4, <3>1, <3>2, <3>3 DEF Msg
    <2>5. CASE m.kind \notin {"open", "close", "config", "list"}
      BY <1>2, <2>5 DEF Acks
    <2>. QED
      BY <2>1, <2>2, <2>3, <2>4, <2>5
  <1>5. CASE acks = <<>>
    BY <1>2, <1>3, <1>5
  <1>6. CASE acks # <<>>
    <2>1. PICK ack \in Msgs : /\ acks = <<ack>>
                              /\ ack.kind = m.kind /\ ack.port = m.port
                              /\ m.kind \in {"open", "close", "config", "list"}
                              /\ ack.kind = "open" /\ ack.ok => ack.port \in ports
      BY <1>4, <1>6
    <2>2. Carry(rest, SentDown(o, ack))
      BY <1>2, <1>6, <2>1
    <2>. QED
      BY <1>2, <1>3, <2>1, <2>2
  <1>. QED
    BY <1>5, <1>6

LEMMA ServerReadTypes ==
    ASSUME TypeOK, NEW c \in Conns, ServerRead(c)
    PROVE  TypeOK'
  <1>1. NetTyped /\ ClientTyped /\ ServerTyped /\ PcTyped /\ CountTyped
    BY TypeParts
  <1>2. PICK rest \in [Conns -> Seq(Msgs)] : rest = [up EXCEPT ![c] = Tail(@)]
    BY <1>1, TailTyped DEF NetTyped, ServerRead
  <1>3. Head(up[c]) \in Msgs
    BY <1>1, TailTyped DEF NetTyped, ServerRead
  <1>4. NetTyped' /\ ServerTyped'
    <2>1. CASE Auth(c, rest)
      <3>1. SentDown(c, Msg("AuthAck", None, TRUE)) \in [Conns -> Seq(Msgs)]
        BY <1>1, MsgTyped, WrittenTyped DEF SentDown, NetTyped
      <3>2. up' \in [Conns -> Seq(Msgs)] /\ down' \in [Conns -> Seq(Msgs)]
        <4>1. CASE Carry(rest, down)
          BY <1>1, <4>1, CarryTyped DEF NetTyped
        <4>2. CASE Carry(rest, SentDown(c, Msg("AuthAck", None, TRUE)))
          BY <3>1, <4>2, CarryTyped
        <4>. QED
          BY <2>1, <4>1, <4>2 DEF Auth
      <3>. QED
        BY <1>1, <2>1, <3>2 DEF Auth, NetTyped, ServerTyped, ServerEnds
    <2>2. CASE UNCHANGED <<server, cch, sch>> /\ Carry(rest, down)
      BY <1>1, <2>2, CarryTyped DEF NetTyped, ServerTyped, server
    <2>3. CASE RemoveServerHandler(rest)
      BY <2>3, RemoveTyped
    <2>4. CASE serverCtx # None /\ Process(serverCtx, Head(up[c]), rest) /\ UNCHANGED serverCtx
      <3>1. serverCtx \in Conns
        BY <1>1, <2>4 DEF ServerTyped
      <3>2. PICK ports \in SUBSET Ports :
              /\ sports' = [sports EXCEPT ![serverCtx] = ports]
              /\ \/ Carry(rest, down)
                 \/ \E ack \in Msgs : Carry(rest, SentDown(serverCtx, ack))
        BY <1>3, <2>4, <3>1, ProcessStep
      <3>3. \A ack \in Msgs : SentDown(serverCtx, ack) \in [Conns -> Seq(Msgs)]
        BY <1>1, WrittenTyped DEF SentDown, NetTyped
      <3>4. up' \in [Conns -> Seq(Msgs)] /\ down' \in [Conns -> Seq(Msgs)]
        <4>1. CASE Carry(rest, down)
          BY <1>1, <4>1, CarryTyped DEF NetTyped
        <4>2. CASE \E ack \in Msgs : Carry(rest, SentDown(serverCtx, ack))
          BY <3>3, <4>2, CarryTyped
        <4>. QED
          BY <3>2, <4>1, <4>2
      <3>. QED
        BY <1>1, <2>4, <3>2, <3>4 DEF Process, NetTyped, ServerTyped
    <2>. QED
      BY <1>2, <2>1, <2>2, <2>3, <2>4 DEF ServerRead
  <1>. QED
    BY <1>1, <1>4, TypeJoin DEF ServerRead, ClientTyped, PcTyped, CallTyped, CountTyped, past, client

LEMMA NetTypes ==
    ASSUME TypeOK, NEW c \in Conns, ReadIdle(c) \/ Break(c) \/ Lose(c)
    PROVE  TypeOK'
  <1>1. NetTyped /\ ClientTyped /\ ServerTyped /\ PcTyped /\ CountTyped
    BY TypeParts
  <1>2. cch' \in [Conns -> ClientEnds] /\ sch' \in [Conns -> ServerEnds]
    BY <1>1 DEF ReadIdle, Break, Lose, NetTyped, ClientEnds, ServerEnds
  <1>3. up' \in [Conns -> Seq(Msgs)] /\ down' \in [Conns -> Seq(Msgs)]
    <2>1. CASE Carry(up, down)
      BY <1>1, <2>1, CarryTyped DEF NetTyped
    <2>2. CASE Lose(c)
      BY <1>1, <2>2, EmptyTyped DEF NetTyped, Lose
    <2>. QED
      BY <2>1, <2>2 DEF ReadIdle, Break
  <1>4. faults' \in Nat /\ late' = late /\ beside' = beside
    BY <1>1 DEF ReadIdle, Break, Lose, Fault, CountTyped, past
  <1>. QED
    BY <1>1, <1>2, <1>3, <1>4, TypeJoin
    DEF ReadIdle, Break, Lose, NetTyped, ClientTyped, ServerTyped, PcTyped, CallTyped,
        CountTyped, past, client, server

\* Every step keeps the types.
LEMMA TypeNext == TypeOK /\ [Next]_vars => TypeOK'
  <1>. SUFFICES ASSUME TypeOK, [Next]_vars PROVE TypeOK'
    OBVIOUS
  <1>1. NetTyped /\ ClientTyped /\ ServerTyped /\ PcTyped /\ CountTyped
    BY TypeParts
  <1>2. ASSUME NEW k \in Callers, CallerStep(k) PROVE TypeOK'
    <2>1. CASE DialFails(k)
      <3>1. PcTyped'
        BY <1>1, <2>1, PcReturns DEF DialFails
      <3>. QED
        BY <1>1, <2>1, <3>1, TypeJoin
        DEF DialFails, NetTyped, ClientTyped, ServerTyped, CountTyped, past, client, server, net
    <2>2. CASE Timeout(k)
      <3>1. PcTyped'
        BY <1>1, <2>2, GotoTyped DEF Timeout, Steps
      <3>. QED
        BY <1>1, <2>2, <3>1, TypeJoin
        DEF Timeout, NetTyped, ClientTyped, ServerTyped, CountTyped, past, client, server, net
    <2>. QED
      BY <1>2, <2>1, <2>2, CallTypes, StartTypes, ReplaceTypes, RegisterTypes, FinishTypes,
         ExpiredTypes, AgainTypes DEF CallerStep
  <1>3. CASE ClientSweep \/ ClientPeerChanged
    <2>1. /\ "sweep" \in Actors /\ "peer" \in Actors
          /\ faults \in Nat /\ faults + 1 \in Nat /\ beside \in BOOLEAN
      BY <1>1 DEF Actors, CountTyped
    <2>. QED
      BY <1>3, <2>1, BeginStopTyped DEF ClientSweep, ClientPeerChanged, Fault
  <1>4. CASE ServerSweep \/ ServerPeerChanged
    <2>1. RemoveServerHandler(up) /\ UNCHANGED <<client, pc, past>> /\ faults' \in Nat
      BY <1>1, <1>4 DEF ServerSweep, ServerPeerChanged, Fault, CountTyped, past
    <2>2. NetTyped' /\ ServerTyped'
      BY <1>1, <2>1, RemoveTyped DEF NetTyped
    <2>. QED
      BY <1>1, <2>1, <2>2, TypeJoin DEF ClientTyped, PcTyped, CallTyped, CountTyped, past, client
  <1>5. CASE UNCHANGED vars
    BY <1>1, <1>5, TypeJoin
    DEF vars, NetTyped, ClientTyped, ServerTyped, PcTyped, CallTyped, CountTyped
  <1>. QED
    BY <1>2, <1>3, <1>4, <1>5, EndStopTypes, ClientReadTypes, ServerReadTypes, NetTypes DEF Next

\* The variables keep their types (src/serial): in particular a context only
\* ever writes to a connection that this peer has dialed, and a call that goes
\* on after a connection still knows its port.
THEOREM SerialTypes == Spec => []TypeOK
  <1>1. ASSUME Init PROVE TypeOK
    <2>1. beside = FALSE /\ late = 0 /\ faults = 0 /\ pc = [a \in Actors |-> Idle]
      BY <1>1, Zenon DEF Init
    <2>2. CountTyped
      BY <2>1 DEF CountTyped
    <2>3. NetTyped /\ ClientTyped /\ ServerTyped
      BY <1>1, EmptyTyped, SerialAssumption
      DEF Init, NetTyped, ClientTyped, ServerTyped, ClientEnds, ServerEnds
    <2>4. PcTyped
      BY <2>1, IdleTyped DEF PcTyped, CallTyped, Idle, Actors
    <2>. QED
      BY <2>2, <2>3, <2>4, TypeParts
  <1>. QED
    BY <1>1, TypeNext, PTL DEF Spec

-----------------------------------------------------------------------------
(***************************************************************************)
(* Requests and answers in the queues.                                     *)
(***************************************************************************)
\* Queue r holds no request or answer that q does not hold.
NoMore(r, q) ==
    /\ \A i \in 1..Len(r) : r[i].kind = "UnAuth" \/ \E j \in 1..Len(q) : r[i] = q[j]
    /\ Single(q) => Single(r)

LEMMA NoMoreSame == ASSUME NEW q \in Seq(Msgs) PROVE NoMore(q, q)
  BY DEF NoMore

LEMMA NoMoreEmpty == ASSUME NEW q PROVE NoMore(<<>>, q)
  BY EmptyTyped DEF NoMore, Single

LEMMA NoMoreTail == ASSUME NEW q \in Seq(Msgs), q # <<>> PROVE NoMore(Tail(q), q)
  <1>1. \A i \in 1..Len(Tail(q)) : i + 1 \in 1..Len(q) /\ Tail(q)[i] = q[i + 1]
    BY TailTyped
  <1>2. Single(q) => Single(Tail(q))
    BY <1>1, TailTyped DEF Single
  <1>. QED
    BY <1>1, <1>2 DEF NoMore

LEMMA NoMoreUnAuth ==
    ASSUME NEW q \in Seq(Msgs), NEW m \in Msgs, m.kind = "UnAuth"
    PROVE  NoMore(Append(q, m), q)
  <1>1. \A i \in 1..Len(Append(q, m)) : i \in 1..Len(q) \/ i = Len(q) + 1
    BY AppendTyped
  <1>2. \A i \in 1..Len(Append(q, m)) :
           Append(q, m)[i].kind = "UnAuth" \/ (i \in 1..Len(q) /\ Append(q, m)[i] = q[i])
    BY <1>1, AppendTyped
  <1>3. Single(q) => Single(Append(q, m))
    BY <1>2 DEF Single
  <1>. QED
    BY <1>2, <1>3 DEF NoMore

LEMMA CalmNoMore ==
    ASSUME NEW r, NEW q, Calm(q), NoMore(r, q)
    PROVE  Calm(r)
  BY DEF Calm, NoMore

LEMMA CalmSingle == ASSUME NEW q, Calm(q) PROVE Single(q)
  BY DEF Calm, Single

LEMMA CalmEmpty == Calm(<<>>)
  BY EmptyTyped DEF Calm

LEMMA TailCalm ==
    ASSUME NEW q \in Seq(Msgs), q # <<>>, Single(q), Head(q).kind # "UnAuth"
    PROVE  Calm(Tail(q))
  <1>1. ASSUME NEW i \in 1..Len(Tail(q)), Tail(q)[i].kind # "UnAuth" PROVE FALSE
    <2>1. i + 1 \in 1..Len(q) /\ Tail(q)[i] = q[i + 1] /\ 1 \in 1..Len(q) /\ Head(q) = q[1]
      BY TailTyped
    <2>2. i + 1 = 1
      BY <1>1, <2>1 DEF Single
    <2>. QED
      BY <2>2
  <1>. QED
    BY <1>1 DEF Calm

\* A request or answer behind frames that are none.
LEMMA AppendSingle ==
    ASSUME NEW q \in Seq(Msgs), NEW m \in Msgs, Calm(q)
    PROVE  /\ Single(Append(q, m))
           /\ \A i \in 1..Len(Append(q, m)) :
                 Append(q, m)[i].kind # "UnAuth" => Append(q, m)[i] = m
  <1>1. \A i \in 1..Len(Append(q, m)) : i \in 1..Len(q) \/ i = Len(q) + 1
    BY AppendTyped
  <1>2. \A i \in 1..Len(Append(q, m)) :
           Append(q, m)[i].kind # "UnAuth" => i = Len(q) + 1 /\ Append(q, m)[i] = m
    BY <1>1, AppendTyped DEF Calm
  <1>. QED
    BY <1>2 DEF Single

-----------------------------------------------------------------------------
(***************************************************************************)
(* What is on the way after a step.                                        *)
(***************************************************************************)
Flight == OneInFlight /\ Owned

\* What call k waits for it still waits for.
Keeps(k) ==
    /\ Connecting(k) => Connecting(k)' /\ pc'[k].ctx = pc[k].ctx
    /\ Requesting(k) => Requesting(k)' /\ pc'[k].key = pc[k].key

LEMMA FlightLess ==
    ASSUME Flight, \A k \in Callers : Keeps(k),
           \A c \in Conns : NoMore(up'[c], up[c]) /\ NoMore(down'[c], down[c])
    PROVE  Flight'
  <1>2. OneInFlight'
    <2>1. \A c \in Conns : Calm(up[c]) => Calm(up'[c])
      BY CalmNoMore
    <2>2. \A c \in Conns : Calm(down[c]) => Calm(down'[c])
      BY CalmNoMore
    <2>3. \A c \in Conns : CalmConn(c) => CalmConn(c)'
      BY <2>1, <2>2 DEF CalmConn
    <2>4. \A c \in Conns : Single(up'[c]) /\ Single(down'[c])
      BY DEF NoMore, Flight, OneInFlight
    <2>. QED
      BY <2>1, <2>2, <2>3, <2>4 DEF Flight, OneInFlight
  <1>3. ASSUME NEW c \in Conns, NEW i \in 1..Len(up'[c]), up'[c][i].kind # "UnAuth"
        PROVE  \E k \in Callers : Asks(k, c, up[c][i])'
    <2>1. PICK j \in 1..Len(up[c]) : up'[c][i] = up[c][j]
      BY <1>3 DEF NoMore
    <2>2. PICK k \in Callers : Asks(k, c, up[c][j])
      BY <1>3, <2>1 DEF Flight, Owned
    <2>3. Asks(k, c, up[c][i])'
      BY <2>1, <2>2 DEF Asks, Keeps
    <2>. QED
      BY <2>3
  <1>4. ASSUME NEW c \in Conns, NEW i \in 1..Len(down'[c]), down'[c][i].kind # "UnAuth"
        PROVE  \E k \in Callers : Answers(k, down[c][i])'
    <2>1. PICK j \in 1..Len(down[c]) : down'[c][i] = down[c][j]
      BY <1>4 DEF NoMore
    <2>2. PICK k \in Callers : Answers(k, down[c][j])
      BY <1>4, <2>1 DEF Flight, Owned
    <2>3. Answers(k, down[c][i])'
      BY <2>1, <2>2 DEF Answers, Keeps
    <2>. QED
      BY <2>3
  <1>. QED
    BY <1>2, <1>3, <1>4 DEF Flight, Owned

\* One request on the way, and nothing else.
LEMMA FlightUp ==
    ASSUME NEW d \in Conns, \A c \in Conns : Calm(down'[c]),
           \A c \in Conns \ {d} : Calm(up'[c]), Single(up'[d]),
           \A i \in 1..Len(up'[d]) : up'[d][i].kind # "UnAuth" =>
              \E k \in Callers : Asks(k, d, up[d][i])'
    PROVE  Flight'
  <1>1. OneInFlight'
    <2>1. \A c \in Conns : Single(up'[c]) /\ Single(down'[c])
      BY CalmSingle
    <2>2. \A c \in Conns \ {d} : CalmConn(c)'
      BY DEF CalmConn
    <2>. QED
      BY <2>1, <2>2 DEF OneInFlight
  <1>2. Owned'
    BY DEF Owned, Calm
  <1>. QED
    BY <1>1, <1>2 DEF Flight

\* One answer on the way, and nothing else.
LEMMA FlightDown ==
    ASSUME NEW d \in Conns, \A c \in Conns : Calm(up'[c]),
           \A c \in Conns \ {d} : Calm(down'[c]), Single(down'[d]),
           \A i \in 1..Len(down'[d]) : down'[d][i].kind # "UnAuth" =>
              \E k \in Callers : Answers(k, down[d][i])'
    PROVE  Flight'
  <1>1. OneInFlight'
    <2>1. \A c \in Conns : Single(up'[c]) /\ Single(down'[c])
      BY CalmSingle
    <2>2. \A c \in Conns \ {d} : CalmConn(c)'
      BY DEF CalmConn
    <2>. QED
      BY <2>1, <2>2 DEF OneInFlight
  <1>2. Owned'
    BY DEF Owned, Calm
  <1>. QED
    BY <1>1, <1>2 DEF Flight

LEMMA FlightCalm ==
    ASSUME \A c \in Conns : Calm(up'[c]) /\ Calm(down'[c])
    PROVE  Flight'
  <1>1. OneInFlight'
    BY CalmSingle DEF OneInFlight, CalmConn
  <1>2. Owned'
    BY DEF Owned, Calm
  <1>. QED
    BY <1>1, <1>2 DEF Flight

\* Nothing is on the way when no call waits.
LEMMA NobodyWaits ==
    ASSUME Flight, \A k \in Callers : ~ Connecting(k) /\ ~ Requesting(k)
    PROVE  \A c \in Conns : Calm(up[c]) /\ Calm(down[c])
  BY DEF Flight, Owned, Asks, Answers, Calm

\* A call that is idle, or past its answer, waits for nothing.
LEMMA RestsNot ==
    ASSUME NEW k \in Callers,
           \/ pc[k].at \in {"idle", "dial", "got", "again"}
           \/ pc[k].at = "stopping" /\ pc[k].next = "idle"
    PROVE  ~ Connecting(k) /\ ~ Requesting(k) /\ ~ Storing(k)
  BY DEF Connecting, Requesting, Storing

LEMMA NothingInFlight ==
    ASSUME Flight, OneCallAtATime, NEW k \in Callers,
           \/ pc[k].at \in {"dial", "got", "again"}
           \/ pc[k].at = "stopping" /\ pc[k].next = "idle"
    PROVE  \A c \in Conns : Calm(up[c]) /\ Calm(down[c])
  <1>1. \A l \in Callers \ {k} : pc[l].at = "idle"
    BY DEF OneCallAtATime
  <1>2. \A l \in Callers : ~ Connecting(l) /\ ~ Requesting(l)
    BY <1>1, RestsNot
  <1>. QED
    BY <1>2, NobodyWaits

-----------------------------------------------------------------------------
(***************************************************************************)
(* Steps that send no request and no answer.                               *)
(***************************************************************************)
\* What a step must do to a call that moves, if it wakes nobody.
Moves(k) ==
    /\ Keeps(k) /\ Portless(k)' /\ Asking(k)'
    /\ pc'[k].at # "got" /\ pc'[k].ctx \in {pc[k].ctx, clientCtx, None}
    /\ \A p \in Ports : Closing(k, p) /\ (\E c \in Conns : c = clientCtx' /\ p \in cports'[c])
          => Closing(k, p)'

\* A call that does not move, when ports are only closed.
LEMMA CallSame ==
    ASSUME TypeOK, NEW k \in Callers, Portless(k), Asking(k), pc'[k] = pc[k],
           \A c \in Conns : cports'[c] \subseteq cports[c],
           clientCtx' \in {clientCtx, None}
    PROVE  Keeps(k) /\ Portless(k)' /\ Asking(k)'
  <1>1. pc[k].ctx \in Conns \cup {None}
    BY DEF TypeOK, Actors
  <1>2. Storing(k)' <=> Storing(k)
    BY DEF Storing
  <1>3. (Connecting(k)' <=> Connecting(k)) /\ (Requesting(k)' <=> Requesting(k))
    BY <1>2 DEF Connecting, Requesting
  <1>4. Portless(k)'
    BY <1>1, <1>2, <1>3 DEF Portless
  <1>5. Asking(k)'
    BY <1>1 DEF Asking
  <1>. QED
    BY <1>3, <1>4, <1>5 DEF Keeps

LEMMA StepSync ==
    ASSUME TypeOK, TypeOK', Synchronous,
           \A c \in Conns : NoMore(up'[c], up[c]) /\ NoMore(down'[c], down[c]),
           \A c \in Conns : (cch'[c] = "new" => cch[c] = "new") /\ cports'[c] \subseteq cports[c],
           \A a \in {"sweep", "peer"} : pc'[a].at \in {"idle", "stopping"} /\ pc'[a].next = "idle",
           \A k \in Callers : pc'[k] = pc[k] \/ Moves(k),
           \/ clientCtx' \in {clientCtx, None}
           \/ /\ clientCtx' \in Conns /\ cports'[clientCtx'] = {} /\ cch'[clientCtx'] # "new"
              /\ \A k \in Callers : Keeps(k) /\ Portless(k)' /\ Asking(k)',
           serverCtx' \in {serverCtx, None}, serverCtx' # None => sports' = sports
    PROVE  Synchronous'
  <1>1. \A k \in Callers : Keeps(k) /\ Portless(k)' /\ Asking(k)'
    <2>1. CASE clientCtx' \in {clientCtx, None}
      BY <2>1, CallSame DEF Moves, Synchronous
    <2>. QED
      BY <2>1
  <1>2. Flight'
    BY <1>1, FlightLess DEF Synchronous, Flight
  <1>3. Undialed'
    <2>1. ASSUME NEW c \in Conns, cch'[c] = "new"
          PROVE  cports'[c] = {} /\ clientCtx' # c /\ \A k \in Callers : pc'[k].ctx # c
      <3>1. cch[c] = "new" /\ cports[c] = {} /\ clientCtx # c /\ \A k \in Callers : pc[k].ctx # c
        BY <2>1 DEF Synchronous, Undialed
      <3>2. cports'[c] = {} /\ clientCtx' # c
        BY <2>1, <3>1, NoneNew
      <3>3. \A k \in Callers : pc'[k].ctx # c
        BY <3>1, NoneNew DEF Moves
      <3>. QED
        BY <3>2, <3>3
    <2>. QED
      BY <2>1 DEF Undialed
  <1>4. AnswerTrue'
    <2>. SUFFICES ASSUME serverCtx' # None
                  PROVE  /\ \A c \in Conns : \A i \in 1..Len(down'[c]) :
                               down'[c][i].kind = "open" /\ down'[c][i].ok
                                  => down'[c][i].port \in sports'[serverCtx']
                         /\ \A k \in Callers :
                               pc'[k].at = "got" /\ pc'[k].key[1] = "open" /\ pc'[k].ok
                                  => pc'[k].port \in sports'[serverCtx']
      BY DEF AnswerTrue
    <2>1. serverCtx' = serverCtx /\ sports' = sports
      OBVIOUS
    <2>2. ASSUME NEW c \in Conns, NEW i \in 1..Len(down'[c]),
                 down'[c][i].kind = "open", down'[c][i].ok
          PROVE  down'[c][i].port \in sports'[serverCtx']
      <3>1. PICK j \in 1..Len(down[c]) : down'[c][i] = down[c][j]
        BY <2>2 DEF NoMore
      <3>. QED
        BY <2>1, <2>2, <3>1 DEF Synchronous, AnswerTrue
    <2>3. ASSUME NEW k \in Callers, pc'[k].at = "got", pc'[k].key[1] = "open", pc'[k].ok
          PROVE  pc'[k].port \in sports'[serverCtx']
      <3>1. pc'[k] = pc[k]
        BY <2>3 DEF Moves
      <3>. QED
        BY <2>1, <2>3, <3>1 DEF Synchronous, AnswerTrue
    <2>. QED
      BY <2>2, <2>3
  <1>5. Backed'
    <2>. SUFFICES ASSUME clientCtx' # None, serverCtx' = clientCtx', NEW p \in cports'[clientCtx']
                  PROVE  p \in sports'[clientCtx'] \/ \E k \in Callers : Closing(k, p)'
      BY DEF Backed
    <2>1. clientCtx' \in Conns /\ p \in Ports
      BY DEF TypeOK
    <2>2. clientCtx' = clientCtx /\ serverCtx' = serverCtx /\ sports' = sports
      OBVIOUS
    <2>3. p \in sports[clientCtx] \/ \E k \in Callers : Closing(k, p)
      BY <2>1, <2>2 DEF Synchronous, Backed
    <2>4. ASSUME NEW k \in Callers, Closing(k, p) PROVE Closing(k, p)'
      <3>1. CASE pc'[k] = pc[k]
        BY <2>4, <3>1 DEF Closing
      <3>2. CASE Moves(k)
        BY <2>1, <2>4, <3>2 DEF Moves
      <3>. QED
        BY <3>1, <3>2
    <2>. QED
      BY <2>2, <2>3, <2>4
  <1>. QED
    BY <1>1, <1>2, <1>3, <1>4, <1>5 DEF Synchronous, Flight

\* A call that rests keeps nobody waiting.
LEMMA RestsMoves ==
    ASSUME TypeOK, NEW k \in Callers, ~ Connecting(k), ~ Requesting(k),
           \/ pc'[k].at \in {"idle", "dial", "again"}
           \/ pc'[k].at = "stopping" /\ pc'[k].next = "idle",
           pc'[k].ctx \in {pc[k].ctx, clientCtx, None}, pc[k].at # "sent"
    PROVE  Moves(k)
  <1>1. Keeps(k)
    BY DEF Keeps
  <1>2. Portless(k)' /\ Asking(k)'
    BY DEF Portless, Asking, Storing, Connecting
  <1>. QED
    BY <1>1, <1>2 DEF Moves, Closing

\* Queues after a step that writes UnAuth, or nothing, and closes ends.
LEMMA CarryNoMore ==
    ASSUME TypeOK, NEW newUp \in [Conns -> Seq(Msgs)], Carry(newUp, down),
           \A c \in Conns : NoMore(newUp[c], up[c])
    PROVE  \A c \in Conns : NoMore(up'[c], up[c]) /\ NoMore(down'[c], down[c])
  <1>1. ASSUME NEW c \in Conns PROVE NoMore(up'[c], up[c]) /\ NoMore(down'[c], down[c])
    <2>1. (up'[c] = newUp[c] \/ up'[c] = <<>>) /\ (down'[c] = down[c] \/ down'[c] = <<>>)
      BY CarryTyped DEF TypeOK
    <2>2. NoMore(down[c], down[c]) /\ NoMore(<<>>, down[c]) /\ NoMore(<<>>, up[c])
      BY NoMoreSame, NoMoreEmpty DEF TypeOK
    <2>. QED
      BY <2>1, <2>2
  <1>. QED
    BY <1>1

LEMMA UpNoMore == ASSUME TypeOK, NEW c \in Conns PROVE NoMore(up[c], up[c]) /\ NoMore(down[c], down[c])
  BY NoMoreSame DEF TypeOK

LEMMA StopNoMore ==
    ASSUME TypeOK, NEW o \in Conns, NEW hasty \in BOOLEAN, StopContext(o, hasty)
    PROVE  /\ \A c \in Conns : NoMore(up'[c], up[c]) /\ NoMore(down'[c], down[c])
           /\ \A c \in Conns : (cch'[c] = "new" => cch[c] = "new") /\ cports'[c] \subseteq cports[c]
  <1>1. \A c \in Conns : (cch'[c] = "new" => cch[c] = "new") /\ cports'[c] \subseteq cports[c]
    BY DEF StopContext, Closed, TypeOK
  <1>2. CASE hasty
    <2>1. Carry(up, down)
      BY <1>2 DEF StopContext
    <2>. QED
      BY <1>1, <2>1, CarryNoMore, UpNoMore DEF TypeOK
  <1>3. CASE ~ hasty
    <2>1. PICK m \in Msgs : m = Msg("UnAuth", None, TRUE) /\ m.kind = "UnAuth"
      BY MsgTyped DEF Msg
    <2>2. PICK new \in [Conns -> Seq(Msgs)] : new = SentUp(handler[o], m)
      BY SentTyped DEF TypeOK
    <2>3. Carry(new, down)
      BY <1>3, <2>1, <2>2 DEF StopContext
    <2>4. \A c \in Conns : new[c] = up[c] \/ new[c] = Append(up[c], m)
      <3>1. up \in [Conns -> Seq(Msgs)] /\ down \in [Conns -> Seq(Msgs)]
        BY DEF TypeOK
      <3>2. \A c \in Conns : SentUp(handler[o], m)[c] = up[c]
                             \/ SentUp(handler[o], m)[c] = Append(up[c], m)
        BY <3>1, SentTyped
      <3>. QED
        BY <2>2, <3>2
    <2>5. \A c \in Conns : NoMore(new[c], up[c])
      BY <2>1, <2>4, UpNoMore, NoMoreUnAuth DEF TypeOK
    <2>. QED
      BY <1>1, <2>3, <2>5, CarryNoMore
  <1>. QED
    BY <1>2, <1>3

\* The sweep, and the goroutine of a changed peer, begin to stop the context.
LEMMA StopperSync ==
    ASSUME TypeOK, TypeOK', Synchronous, NEW a \in {"sweep", "peer"}, clientCtx # None,
           NEW hasty \in BOOLEAN, BeginStop(a, clientCtx, hasty, "idle")
    PROVE  Synchronous'
  <1>1. clientCtx \in Conns /\ a \in Actors /\ pc \in [Actors -> Pcs]
    BY TypeParts DEF TypeOK, Actors, PcTyped
  <1>2. /\ \A c \in Conns : NoMore(up'[c], up[c]) /\ NoMore(down'[c], down[c])
        /\ \A c \in Conns : (cch'[c] = "new" => cch[c] = "new") /\ cports'[c] \subseteq cports[c]
    BY <1>1, StopNoMore DEF BeginStop
  <1>3. \A b \in Actors \ {a} : pc'[b] = pc[b]
    BY <1>1 DEF BeginStop
  <1>4. pc'[a].at = "stopping" /\ pc'[a].next = "idle"
    BY <1>1 DEF BeginStop, Pcs
  <1>5. \A k \in Callers : pc'[k] = pc[k]
    BY <1>3, SerialAssumption DEF Actors
  <1>6. \A b \in {"sweep", "peer"} : pc'[b].at \in {"idle", "stopping"} /\ pc'[b].next = "idle"
    BY <1>3, <1>4 DEF Synchronous, Undialed, Actors
  <1>7. clientCtx' = clientCtx /\ serverCtx' = serverCtx /\ sports' = sports
    BY DEF BeginStop, server
  <1>. QED
    BY <1>2, <1>5, <1>6, <1>7, StepSync

LEMMA EndStopSync ==
    ASSUME TypeOK, TypeOK', Synchronous, OneCallAtATime, NEW a \in Actors, EndStop(a)
    PROVE  Synchronous'
  <1>1. pc \in [Actors -> Pcs]
    BY TypeParts DEF PcTyped
  <1>2. \A c \in Conns : NoMore(up'[c], up[c]) /\ NoMore(down'[c], down[c])
    <2>1. Carry(up, down)
      BY DEF EndStop
    <2>. QED
      BY <2>1, CarryNoMore, UpNoMore DEF TypeOK
  <1>3. \A c \in Conns : (cch'[c] = "new" => cch[c] = "new") /\ cports'[c] = cports[c]
    <2>1. cch' = Closed(cch, {pc[a].old, handler[pc[a].old]}) /\ cports' = cports
      BY DEF EndStop
    <2>. QED
      BY <2>1 DEF Closed
  <1>4. \A b \in Actors \ {a} : pc'[b] = pc[b]
    BY <1>1 DEF EndStop, Return
  <1>5. serverCtx' = serverCtx /\ sports' = sports
    BY DEF EndStop, server
  <1>6. CASE pc[a].next = "idle"
    <2>1. pc'[a] = Idle /\ clientCtx' = None
      BY <1>1, <1>6 DEF EndStop, Return
    <2>2. pc'[a].at = "idle" /\ pc'[a].next = "idle" /\ pc'[a].ctx = None
      BY <2>1 DEF Idle
    <2>3. ASSUME NEW k \in Callers PROVE pc'[k] = pc[k] \/ Moves(k)
      <3>1. CASE k # a
        BY <1>4, <3>1 DEF Actors
      <3>2. CASE k = a
        <4>1. ~ Connecting(k) /\ ~ Requesting(k)
          BY <1>6, <3>2, RestsNot DEF EndStop
        <4>. QED
          BY <2>2, <3>2, <4>1, RestsMoves DEF EndStop
      <3>. QED
        BY <3>1, <3>2
    <2>4. \A b \in {"sweep", "peer"} : pc'[b].at \in {"idle", "stopping"} /\ pc'[b].next = "idle"
      BY <1>4, <2>2 DEF Synchronous, Undialed, Actors
    <2>. QED
      BY <1>2, <1>3, <1>5, <2>1, <2>3, <2>4, StepSync
  <1>7. CASE pc[a].next # "idle"
    <2>1. a \notin {"sweep", "peer"}
      BY <1>7 DEF Synchronous, Undialed
    <2>2. a \in Callers /\ pc[a].at = "stopping"
      BY <2>1 DEF Actors, EndStop
    <2>3. pc[a].next = "stored"
      BY <1>7, <2>2 DEF Synchronous, Portless
    <2>4. Storing(a) /\ Connecting(a)
      BY <2>2, <2>3 DEF Storing, Connecting, Synchronous, Portless
    <2>5. pc[a].ctx \in Conns /\ cports[pc[a].ctx] = {} /\ pc[a].key = AuthKey
      <3>1. pc[a].ctx \in Conns \cup {None}
        BY <1>1 DEF Pcs
      <3>. QED
        BY <2>2, <2>4, <3>1 DEF Synchronous, Portless, Connecting
    <2>6. cch[pc[a].ctx] # "new"
      BY <2>2, <2>5 DEF Synchronous, Undialed
    <2>7. pc' = [pc EXCEPT ![a].at = "stored", ![a].old = None] /\ clientCtx' = pc[a].ctx
      BY <1>7, <2>3 DEF EndStop
    <2>8. /\ pc'[a].at = "stored" /\ pc'[a].key = pc[a].key /\ pc'[a].ctx = pc[a].ctx
          /\ pc'[a].next = pc[a].next
      BY <1>1, <2>7 DEF Pcs
    <2>9. Connecting(a)' /\ Keeps(a) /\ Portless(a)' /\ Asking(a)'
      <3>1. Connecting(a)' /\ ~ Requesting(a)
        BY <2>5, <2>8 DEF Connecting, Storing, Requesting
      <3>2. Keeps(a)
        BY <2>8, <3>1 DEF Keeps
      <3>3. Portless(a)' /\ Asking(a)'
        BY <1>3, <2>5, <2>8, NoneNew DEF Portless, Asking
      <3>. QED
        BY <3>1, <3>2, <3>3
    <2>10. Moves(a)
      BY <2>2, <2>8, <2>9 DEF Moves, Closing
    <2>11. \A k \in Callers \ {a} : pc'[k] = pc[k] /\ pc[k].at = "idle"
      BY <1>4, <2>2 DEF OneCallAtATime, Actors
    <2>12. \A k \in Callers : Keeps(k) /\ Portless(k)' /\ Asking(k)'
      <3>1. ASSUME NEW k \in Callers \ {a} PROVE Keeps(k) /\ Portless(k)' /\ Asking(k)'
        BY <2>11, RestsNot
        DEF Keeps, Portless, Asking, Storing, Connecting, Requesting
      <3>. QED
        BY <2>9, <3>1
    <2>13. \A b \in {"sweep", "peer"} : pc'[b].at \in {"idle", "stopping"} /\ pc'[b].next = "idle"
      BY <1>4, <2>1 DEF Synchronous, Undialed, Actors
    <2>14. clientCtx' \in Conns /\ cports'[clientCtx'] = {} /\ cch'[clientCtx'] # "new"
      BY <1>3, <2>5, <2>6, <2>7
    <2>. QED
      BY <1>2, <1>3, <1>5, <2>10, <2>11, <2>12, <2>13, <2>14, StepSync
  <1>. QED
    BY <1>6, <1>7

\* The server deletes its context.
LEMMA RemoveSync ==
    ASSUME TypeOK, TypeOK', Synchronous, NEW newUp \in [Conns -> Seq(Msgs)],
           RemoveServerHandler(newUp), UNCHANGED <<client, pc>>,
           \A c \in Conns : NoMore(newUp[c], up[c])
    PROVE  Synchronous'
  <1>1. \A c \in Conns : NoMore(up'[c], up[c]) /\ NoMore(down'[c], down[c])
    BY CarryNoMore DEF RemoveServerHandler
  <1>2. serverCtx' = None /\ UNCHANGED <<cch, cports, clientCtx, pc>>
    BY DEF RemoveServerHandler, client
  <1>3. \A a \in {"sweep", "peer"} : pc'[a].at \in {"idle", "stopping"} /\ pc'[a].next = "idle"
    BY <1>2 DEF Synchronous, Undialed
  <1>. QED
    BY <1>1, <1>2, <1>3, StepSync

\* Connections break, are found broken, and lose what was written.
LEMMA NetSync ==
    ASSUME TypeOK, TypeOK', Synchronous, NEW c \in Conns, ReadIdle(c) \/ Break(c) \/ Lose(c)
    PROVE  Synchronous'
  <1>1. \A d \in Conns : NoMore(up'[d], up[d]) /\ NoMore(down'[d], down[d])
    <2>1. CASE Carry(up, down)
      BY <2>1, CarryNoMore, UpNoMore DEF TypeOK
    <2>2. CASE Lose(c)
      <3>1. \A d \in Conns : (up'[d] = up[d] \/ up'[d] = <<>>) /\ (down'[d] = down[d] \/ down'[d] = <<>>)
        BY <2>2 DEF Lose, TypeOK
      <3>2. \A d \in Conns : NoMore(<<>>, up[d]) /\ NoMore(<<>>, down[d])
        BY NoMoreEmpty
      <3>3. \A d \in Conns : NoMore(up[d], up[d]) /\ NoMore(down[d], down[d])
        BY UpNoMore
      <3>. QED
        BY <3>1, <3>2, <3>3
    <2>. QED
      BY <2>1, <2>2 DEF ReadIdle, Break
  <1>2. UNCHANGED <<serverCtx, sports, clientCtx, cports, pc>>
    BY DEF ReadIdle, Break, Lose, client, server
  <1>3. \A d \in Conns : (cch'[d] = "new" => cch[d] = "new") /\ cports'[d] \subseteq cports[d]
    BY <1>2 DEF ReadIdle, Break, Lose, TypeOK
  <1>4. \A a \in {"sweep", "peer"} : pc'[a].at \in {"idle", "stopping"} /\ pc'[a].next = "idle"
    BY <1>2 DEF Synchronous, Undialed
  <1>. QED
    BY <1>1, <1>2, <1>3, <1>4, StepSync

-----------------------------------------------------------------------------
(***************************************************************************)
(* The calls of the user interface.                                        *)
(***************************************************************************)
\* The goroutines beside the callers do not take part in a call.
LEMMA StoppersRest ==
    ASSUME TypeOK, Synchronous, NEW k \in Callers, NEW r, pc' = [pc EXCEPT ![k] = r]
    PROVE  /\ \A a \in {"sweep", "peer"} :
                 pc'[a].at \in {"idle", "stopping"} /\ pc'[a].next = "idle"
           /\ \A l \in Callers \ {k} : pc'[l] = pc[l]
           /\ pc'[k] = r
  <1>1. k \in Actors /\ "sweep" \in Actors /\ "peer" \in Actors /\ k \notin {"sweep", "peer"}
    BY SerialAssumption DEF Actors
  <1>2. \A l \in Actors : pc'[l] = IF l = k THEN r ELSE pc[l]
    BY <1>1 DEF TypeOK
  <1>. QED
    BY <1>1, <1>2 DEF Synchronous, Undialed, Actors

\* A step of a call that was not waiting, and rests afterwards.
LEMMA RestSync ==
    ASSUME TypeOK, TypeOK', Synchronous, NEW k \in Callers,
           NEW r, pc' = [pc EXCEPT ![k] = r],
           r.at \in {"idle", "dial", "again"} \/ (r.at = "stopping" /\ r.next = "idle"),
           r.ctx \in {pc[k].ctx, clientCtx, None},
           pc[k].at \in {"idle", "dial", "got", "again"},
           \A c \in Conns : NoMore(up'[c], up[c]) /\ NoMore(down'[c], down[c]),
           \A c \in Conns : (cch'[c] = "new" => cch[c] = "new") /\ cports'[c] \subseteq cports[c],
           UNCHANGED <<clientCtx, serverCtx, sports>>
    PROVE  Synchronous'
  <1>1. Moves(k)
    <2>1. pc'[k] = r
      BY StoppersRest
    <2>2. ~ Connecting(k) /\ ~ Requesting(k)
      BY RestsNot
    <2>. QED
      BY <2>1, <2>2, RestsMoves
  <1>. QED
    BY <1>1, StoppersRest, StepSync

LEMMA SingleOne ==
    ASSUME NEW m \in Msgs
    PROVE  Single(<<m>>) /\ \A i \in 1..Len(<<m>>) : <<m>>[i] = m
  BY DEF Single

LEMMA RequestSync ==
    ASSUME TypeOK, TypeOK', Synchronous, OneCallAtATime', NEW k \in Callers,
           NEW op \in Ops \ {"connect", "disconnect"}, NEW p \in Ports, NEW second \in BOOLEAN,
           clientCtx # None, Request(k, clientCtx, op, p, second),
           pc[k].at \in {"idle", "again"},
           UNCHANGED <<clientCtx, cports, serverCtx, sports>>
    PROVE  Synchronous'
  <1>1. clientCtx \in Conns
    BY DEF TypeOK
  <1>2. CASE Return(k) /\ UNCHANGED <<cch, sch, up, down>>
    <2>1. \A c \in Conns : NoMore(up'[c], up[c]) /\ NoMore(down'[c], down[c])
      BY <1>2, UpNoMore
    <2>2. pc' = [pc EXCEPT ![k] = Idle] /\ Idle.at = "idle" /\ Idle.ctx = None
      BY <1>2 DEF Return, Idle
    <2>. QED
      BY <1>2, <2>1, <2>2, RestSync
  <1>3. CASE ~ (Return(k) /\ UNCHANGED <<cch, sch, up, down>>)
    <2>1. /\ op # "ports" /\ (op \in {"open", "set"} => p \notin cports[clientCtx])
          /\ handler[clientCtx] # None /\ UNCHANGED <<cch, sch>>
          /\ Carry(SentUp(handler[clientCtx], Msg(KeyOf(op, p)[1], KeyOf(op, p)[2], TRUE)), down)
          /\ pc' = [pc EXCEPT ![k] = [Idle EXCEPT !.at = "sent", !.op = op,
                       !.port = p, !.ctx = clientCtx, !.key = KeyOf(op, p), !.second = second]]
      BY <1>3 DEF Request
    <2>2. PICK r : r = [Idle EXCEPT !.at = "sent", !.op = op, !.port = p, !.ctx = clientCtx,
                                    !.key = KeyOf(op, p), !.second = second]
      OBVIOUS
    <2>3. r.at = "sent" /\ r.op = op /\ r.port = p /\ r.ctx = clientCtx /\ r.key = KeyOf(op, p)
      BY <2>2 DEF Idle
    <2>4. /\ pc'[k] = r /\ \A l \in Callers \ {k} : pc'[l] = pc[l]
          /\ \A a \in {"sweep", "peer"} : pc'[a].at \in {"idle", "stopping"} /\ pc'[a].next = "idle"
      BY <2>1, <2>2, StoppersRest
    <2>5. \A l \in Callers \ {k} : pc[l].at = "idle" /\ pc'[l].at = "idle"
      BY <2>3, <2>4 DEF OneCallAtATime
    <2>6. \A c \in Conns : Calm(up[c]) /\ Calm(down[c])
      <3>1. \A l \in Callers : ~ Connecting(l) /\ ~ Requesting(l)
        BY <2>5, RestsNot
      <3>. QED
        BY <3>1, NobodyWaits DEF Synchronous, Flight
    <2>7. PICK m \in Msgs : m = Msg(KeyOf(op, p)[1], KeyOf(op, p)[2], TRUE)
      BY <2>1, KeyTyped
    <2>8. m.kind # "Auth" /\ KeyOf(op, p) = <<m.kind, m.port>> /\ KeyOf(op, p) # AuthKey
      BY <2>1, <2>7 DEF Msg, KeyOf, Ops, AuthKey
    <2>9. PICK d \in Conns : d = handler[clientCtx]
      BY <1>1, <2>1 DEF TypeOK
    <2>10. /\ \A c \in Conns \ {d} : Calm(up'[c])
           /\ up'[d] = <<>> \/ up'[d] = up[d] \/ up'[d] = Append(up[d], m)
           /\ \A c \in Conns : Calm(down'[c])
      <3>1. up \in [Conns -> Seq(Msgs)] /\ down \in [Conns -> Seq(Msgs)]
        BY DEF TypeOK
      <3>2. PICK new \in [Conns -> Seq(Msgs)] :
               new = SentUp(d, m) /\ \A c \in Conns :
                  new[c] = up[c] \/ (c = d /\ new[c] = Append(up[c], m))
        BY <3>1, SentTyped
      <3>3. Carry(new, down)
        BY <2>1, <2>7, <2>9, <3>2
      <3>4. /\ \A c \in Conns : up'[c] = new[c] \/ up'[c] = <<>>
            /\ \A c \in Conns : down'[c] = down[c] \/ down'[c] = <<>>
        BY <3>1, <3>3, CarryTyped
      <3>. QED
        BY <2>6, <3>2, <3>4, CalmEmpty
    <2>11. Asks(k, d, m)'
      BY <2>3, <2>4, <2>8 DEF Asks, Requesting
    <2>12. Flight'
      <3>1. Single(up'[d]) /\ \A i \in 1..Len(up'[d]) : up'[d][i].kind # "UnAuth" => up'[d][i] = m
        <4>1. CASE Calm(up'[d])
          BY <4>1, CalmSingle DEF Calm
        <4>2. CASE up'[d] = Append(up[d], m)
          <5>1. up[d] \in Seq(Msgs) /\ Calm(up[d])
            BY <2>6 DEF TypeOK
          <5>. QED
            BY <4>2, <5>1, AppendSingle
        <4>. QED
          BY <2>6, <2>10, <4>1, <4>2, CalmEmpty
      <3>2. \A i \in 1..Len(up'[d]) : up'[d][i].kind # "UnAuth" => Asks(k, d, up[d][i])'
        BY <2>3, <2>4, <2>8, <3>1 DEF Asks, Requesting
      <3>. QED
        BY <2>10, <3>1, <3>2, FlightUp
    <2>13. \A l \in Callers : Portless(l)' /\ Asking(l)'
      <3>1. ASSUME NEW l \in Callers \ {k} PROVE Portless(l)' /\ Asking(l)'
        BY <2>5 DEF Portless, Asking, Storing, Connecting
      <3>2. Portless(k)'
        BY <2>3, <2>4, <2>8 DEF Portless, Storing, Connecting
      <3>3. KeyOf(op, p)[1] = "open" => op \in {"open", "set"}
        BY DEF KeyOf, Ops
      <3>4. Asking(k)'
        BY <2>1, <2>3, <2>4, <3>3 DEF Asking
      <3>. QED
        BY <3>1, <3>2, <3>4
    <2>14. Undialed'
      <3>1. \A c \in Conns : cch'[c] = "new" =>
               cports'[c] = {} /\ clientCtx' # c /\ \A l \in Callers : pc[l].ctx # c
        BY <2>1 DEF Synchronous, Undialed
      <3>2. \A l \in Callers : pc'[l].ctx = pc[l].ctx \/ pc'[l].ctx = clientCtx'
        BY <2>3, <2>4
      <3>. QED
        BY <2>4, <3>1, <3>2 DEF Undialed
    <2>15. AnswerTrue'
      <3>1. \A l \in Callers : pc'[l].at # "got"
        BY <2>3, <2>4, <2>5
      <3>2. \A c \in Conns : \A i \in 1..Len(down'[c]) : down'[c][i].kind # "open"
        BY <2>10 DEF Calm
      <3>. QED
        BY <3>1, <3>2 DEF AnswerTrue
    <2>16. Backed'
      <3>1. \A l \in Callers, x \in Ports : ~ Closing(l, x)
        BY <2>5 DEF Closing
      <3>2. serverCtx = clientCtx => \A x \in cports[clientCtx] : x \in sports[clientCtx]
        BY <1>1, <3>1 DEF Synchronous, Backed, TypeOK
      <3>. QED
        BY <3>2 DEF Backed
    <2>. QED
      BY <2>12, <2>13, <2>14, <2>15, <2>16 DEF Synchronous, Flight
  <1>. QED
    BY <1>2, <1>3

LEMMA CallSync ==
    ASSUME TypeOK, TypeOK', Synchronous, OneCallAtATime', NEW k \in Callers, Call(k)
    PROVE  Synchronous'
  <1>1. k \in Actors /\ pc \in [Actors -> Pcs] /\ pc[k].at = "idle"
    BY TypeParts DEF Actors, PcTyped, Call
  <1>2. PICK op \in Calls, p \in Ports :
          \/ /\ op = "connect" \/ (clientCtx = None /\ op \notin {"close", "disconnect"})
             /\ pc' = [pc EXCEPT ![k] = [Idle EXCEPT !.at = "dial", !.op = op,
                                            !.port = p, !.second = TRUE]]
             /\ UNCHANGED <<client, server, net, late, faults>>
          \/ /\ op = "disconnect" /\ clientCtx # None
             /\ BeginStop(k, clientCtx, FALSE, "idle") /\ UNCHANGED faults
          \/ /\ op \notin {"connect", "disconnect"} /\ clientCtx # None
             /\ Request(k, clientCtx, op, p, FALSE)
             /\ UNCHANGED <<client, server, late, faults>>
    BY DEF Call
  <1>3. CASE /\ pc' = [pc EXCEPT ![k] = [Idle EXCEPT !.at = "dial", !.op = op,
                                            !.port = p, !.second = TRUE]]
             /\ UNCHANGED <<client, server, net, late, faults>>
    <2>1. PICK r : r = [Idle EXCEPT !.at = "dial", !.op = op, !.port = p, !.second = TRUE]
      OBVIOUS
    <2>2. r.at = "dial" /\ r.ctx = None /\ pc' = [pc EXCEPT ![k] = r]
      BY <1>3, <2>1 DEF Idle
    <2>3. /\ \A c \in Conns : NoMore(up'[c], up[c]) /\ NoMore(down'[c], down[c])
          /\ \A c \in Conns : (cch'[c] = "new" => cch[c] = "new") /\ cports'[c] \subseteq cports[c]
          /\ UNCHANGED <<clientCtx, serverCtx, sports>>
      BY <1>3, UpNoMore DEF client, server, net
    <2>. QED
      BY <1>1, <2>2, <2>3, RestSync
  <1>4. CASE clientCtx # None /\ BeginStop(k, clientCtx, FALSE, "idle")
    <2>1. PICK r : r = [pc[k] EXCEPT !.at = "stopping", !.old = clientCtx, !.next = "idle"]
      OBVIOUS
    <2>2. pc' = [pc EXCEPT ![k] = r]
      BY <1>1, <1>4, <2>1 DEF BeginStop, Pcs
    <2>3. r.at = "stopping" /\ r.next = "idle" /\ r.ctx = pc[k].ctx
      BY <1>1, <2>1 DEF Pcs
    <2>4. /\ \A c \in Conns : NoMore(up'[c], up[c]) /\ NoMore(down'[c], down[c])
          /\ \A c \in Conns : (cch'[c] = "new" => cch[c] = "new") /\ cports'[c] \subseteq cports[c]
      BY <1>4, StopNoMore DEF BeginStop, TypeOK
    <2>5. UNCHANGED <<clientCtx, serverCtx, sports>>
      BY <1>4 DEF BeginStop, server
    <2>. QED
      BY <1>1, <2>2, <2>3, <2>4, <2>5, RestSync
  <1>5. CASE /\ op \notin {"connect", "disconnect"} /\ clientCtx # None
             /\ Request(k, clientCtx, op, p, FALSE)
             /\ UNCHANGED <<client, server, late, faults>>
    <2>1. op \in Ops \ {"connect", "disconnect"}
      BY <1>5, SerialAssumption DEF Ops
    <2>2. UNCHANGED <<clientCtx, cports, serverCtx, sports>>
      BY <1>5 DEF client, server
    <2>. QED
      BY <1>1, <1>5, <2>1, <2>2, RequestSync
  <1>. QED
    BY <1>2, <1>3, <1>4, <1>5

LEMMA DialFailsSync ==
    ASSUME TypeOK, TypeOK', Synchronous, NEW k \in Callers, DialFails(k)
    PROVE  Synchronous'
  <1>1. Idle.at = "idle" /\ Idle.ctx = None /\ pc' = [pc EXCEPT ![k] = Idle]
    BY DEF Idle, DialFails, Return
  <1>2. /\ \A c \in Conns : NoMore(up'[c], up[c]) /\ NoMore(down'[c], down[c])
        /\ \A c \in Conns : (cch'[c] = "new" => cch[c] = "new") /\ cports'[c] \subseteq cports[c]
        /\ UNCHANGED <<clientCtx, serverCtx, sports>> /\ pc[k].at = "dial"
    BY UpNoMore DEF DialFails, client, server, net
  <1>. QED
    BY <1>1, <1>2, RestSync

LEMMA AgainSync ==
    ASSUME TypeOK, TypeOK', Synchronous, OneCallAtATime', NEW k \in Callers, Again(k)
    PROVE  Synchronous'
  <1>1. k \in Actors /\ pc[k] \in Pcs /\ CallTyped(k) /\ pc[k].at = "again"
    BY TypeParts DEF PcTyped, Actors, Again
  <1>2. UNCHANGED <<clientCtx, cports, serverCtx, sports>>
    BY DEF Again, client, server
  <1>3. CASE Return(k) /\ UNCHANGED net
    <2>1. Idle.at = "idle" /\ Idle.ctx = None /\ pc' = [pc EXCEPT ![k] = Idle]
      BY <1>3 DEF Idle, Return
    <2>2. /\ \A c \in Conns : NoMore(up'[c], up[c]) /\ NoMore(down'[c], down[c])
          /\ \A c \in Conns : (cch'[c] = "new" => cch[c] = "new") /\ cports'[c] \subseteq cports[c]
      BY <1>2, <1>3, UpNoMore DEF net
    <2>. QED
      BY <1>1, <1>2, <2>1, <2>2, RestSync
  <1>4. CASE clientCtx # None /\ Request(k, clientCtx, pc[k].op, pc[k].port, TRUE)
    <2>1. pc[k].op \in Ops \ {"connect", "disconnect"} /\ pc[k].port \in Ports
      BY <1>1 DEF Pcs, CallTyped
    <2>. QED
      BY <1>1, <1>2, <1>4, <2>1, RequestSync
  <1>. QED
    BY <1>3, <1>4 DEF Again

LEMMA StartSync ==
    ASSUME TypeOK, TypeOK', Synchronous, OneCallAtATime, NEW k \in Callers, Start(k)
    PROVE  Synchronous'
  <1>1. k \in Actors /\ pc \in [Actors -> Pcs] /\ pc[k].at = "dial"
    BY TypeParts DEF Actors, PcTyped, Start
  <1>2. PICK d \in Conns :
          /\ cch[d] = "new"
          /\ cch' = [cch EXCEPT ![d] = "open"]
          /\ up' = [up EXCEPT ![d] = <<Msg("Auth", None, TRUE)>>]
          /\ down' = [down EXCEPT ![d] = <<>>]
          /\ pc' = [pc EXCEPT ![k].at = "dialed", ![k].ctx = d, ![k].key = <<"auth", None>>]
    BY DEF Start
  <1>3. UNCHANGED <<clientCtx, cports, serverCtx, sports>>
    BY DEF Start, client, server
  <1>4. PICK r : r = [pc[k] EXCEPT !.at = "dialed", !.ctx = d, !.key = <<"auth", None>>]
    OBVIOUS
  <1>5. pc' = [pc EXCEPT ![k] = r]
    BY <1>1, <1>2, <1>4 DEF Pcs
  <1>6. r.at = "dialed" /\ r.ctx = d /\ r.key = AuthKey
    BY <1>1, <1>4 DEF Pcs, AuthKey
  <1>7. /\ pc'[k] = r /\ \A l \in Callers \ {k} : pc'[l] = pc[l] /\ pc[l].at = "idle"
        /\ \A a \in {"sweep", "peer"} : pc'[a].at \in {"idle", "stopping"} /\ pc'[a].next = "idle"
    BY <1>1, <1>5, StoppersRest DEF OneCallAtATime
  <1>8. \A c \in Conns : Calm(up[c]) /\ Calm(down[c])
    BY <1>1, NothingInFlight DEF Synchronous, Flight
  <1>9. Connecting(k)'
    BY <1>6, <1>7 DEF Connecting, Storing
  <1>10. cports[d] = {} /\ d # None /\ clientCtx # d
    BY <1>2, NoneNew DEF Synchronous, Undialed
  <1>11. Flight'
    <2>1. PICK m \in Msgs : m = Msg("Auth", None, TRUE) /\ m.kind = "Auth"
      BY MsgTyped DEF Msg
    <2>2. up'[d] = <<m>> /\ \A c \in Conns \ {d} : Calm(up'[c])
      BY <1>2, <1>8, <2>1 DEF TypeOK
    <2>3. \A c \in Conns : Calm(down'[c])
      BY <1>2, <1>8, CalmEmpty DEF TypeOK
    <2>4. Single(up'[d]) /\ \A i \in 1..Len(up'[d]) : up'[d][i] = m
      BY <2>2, SingleOne
    <2>5. \A i \in 1..Len(up'[d]) : Asks(k, d, up[d][i])'
      BY <1>6, <1>7, <1>9, <2>1, <2>4 DEF Asks
    <2>. QED
      BY <2>2, <2>3, <2>4, <2>5, FlightUp
  <1>12. \A l \in Callers : Portless(l)' /\ Asking(l)'
    <2>1. ASSUME NEW l \in Callers \ {k} PROVE Portless(l)' /\ Asking(l)'
      BY <1>7 DEF Portless, Asking, Storing, Connecting
    <2>2. Portless(k)' /\ Asking(k)'
      BY <1>3, <1>6, <1>7, <1>10 DEF Portless, Asking
    <2>. QED
      BY <2>1, <2>2
  <1>13. Undialed'
    <2>1. \A c \in Conns : cch'[c] = "new" => c # d /\ cch[c] = "new"
      BY <1>2 DEF TypeOK
    <2>2. \A c \in Conns : cch'[c] = "new" =>
             cports'[c] = {} /\ clientCtx' # c /\ \A l \in Callers : pc[l].ctx # c
      BY <1>3, <2>1 DEF Synchronous, Undialed
    <2>3. \A l \in Callers : pc'[l].ctx = pc[l].ctx \/ pc'[l].ctx = d
      BY <1>6, <1>7
    <2>. QED
      BY <1>7, <2>1, <2>2, <2>3 DEF Undialed
  <1>14. AnswerTrue'
    <2>1. \A l \in Callers : pc'[l].at # "got"
      BY <1>6, <1>7
    <2>2. \A c \in Conns : Calm(down'[c])
      BY <1>2, <1>8, CalmEmpty DEF TypeOK
    <2>3. \A c \in Conns : \A i \in 1..Len(down'[c]) : down'[c][i].kind # "open"
      BY <2>2 DEF Calm
    <2>. QED
      BY <2>1, <2>3 DEF AnswerTrue
  <1>15. Backed'
    <2>1. \A l \in Callers, x \in Ports : ~ Closing(l, x)
      BY <1>1, <1>7 DEF Closing
    <2>2. clientCtx # None /\ serverCtx = clientCtx =>
             \A x \in cports[clientCtx] : x \in sports[clientCtx]
      BY <2>1 DEF Synchronous, Backed, TypeOK
    <2>. QED
      BY <1>3, <2>2 DEF Backed
  <1>. QED
    BY <1>11, <1>12, <1>13, <1>14, <1>15 DEF Synchronous, Flight

\* A call that was connecting, and still is.
LEMMA ConnectsMoves ==
    ASSUME TypeOK, NEW k \in Callers, Portless(k), Connecting(k), pc[k].at # "sent",
           pc'[k].at \in {"stored", "wait", "expired"} \/ (pc'[k].at = "stopping" /\ pc'[k].next = "stored"),
           pc'[k].key = pc[k].key, pc'[k].ctx = pc[k].ctx,
           \A c \in Conns : cports'[c] \subseteq cports[c]
    PROVE  Moves(k)
  <1>1. pc[k].ctx \in Conns /\ cports[pc[k].ctx] = {} /\ pc[k].key = AuthKey
    <2>1. pc[k].ctx \in Conns \cup {None}
      BY DEF TypeOK, Actors
    <2>. QED
      BY <2>1 DEF Portless, Connecting
  <1>2. Connecting(k)' /\ ~ Requesting(k)
    BY <1>1 DEF Connecting, Storing, Requesting
  <1>3. Keeps(k)
    BY <1>2 DEF Keeps
  <1>4. Portless(k)' /\ Asking(k)'
    BY <1>1, NoneNew DEF Portless, Asking
  <1>. QED
    BY <1>3, <1>4 DEF Moves, Closing

LEMMA ReplaceSync ==
    ASSUME TypeOK, TypeOK', Synchronous, OneCallAtATime, NEW k \in Callers, Replace(k)
    PROVE  Synchronous'
  <1>1. k \in Actors /\ pc \in [Actors -> Pcs] /\ pc[k].at = "dialed"
    BY TypeParts DEF Actors, PcTyped, Replace
  <1>2. Connecting(k) /\ Portless(k) /\ pc[k].key = AuthKey
    BY <1>1 DEF Synchronous, Portless, Connecting, Storing
  <1>3. pc[k].ctx \in Conns /\ cports[pc[k].ctx] = {}
    <2>1. pc[k].ctx \in Conns \cup {None}
      BY <1>1 DEF Pcs
    <2>. QED
      BY <1>2, <2>1 DEF Portless
  <1>4. CASE /\ clientCtx' = pc[k].ctx /\ Goto(k, "stored")
             /\ UNCHANGED <<server, net, cports>>
    <2>1. PICK r : r = [pc[k] EXCEPT !.at = "stored"]
      OBVIOUS
    <2>2. pc' = [pc EXCEPT ![k] = r]
      BY <1>1, <1>4, <2>1 DEF Goto
    <2>3. r.at = "stored" /\ r.key = pc[k].key /\ r.ctx = pc[k].ctx
      BY <1>1, <2>1 DEF Pcs
    <2>4. /\ pc'[k] = r /\ \A l \in Callers \ {k} : pc'[l] = pc[l] /\ pc[l].at = "idle"
          /\ \A a \in {"sweep", "peer"} : pc'[a].at \in {"idle", "stopping"} /\ pc'[a].next = "idle"
      BY <1>1, <2>2, StoppersRest DEF OneCallAtATime
    <2>5. /\ \A c \in Conns : NoMore(up'[c], up[c]) /\ NoMore(down'[c], down[c])
          /\ \A c \in Conns : (cch'[c] = "new" => cch[c] = "new") /\ cports'[c] \subseteq cports[c]
          /\ UNCHANGED <<serverCtx, sports, cports, cch>>
      BY <1>4, UpNoMore DEF server, net
    <2>6. Moves(k)
      BY <1>1, <1>2, <2>3, <2>4, <2>5, ConnectsMoves
    <2>7. \A l \in Callers : Keeps(l) /\ Portless(l)' /\ Asking(l)'
      <3>1. ASSUME NEW l \in Callers \ {k} PROVE Keeps(l) /\ Portless(l)' /\ Asking(l)'
        BY <2>4 DEF Keeps, Portless, Asking, Storing, Connecting, Requesting
      <3>. QED
        BY <2>6, <3>1 DEF Moves
    <2>8. clientCtx' \in Conns /\ cports'[clientCtx'] = {} /\ cch'[clientCtx'] # "new"
      BY <1>3, <1>4, <2>5 DEF Synchronous, Undialed
    <2>. QED
      BY <2>4, <2>5, <2>6, <2>7, <2>8, StepSync
  <1>5. CASE clientCtx # None /\ BeginStop(k, clientCtx, FALSE, "stored")
    <2>1. PICK r : r = [pc[k] EXCEPT !.at = "stopping", !.old = clientCtx, !.next = "stored"]
      OBVIOUS
    <2>2. pc' = [pc EXCEPT ![k] = r]
      BY <1>1, <1>5, <2>1 DEF BeginStop, Pcs
    <2>3. r.at = "stopping" /\ r.next = "stored" /\ r.ctx = pc[k].ctx /\ r.key = pc[k].key
      BY <1>1, <2>1 DEF Pcs
    <2>4. /\ \A c \in Conns : NoMore(up'[c], up[c]) /\ NoMore(down'[c], down[c])
          /\ \A c \in Conns : (cch'[c] = "new" => cch[c] = "new") /\ cports'[c] \subseteq cports[c]
      BY <1>5, StopNoMore DEF BeginStop, TypeOK
    <2>5. UNCHANGED <<clientCtx, serverCtx, sports>>
      BY <1>5 DEF BeginStop, server
    <2>6. /\ pc'[k] = r /\ \A l \in Callers \ {k} : pc'[l] = pc[l]
          /\ \A a \in {"sweep", "peer"} : pc'[a].at \in {"idle", "stopping"} /\ pc'[a].next = "idle"
      BY <2>2, StoppersRest
    <2>7. Moves(k)
      BY <1>1, <1>2, <2>3, <2>4, <2>6, ConnectsMoves
    <2>. QED
      BY <2>4, <2>5, <2>6, <2>7, StepSync
  <1>. QED
    BY <1>4, <1>5 DEF Replace

\* ClosePort closes the local port after it has written its request.
LEMMA RegisterSync ==
    ASSUME TypeOK, TypeOK', Synchronous, NEW k \in Callers, Register(k)
    PROVE  Synchronous'
  <1>1. k \in Actors /\ pc \in [Actors -> Pcs] /\ pc[k].at \in {"stored", "sent"}
    BY TypeParts DEF Actors, PcTyped, Register
  <1>2. PICK r : r = [pc[k] EXCEPT !.at = "wait"]
    OBVIOUS
  <1>3. pc' = [pc EXCEPT ![k] = r]
    BY <1>1, <1>2 DEF Register, Goto
  <1>4. r.at = "wait" /\ r.key = pc[k].key /\ r.ctx = pc[k].ctx /\ r.op = pc[k].op /\ r.port = pc[k].port
    BY <1>1, <1>2 DEF Pcs
  <1>5. /\ pc'[k] = r /\ \A l \in Callers \ {k} : pc'[l] = pc[l]
        /\ \A a \in {"sweep", "peer"} : pc'[a].at \in {"idle", "stopping"} /\ pc'[a].next = "idle"
    BY <1>3, StoppersRest
  <1>6. UNCHANGED <<clientCtx, serverCtx, sports, cch, up, down>>
    BY DEF Register, server, net
  <1>7. \A c \in Conns : NoMore(up'[c], up[c]) /\ NoMore(down'[c], down[c])
    BY <1>6, UpNoMore
  <1>8. /\ \A c \in Conns : cports'[c] \subseteq cports[c]
        /\ pc[k].key[1] = "close" => \A c \in Conns : c = pc[k].ctx => pc[k].port \notin cports'[c]
    BY DEF Register, TypeOK
  <1>9. Moves(k)
    <2>1. CASE pc[k].at = "stored"
      <3>1. Connecting(k) /\ Portless(k)
        BY <2>1 DEF Synchronous, Portless, Connecting, Storing
      <3>. QED
        BY <1>4, <1>5, <1>8, <2>1, <3>1, ConnectsMoves
    <2>2. CASE pc[k].at = "sent"
      <3>1. pc[k].key # AuthKey /\ Asking(k) /\ Portless(k)
        BY <2>2 DEF Synchronous, Portless
      <3>2. pc[k].ctx \in Conns /\ clientCtx \in {None, pc[k].ctx}
            /\ pc[k].key = KeyOf(pc[k].op, pc[k].port)
            /\ (pc[k].key[1] = "open" => pc[k].port \notin cports[pc[k].ctx])
        <4>1. pc[k].ctx \in Conns \cup {None}
          BY <1>1 DEF Pcs
        <4>. QED
          BY <2>2, <3>1, <4>1 DEF Asking
      <3>3. Keeps(k)
        BY <1>4, <1>5, <2>2, <3>1 DEF Keeps, Connecting, Requesting
      <3>4. Portless(k)'
        BY <1>4, <1>5, <3>1 DEF Portless, Storing, Connecting
      <3>5. Asking(k)'
        <4>1. /\ pc[k].key[1] = "open" => pc[k].port \notin cports'[pc[k].ctx]
              /\ pc[k].key[1] = "close" => pc[k].port \notin cports'[pc[k].ctx]
          BY <1>8, <3>2
        <4>2. /\ pc'[k].key = pc[k].key /\ pc'[k].ctx = pc[k].ctx /\ pc'[k].op = pc[k].op
              /\ pc'[k].port = pc[k].port /\ clientCtx' = clientCtx
          BY <1>4, <1>5, <1>6
        <4>. QED
          BY <3>2, <4>1, <4>2, NoneNew DEF Asking
      <3>6. \A p \in Ports : Closing(k, p) => \A c \in Conns : c = clientCtx' => p \notin cports'[c]
        <4>1. pc[k].op = "close" => pc[k].key[1] = "close"
          BY <3>2 DEF KeyOf
        <4>. QED
          BY <1>6, <1>8, <3>2, <4>1, NoneNew DEF Closing
      <3>. QED
        BY <1>4, <1>5, <3>3, <3>4, <3>5, <3>6 DEF Moves
    <2>. QED
      BY <1>1, <2>1, <2>2
  <1>. QED
    BY <1>5, <1>6, <1>7, <1>8, <1>9, StepSync

LEMMA TimeoutSync ==
    ASSUME TypeOK, TypeOK', Synchronous, NEW k \in Callers, Timeout(k)
    PROVE  Synchronous'
  <1>1. k \in Actors /\ pc \in [Actors -> Pcs] /\ pc[k].at = "wait"
    BY TypeParts DEF Actors, PcTyped, Timeout
  <1>2. PICK r : r = [pc[k] EXCEPT !.at = "expired"]
    OBVIOUS
  <1>3. pc' = [pc EXCEPT ![k] = r]
    BY <1>1, <1>2 DEF Timeout, Goto
  <1>4. r.at = "expired" /\ r.key = pc[k].key /\ r.ctx = pc[k].ctx /\ r.op = pc[k].op
        /\ r.port = pc[k].port
    BY <1>1, <1>2 DEF Pcs
  <1>5. /\ pc'[k] = r /\ \A l \in Callers \ {k} : pc'[l] = pc[l]
        /\ \A a \in {"sweep", "peer"} : pc'[a].at \in {"idle", "stopping"} /\ pc'[a].next = "idle"
    BY <1>3, StoppersRest
  <1>6. UNCHANGED <<clientCtx, cports, serverCtx, sports, cch, up, down>>
    BY DEF Timeout, client, server, net
  <1>7. \A c \in Conns : NoMore(up'[c], up[c]) /\ NoMore(down'[c], down[c])
    BY <1>6, UpNoMore
  <1>8. Moves(k)
    <2>1. Portless(k) /\ Asking(k)
      BY DEF Synchronous
    <2>2. CASE pc[k].key = AuthKey
      <3>1. Connecting(k)
        BY <1>1, <2>2 DEF Connecting
      <3>. QED
        BY <1>1, <1>4, <1>5, <1>6, <2>1, <3>1, ConnectsMoves
    <2>3. CASE pc[k].key # AuthKey
      <3>1. Keeps(k)
        BY <1>1, <1>4, <1>5, <2>3 DEF Keeps, Connecting, Requesting
      <3>2. Portless(k)'
        BY <1>4, <1>5, <2>3 DEF Portless, Storing, Connecting
      <3>3. Asking(k)'
        BY <1>1, <1>4, <1>5, <1>6, <2>1 DEF Asking
      <3>. QED
        BY <1>1, <1>4, <1>5, <3>1, <3>2, <3>3 DEF Moves, Closing
    <2>. QED
      BY <2>2, <2>3
  <1>. QED
    BY <1>5, <1>6, <1>7, <1>8, StepSync

\* OpenPort stores the port: the answer it has got speaks of an open port.
LEMMA OpenedSync ==
    ASSUME TypeOK, TypeOK', Synchronous, OneCallAtATime, NEW k \in Callers,
           pc[k].at = "got", pc[k].key[1] = "open", NEW new \in {{}, OpenedLocally(k)},
           cports' = [cports EXCEPT ![pc[k].ctx] = @ \cup new],
           Return(k), UNCHANGED <<net, clientCtx, serverCtx, sports>>
    PROVE  Synchronous'
  <1>1. \A c \in Conns : Calm(up'[c]) /\ Calm(down'[c])
    BY NothingInFlight DEF Synchronous, Flight, net
  <1>2. /\ pc'[k] = Idle /\ \A l \in Callers \ {k} : pc'[l] = pc[l] /\ pc[l].at = "idle"
        /\ \A a \in {"sweep", "peer"} : pc'[a].at \in {"idle", "stopping"} /\ pc'[a].next = "idle"
    BY StoppersRest DEF Return, OneCallAtATime
  <1>3. \A l \in Callers : pc'[l].at = "idle" /\ (l = k => pc'[l].ctx = None)
    BY <1>2 DEF Idle
  <1>4. \A l \in Callers : Portless(l)' /\ Asking(l)'
    BY <1>3 DEF Portless, Asking, Storing, Connecting
  <1>5. Undialed'
    <2>1. ASSUME NEW c \in Conns, cch'[c] = "new"
          PROVE  cports'[c] = {} /\ clientCtx' # c /\ \A l \in Callers : pc'[l].ctx # c
      <3>1. cports[c] = {} /\ clientCtx' # c /\ \A l \in Callers : pc[l].ctx # c
        BY <2>1 DEF Synchronous, Undialed, net
      <3>2. cports'[c] = {}
        BY <3>1 DEF TypeOK
      <3>. QED
        BY <1>2, <1>3, <3>1, <3>2, NoneNew
    <2>. QED
      BY <1>2, <2>1 DEF Undialed
  <1>6. AnswerTrue'
    BY <1>1, <1>3 DEF AnswerTrue, Calm
  <1>7. Backed'
    <2>. SUFFICES ASSUME clientCtx # None, serverCtx = clientCtx, NEW x \in cports'[clientCtx]
                  PROVE  x \in sports[clientCtx]
      BY DEF Backed
    <2>1. clientCtx \in Conns
      BY DEF TypeOK
    <2>2. CASE x \in cports[clientCtx]
      <3>1. \A l \in Callers : ~ Closing(l, x)
        BY <1>2 DEF Closing
      <3>. QED
        BY <2>2, <3>1 DEF Synchronous, Backed
    <2>3. CASE x \notin cports[clientCtx]
      <3>1. x \in new
        BY <2>1, <2>3 DEF TypeOK
      <3>2. x = pc[k].port /\ pc[k].ok
        BY <3>1 DEF OpenedLocally
      <3>. QED
        BY <3>2 DEF Synchronous, AnswerTrue
    <2>. QED
      BY <2>2, <2>3
  <1>8. Flight'
    BY <1>1, FlightCalm
  <1>. QED
    BY <1>4, <1>5, <1>6, <1>7, <1>8 DEF Synchronous, Flight

LEMMA FinishSync ==
    ASSUME TypeOK, TypeOK', Synchronous, OneCallAtATime, NEW k \in Callers, Finish(k)
    PROVE  Synchronous'
  <1>1. k \in Actors /\ pc \in [Actors -> Pcs] /\ pc[k].at = "got"
    BY TypeParts DEF Actors, PcTyped, Finish
  <1>2. UNCHANGED <<clientCtx, serverCtx, sports>>
    BY DEF Finish, server
  <1>3. ASSUME UNCHANGED <<net, cports>>
        PROVE  /\ \A c \in Conns : NoMore(up'[c], up[c]) /\ NoMore(down'[c], down[c])
               /\ \A c \in Conns : (cch'[c] = "new" => cch[c] = "new") /\ cports'[c] \subseteq cports[c]
    BY <1>3, UpNoMore DEF net
  <1>4. CASE Return(k) /\ UNCHANGED <<net, cports>>
    <2>1. Idle.at = "idle" /\ Idle.ctx = None /\ pc' = [pc EXCEPT ![k] = Idle]
      BY <1>4 DEF Idle, Return
    <2>. QED
      BY <1>1, <1>2, <1>3, <1>4, <2>1, RestSync
  <1>5. CASE pc' = [pc EXCEPT ![k].at = "again", ![k].ctx = None] /\ UNCHANGED <<net, cports>>
    <2>1. PICK r : r = [pc[k] EXCEPT !.at = "again", !.ctx = None]
      OBVIOUS
    <2>2. pc' = [pc EXCEPT ![k] = r] /\ r.at = "again" /\ r.ctx = None
      BY <1>1, <1>5, <2>1 DEF Pcs
    <2>. QED
      BY <1>1, <1>2, <1>3, <1>5, <2>2, RestSync
  <1>6. CASE /\ pc[k].key[1] = "open"
             /\ \E new \in {{}, OpenedLocally(k)} :
                   cports' = [cports EXCEPT ![pc[k].ctx] = @ \cup new]
             /\ Return(k)
             /\ UNCHANGED net
    BY <1>1, <1>2, <1>6, OpenedSync
  <1>7. CASE /\ clientCtx # None /\ StopContext(clientCtx, FALSE)
             /\ pc' = [pc EXCEPT ![k] = [Idle EXCEPT !.at = "stopping", !.old = clientCtx]]
    <2>1. PICK r : r = [Idle EXCEPT !.at = "stopping", !.old = clientCtx]
      OBVIOUS
    <2>2. pc' = [pc EXCEPT ![k] = r] /\ r.at = "stopping" /\ r.next = "idle" /\ r.ctx = None
      BY <1>7, <2>1 DEF Idle
    <2>3. /\ \A c \in Conns : NoMore(up'[c], up[c]) /\ NoMore(down'[c], down[c])
          /\ \A c \in Conns : (cch'[c] = "new" => cch[c] = "new") /\ cports'[c] \subseteq cports[c]
      BY <1>7, StopNoMore DEF TypeOK
    <2>. QED
      BY <1>1, <1>2, <2>2, <2>3, RestSync
  <1>. QED
    BY <1>4, <1>5, <1>6, <1>7 DEF Finish, ClosePortEnd

-----------------------------------------------------------------------------
(***************************************************************************)
(* The read loops.                                                         *)
(***************************************************************************)
\* The call whose request the server reads is the only one that is under way,
\* and the request the only frame that is.
LEMMA Asker ==
    ASSUME TypeOK, Synchronous, OneCallAtATime, NEW c \in Conns, up[c] # <<>>,
           Head(up[c]).kind # "UnAuth"
    PROVE  /\ \E k \in Callers : /\ Asks(k, c, Head(up[c]))
                                 /\ \A l \in Callers \ {k} : pc[l].at = "idle"
           /\ \A k \in Callers : pc[k].at # "got"
           /\ Calm(Tail(up[c]))
           /\ \A d \in Conns : Calm(down[d])
           /\ \A d \in Conns \ {c} : Calm(up[d])
  <1>1. up[c] \in Seq(Msgs)
    BY DEF TypeOK
  <1>2. Head(up[c]) = up[c][1] /\ 1 \in 1..Len(up[c])
    BY <1>1, TailTyped
  <1>3. PICK k \in Callers : Asks(k, c, Head(up[c]))
    BY <1>2 DEF Synchronous, Owned
  <1>4. Connecting(k) \/ Requesting(k)
    BY <1>3 DEF Asks
  <1>5. pc[k].at \notin {"idle", "got"}
    BY <1>4 DEF Connecting, Requesting, Storing
  <1>6. \A l \in Callers \ {k} : pc[l].at = "idle"
    BY <1>5 DEF OneCallAtATime
  <1>7. Calm(Tail(up[c]))
    BY <1>1, TailCalm DEF Synchronous, OneInFlight
  <1>8. ~ Calm(up[c])
    BY <1>2 DEF Calm
  <1>9. \A d \in Conns : Calm(down[d]) /\ (d # c => Calm(up[d]))
    BY <1>8 DEF Synchronous, OneInFlight, CalmConn
  <1>. QED
    BY <1>3, <1>5, <1>6, <1>7, <1>9

\* The calls do not notice what the server does.
LEMMA CallsUnmoved ==
    ASSUME TypeOK, TypeOK', Synchronous, UNCHANGED <<clientCtx, cports, cch, pc>>
    PROVE  /\ \A k \in Callers : Keeps(k) /\ Portless(k)' /\ Asking(k)'
           /\ Undialed'
  <1>1. \A k \in Callers : Keeps(k) /\ Portless(k)' /\ Asking(k)'
    BY CallSame DEF Synchronous
  <1>2. Undialed'
    BY DEF Synchronous, Undialed
  <1>. QED
    BY <1>1, <1>2

\* The server takes a request from its queue and acknowledges it.
LEMMA Acknowledged ==
    ASSUME TypeOK, NEW c \in Conns, up[c] # <<>>,
           Calm(Tail(up[c])), \A d \in Conns : Calm(down[d]), \A d \in Conns \ {c} : Calm(up[d]),
           NEW o \in Conns, NEW ack \in Msgs, NEW k \in Callers, Answers(k, ack),
           Carry([up EXCEPT ![c] = Tail(@)], SentDown(o, ack)), pc' = pc
    PROVE  /\ Flight'
           /\ \A d \in Conns : \A i \in 1..Len(down'[d]) :
                 down'[d][i].kind # "UnAuth" => down'[d][i] = ack
  <1>1. up \in [Conns -> Seq(Msgs)] /\ down \in [Conns -> Seq(Msgs)]
    BY DEF TypeOK
  <1>2. PICK rest \in [Conns -> Seq(Msgs)] : rest = [up EXCEPT ![c] = Tail(@)]
    BY <1>1, TailTyped
  <1>3. \A d \in Conns : Calm(rest[d])
    BY <1>1, <1>2
  <1>4. PICK new \in [Conns -> Seq(Msgs)] :
           new = SentDown(o, ack) /\ \A d \in Conns :
              new[d] = down[d] \/ (d = o /\ new[d] = Append(down[d], ack))
    BY <1>1, SentTyped
  <1>5. /\ \A d \in Conns : up'[d] = rest[d] \/ up'[d] = <<>>
        /\ \A d \in Conns : down'[d] = new[d] \/ down'[d] = <<>>
    <2>1. Carry(rest, new)
      BY <1>2, <1>4
    <2>. QED
      BY <2>1, CarryTyped
  <1>6. \A d \in Conns : Calm(up'[d]) /\ (d # o => Calm(down'[d]))
    BY <1>3, <1>4, <1>5, CalmEmpty
  <1>7. Single(down'[o]) /\ \A i \in 1..Len(down'[o]) : down'[o][i].kind # "UnAuth" => down'[o][i] = ack
    <2>1. CASE Calm(down'[o])
      BY <2>1, CalmSingle DEF Calm
    <2>2. CASE down'[o] = Append(down[o], ack)
      <3>1. down[o] \in Seq(Msgs) /\ Calm(down[o])
        BY <1>1
      <3>. QED
        BY <2>2, <3>1, AppendSingle
    <2>. QED
      BY <1>4, <1>5, <2>1, <2>2, CalmEmpty
  <1>8. \A i \in 1..Len(down'[o]) : down'[o][i].kind # "UnAuth" => Answers(k, down[o][i])'
    BY <1>7 DEF Answers, Connecting, Storing, Requesting
  <1>9. Flight'
    BY <1>6, <1>7, <1>8, FlightDown
  <1>10. \A d \in Conns : \A i \in 1..Len(down'[d]) :
            down'[d][i].kind # "UnAuth" => down'[d][i] = ack
    BY <1>6, <1>7 DEF Calm
  <1>. QED
    BY <1>9, <1>10

\* A new context takes the place of the server's; it has no ports, and neither
\* has the context of the client that asked for it.
LEMMA AuthSync ==
    ASSUME TypeOK, TypeOK', Synchronous, OneCallAtATime, NEW c \in Conns, up[c] # <<>>,
           Head(up[c]).kind = "Auth", UNCHANGED <<clientCtx, cports, cch, pc>>,
           Carry([up EXCEPT ![c] = Tail(@)], SentDown(c, Msg("AuthAck", None, TRUE))),
           serverCtx' = c
    PROVE  Synchronous'
  <1>1. PICK k \in Callers : /\ Asks(k, c, Head(up[c]))
                             /\ \A l \in Callers \ {k} : pc[l].at = "idle"
    BY Asker
  <1>2. Connecting(k) /\ pc[k].ctx = c
    BY <1>1 DEF Asks
  <1>3. PICK ack \in Msgs : ack = Msg("AuthAck", None, TRUE) /\ ack.kind = "AuthAck"
    BY MsgTyped DEF Msg
  <1>4. Answers(k, ack)
    BY <1>2, <1>3 DEF Answers
  <1>5. /\ Flight'
        /\ \A d \in Conns : \A i \in 1..Len(down'[d]) :
              down'[d][i].kind # "UnAuth" => down'[d][i] = ack
    <2>1. Calm(Tail(up[c])) /\ (\A d \in Conns : Calm(down[d])) /\ (\A d \in Conns \ {c} : Calm(up[d]))
      BY Asker
    <2>2. Carry([up EXCEPT ![c] = Tail(@)], SentDown(c, ack))
      BY <1>3
    <2>. QED
      BY <1>4, <2>1, <2>2, Acknowledged
  <1>6. AnswerTrue'
    <2>1. \A l \in Callers : pc'[l].at # "got"
      BY Asker
    <2>2. \A d \in Conns : \A i \in 1..Len(down'[d]) : down'[d][i].kind # "open"
      BY <1>3, <1>5
    <2>. QED
      BY <2>1, <2>2 DEF AnswerTrue
  <1>7. Backed'
    <2>1. cports[c] = {}
      BY <1>2 DEF Synchronous, Portless
    <2>. QED
      BY <2>1 DEF Backed
  <1>. QED
    BY <1>5, <1>6, <1>7, CallsUnmoved DEF Synchronous, Flight

\* The server closes a port for a request only if the client has closed it, or
\* is about to.
LEMMA StillBacked ==
    ASSUME TypeOK, Synchronous, OneCallAtATime, NEW m \in Msgs, serverCtx # None,
           NEW k \in Callers, Requesting(k), pc[k].key = <<m.kind, m.port>>,
           NEW ports \in SUBSET Ports, ports \in PortsAfter(serverCtx, m),
           sports' = [sports EXCEPT ![serverCtx] = ports],
           UNCHANGED <<clientCtx, cports, pc, serverCtx>>
    PROVE  Backed'
  <1>. SUFFICES ASSUME clientCtx # None, serverCtx = clientCtx, NEW x \in cports[clientCtx]
                PROVE  x \in sports'[clientCtx] \/ \E l \in Callers : Closing(l, x)
    BY DEF Backed, Closing
  <1>1. clientCtx \in Conns /\ sports'[clientCtx] = ports
    BY DEF TypeOK
  <1>2. x \in sports[clientCtx] \/ \E l \in Callers : Closing(l, x)
    BY DEF Synchronous, Backed
  <1>3. CASE x \in sports[clientCtx] /\ x \notin ports
    <2>1. m.kind \in {"open", "close"} /\ x = m.port
      BY <1>3 DEF PortsAfter
    <2>2. /\ pc[k].ctx = clientCtx /\ pc[k].key = KeyOf(pc[k].op, pc[k].port)
          /\ pc[k].key[1] = "open" => pc[k].port \notin cports[pc[k].ctx]
          /\ pc[k].key[1] = "close" /\ pc[k].at # "sent" => pc[k].port \notin cports[pc[k].ctx]
      BY DEF Synchronous, Asking, Requesting
    <2>3. pc[k].key[1] = m.kind /\ pc[k].key[2] = x
      BY <2>1
    <2>4. pc[k].port = x /\ (m.kind = "close" => pc[k].op = "close")
      BY <2>1, <2>2, <2>3 DEF KeyOf
    <2>5. m.kind = "close" /\ pc[k].at = "sent"
      BY <2>1, <2>2, <2>3, <2>4
    <2>. QED
      BY <2>4, <2>5 DEF Closing
  <1>. QED
    BY <1>1, <1>2, <1>3

LEMMA ProcessSync ==
    ASSUME TypeOK, TypeOK', Synchronous, OneCallAtATime, NEW c \in Conns, up[c] # <<>>,
           Head(up[c]).kind \notin {"Auth", "UnAuth"}, serverCtx # None,
           UNCHANGED <<clientCtx, cports, pc, serverCtx>>,
           Process(serverCtx, Head(up[c]), [up EXCEPT ![c] = Tail(@)])
    PROVE  Synchronous'
  <1>1. up \in [Conns -> Seq(Msgs)] /\ down \in [Conns -> Seq(Msgs)] /\ serverCtx \in Conns
    BY DEF TypeOK
  <1>2. PICK m \in Msgs : m = Head(up[c])
    BY <1>1, TailTyped
  <1>3. PICK rest \in [Conns -> Seq(Msgs)] : rest = [up EXCEPT ![c] = Tail(@)]
    BY <1>1, TailTyped
  <1>4. PICK k \in Callers : Asks(k, c, m)
    BY <1>2, Asker
  <1>5. Requesting(k) /\ pc[k].key = <<m.kind, m.port>>
    BY <1>2, <1>4 DEF Asks
  <1>6. PICK ports \in SUBSET Ports :
              /\ sports' = [sports EXCEPT ![serverCtx] = ports]
              /\ ports \in PortsAfter(serverCtx, m)
              /\ \/ Carry(rest, down)
                 \/ \E ack \in Msgs :
                       /\ ack.kind = m.kind /\ ack.port = m.port
                       /\ m.kind \in {"open", "close", "config", "list"}
                       /\ ack.kind = "open" /\ ack.ok => ack.port \in ports
                       /\ Carry(rest, SentDown(serverCtx, ack))
    <2>1. Process(serverCtx, m, rest)
      BY <1>2, <1>3
    <2>. QED
      BY <1>1, <2>1, ProcessStep
  <1>7. Backed'
    BY <1>5, <1>6, StillBacked
  <1>8. UNCHANGED cch
    BY DEF Process
  <1>9. sports'[serverCtx'] = ports
    BY <1>1, <1>6 DEF TypeOK
  <1>10. /\ \A l \in Callers : pc'[l].at # "got"
         /\ \A d \in Conns : Calm(down[d])
         /\ \A d \in Conns \ {c} : Calm(up[d])
         /\ Calm(Tail(up[c]))
    BY Asker
  <1>11. CASE Carry(rest, down)
    <2>1. \A d \in Conns : NoMore(rest[d], up[d])
      BY <1>1, <1>3, NoMoreSame, NoMoreTail
    <2>2. \A d \in Conns : NoMore(up'[d], up[d]) /\ NoMore(down'[d], down[d])
      BY <1>11, <2>1, CarryNoMore
    <2>3. Flight'
      BY <1>8, <2>2, FlightLess, CallsUnmoved DEF Synchronous, Flight
    <2>4. \A d \in Conns : Calm(down'[d])
      BY <1>10, <2>2, CalmNoMore
    <2>5. AnswerTrue'
      BY <1>10, <2>4 DEF AnswerTrue, Calm
    <2>. QED
      BY <1>7, <1>8, <2>3, <2>5, CallsUnmoved DEF Synchronous, Flight
  <1>12. CASE ~ Carry(rest, down)
    <2>1. PICK ack \in Msgs :
                       /\ ack.kind = m.kind /\ ack.port = m.port
                       /\ m.kind \in {"open", "close", "config", "list"}
                       /\ ack.kind = "open" /\ ack.ok => ack.port \in ports
                       /\ Carry(rest, SentDown(serverCtx, ack))
      BY <1>6, <1>12
    <2>2. Answers(k, ack)
      BY <1>5, <2>1 DEF Answers
    <2>3. /\ Flight'
          /\ \A d \in Conns : \A i \in 1..Len(down'[d]) :
                down'[d][i].kind # "UnAuth" => down'[d][i] = ack
      <3>1. Carry([up EXCEPT ![c] = Tail(@)], SentDown(serverCtx, ack)) /\ pc' = pc
        BY <1>3, <2>1
      <3>. QED
        BY <1>1, <1>10, <2>2, <3>1, Acknowledged
    <2>4. AnswerTrue'
      BY <1>9, <1>10, <2>1, <2>3 DEF AnswerTrue
    <2>. QED
      BY <1>7, <1>8, <2>3, <2>4, CallsUnmoved DEF Synchronous, Flight
  <1>. QED
    BY <1>11, <1>12

LEMMA ServerReadSync ==
    ASSUME TypeOK, TypeOK', Synchronous, OneCallAtATime, NEW c \in Conns, ServerRead(c)
    PROVE  Synchronous'
  <1>1. up \in [Conns -> Seq(Msgs)] /\ up[c] # <<>>
    BY DEF TypeOK, ServerRead
  <1>2. PICK rest \in [Conns -> Seq(Msgs)] : rest = [up EXCEPT ![c] = Tail(@)]
    BY <1>1, TailTyped
  <1>3. \A d \in Conns : NoMore(rest[d], up[d])
    BY <1>1, <1>2, NoMoreSame, NoMoreTail
  <1>4. UNCHANGED <<clientCtx, cports, pc>> /\ UNCHANGED <<client, pc>>
    BY DEF ServerRead, client
  <1>5. CASE Carry(rest, down) /\ UNCHANGED <<serverCtx, sports, cch>>
    <2>1. \A d \in Conns : NoMore(up'[d], up[d]) /\ NoMore(down'[d], down[d])
      BY <1>3, <1>5, CarryNoMore
    <2>2. \A a \in {"sweep", "peer"} : pc'[a].at \in {"idle", "stopping"} /\ pc'[a].next = "idle"
      BY <1>4 DEF Synchronous, Undialed
    <2>. QED
      BY <1>4, <1>5, <2>1, <2>2, StepSync
  <1>6. CASE /\ Head(up[c]).kind = "Auth" /\ UNCHANGED cch /\ serverCtx' = c
             /\ Carry(rest, SentDown(c, Msg("AuthAck", None, TRUE)))
    BY <1>1, <1>2, <1>4, <1>6, AuthSync
  <1>7. CASE RemoveServerHandler(rest)
    BY <1>3, <1>4, <1>7, RemoveSync
  <1>8. CASE /\ Head(up[c]).kind \notin {"Auth", "UnAuth"} /\ serverCtx # None
             /\ Process(serverCtx, Head(up[c]), rest) /\ UNCHANGED serverCtx
    BY <1>1, <1>2, <1>4, <1>8, ProcessSync
  <1>. QED
    BY <1>2, <1>5, <1>6, <1>7, <1>8 DEF ServerRead, Auth, server

\* An answer is taken by the call that waits for it, and nothing is on the way
\* after it.
LEMMA WokenSync ==
    ASSUME TypeOK, TypeOK', Synchronous, OneCallAtATime, NEW c \in Conns, down[c] # <<>>,
           NEW key, NEW ok \in BOOLEAN, Woken(key, ok),
           IF Head(down[c]).kind = "AuthAck" THEN key = AuthKey
           ELSE key = <<Head(down[c]).kind, Head(down[c]).port>> /\ ok = Head(down[c]).ok,
           \A d \in Conns : cch'[d] = "new" => cch[d] = "new",
           down' = [down EXCEPT ![c] = Tail(@)],
           UNCHANGED <<up, serverCtx, sports, clientCtx, cports>>
    PROVE  Synchronous'
  <1>1. PICK a \in Actors :
          /\ pc[a].at = "wait" /\ pc[a].ctx = clientCtx /\ pc[a].key = key
          /\ pc' = [pc EXCEPT ![a] = [pc[a] EXCEPT !.at = "got", !.ok = ok]]
    BY DEF Woken
  <1>2. a \in Callers
    BY <1>1 DEF Synchronous, Undialed, Actors
  <1>3. pc \in [Actors -> Pcs] /\ pc[a] \in Pcs /\ key \in Keys
    BY <1>1, TypeParts DEF PcTyped, Pcs
  <1>4. PICK r : r = [pc[a] EXCEPT !.at = "got", !.ok = ok]
    OBVIOUS
  <1>5. /\ r.at = "got" /\ r.ok = ok /\ r.key = key /\ r.ctx = pc[a].ctx /\ r.op = pc[a].op
        /\ r.port = pc[a].port
    BY <1>1, <1>3, <1>4 DEF Pcs
  <1>6. /\ pc'[a] = r /\ \A l \in Callers \ {a} : pc'[l] = pc[l] /\ pc[l].at = "idle"
        /\ \A b \in {"sweep", "peer"} : pc'[b].at \in {"idle", "stopping"} /\ pc'[b].next = "idle"
    <2>1. /\ pc'[a] = r /\ \A l \in Callers \ {a} : pc'[l] = pc[l]
          /\ \A b \in {"sweep", "peer"} : pc'[b].at \in {"idle", "stopping"} /\ pc'[b].next = "idle"
      <3>1. pc' = [pc EXCEPT ![a] = r]
        BY <1>1, <1>4
      <3>. QED
        BY <1>2, <3>1, StoppersRest
    <2>2. \A l \in Callers \ {a} : pc[l].at = "idle"
      BY <1>1, <1>2 DEF OneCallAtATime
    <2>. QED
      BY <2>1, <2>2
  <1>7. down \in [Conns -> Seq(Msgs)] /\ Head(down[c]) = down[c][1] /\ 1 \in 1..Len(down[c])
    BY TailTyped DEF TypeOK
  <1>8. Head(down[c]).kind # "UnAuth"
    BY <1>3 DEF Keys
  <1>9. \A d \in Conns : Calm(up'[d]) /\ Calm(down'[d])
    <2>1. ~ Calm(down[c])
      BY <1>7, <1>8 DEF Calm
    <2>2. \A d \in Conns : Calm(up[d]) /\ (d # c => Calm(down[d]))
      BY <2>1 DEF Synchronous, OneInFlight, CalmConn
    <2>3. Calm(Tail(down[c]))
      BY <1>7, <1>8, TailCalm DEF Synchronous, OneInFlight
    <2>. QED
      BY <1>7, <2>2, <2>3
  <1>10. Flight'
    BY <1>9, FlightCalm
  <1>11. Portless(a) /\ Asking(a)
    BY <1>2 DEF Synchronous
  <1>12. \A l \in Callers : Portless(l)' /\ Asking(l)'
    <2>1. ASSUME NEW l \in Callers \ {a} PROVE Portless(l)' /\ Asking(l)'
      BY <1>6 DEF Portless, Asking, Storing, Connecting
    <2>2. Portless(a)'
      BY <1>5, <1>6 DEF Portless, Storing, Connecting
    <2>3. Asking(a)'
      BY <1>1, <1>5, <1>6, <1>11 DEF Asking
    <2>. QED
      BY <2>1, <2>2, <2>3
  <1>13. Undialed'
    <2>1. \A l \in Callers : pc'[l].ctx = pc[l].ctx
      BY <1>5, <1>6
    <2>. QED
      BY <1>6, <2>1 DEF Synchronous, Undialed
  <1>14. AnswerTrue'
    <2>1. \A d \in Conns : \A i \in 1..Len(down'[d]) : down'[d][i].kind # "open"
      BY <1>9 DEF Calm
    <2>2. ASSUME serverCtx # None, key[1] = "open", ok PROVE pc[a].port \in sports[serverCtx]
      <3>a. \/ key = AuthKey
            \/ key = <<Head(down[c]).kind, Head(down[c]).port>> /\ ok = Head(down[c]).ok
        BY Zenon
      <3>1. key # AuthKey
        <4>1. key[1] = "open"
          BY <2>2
        <4>. QED
          BY <4>1 DEF AuthKey
      <3>b. key = <<Head(down[c]).kind, Head(down[c]).port>>
        BY <3>a, <3>1, Zenon
      <3>c. Head(down[c]).ok
        BY <2>2, <3>a, <3>1, Zenon
      <3>2. Head(down[c]).kind = "open" /\ Head(down[c]).ok /\ key[2] = Head(down[c]).port
        <4>1. key[1] = "open"
          BY <2>2
        <4>. QED
          BY <4>1, <3>b, <3>c
      <3>4. pc[a].port = key[2]
        BY <1>1, <1>11, <2>2, <3>1 DEF Asking, KeyOf
      <3>. QED
        BY <1>7, <2>2, <3>2, <3>4 DEF Synchronous, AnswerTrue
    <2>. QED
      BY <1>5, <1>6, <2>1, <2>2 DEF AnswerTrue
  <1>15. Backed'
    <2>1. \A l \in Callers, x \in Ports : ~ Closing(l, x)
      BY <1>1, <1>6 DEF Closing
    <2>2. clientCtx # None /\ serverCtx = clientCtx =>
             \A x \in cports[clientCtx] : x \in sports[clientCtx]
      BY <2>1 DEF Synchronous, Backed, TypeOK
    <2>. QED
      BY <2>2 DEF Backed
  <1>. QED
    BY <1>10, <1>12, <1>13, <1>14, <1>15 DEF Synchronous, Flight

LEMMA ClientReadSync ==
    ASSUME TypeOK, TypeOK', Synchronous, OneCallAtATime, NEW c \in Conns, ClientRead(c)
    PROVE  Synchronous'
  <1>1. PICK key : \E ok \in BOOLEAN :
              /\ IF Head(down[c]).kind = "AuthAck" THEN key = AuthKey
                 ELSE key = <<Head(down[c]).kind, Head(down[c]).port>> /\ ok = Head(down[c]).ok
              /\ \A d \in Conns : cch'[d] = "new" => cch[d] = "new"
              /\ pc' = pc \/ Woken(key, ok)
              /\ down' = [down EXCEPT ![c] = Tail(@)]
    BY ClientReadStep, Zenon
  <1>2. PICK ok \in BOOLEAN :
              /\ IF Head(down[c]).kind = "AuthAck" THEN key = AuthKey
                 ELSE key = <<Head(down[c]).kind, Head(down[c]).port>> /\ ok = Head(down[c]).ok
              /\ \A d \in Conns : cch'[d] = "new" => cch[d] = "new"
              /\ pc' = pc \/ Woken(key, ok)
              /\ down' = [down EXCEPT ![c] = Tail(@)]
    BY <1>1, Zenon
  <1>3. down[c] # <<>> /\ UNCHANGED <<up, serverCtx, sports, clientCtx, cports>>
    BY DEF ClientRead, server
  <1>4. CASE pc' = pc
    <2>1. up \in [Conns -> Seq(Msgs)] /\ down \in [Conns -> Seq(Msgs)]
      BY DEF TypeOK
    <2>2. \A d \in Conns : NoMore(up'[d], up[d]) /\ NoMore(down'[d], down[d])
      BY <1>2, <1>3, <2>1, NoMoreSame, NoMoreTail
    <2>3. \A a \in {"sweep", "peer"} : pc'[a].at \in {"idle", "stopping"} /\ pc'[a].next = "idle"
      BY <1>4 DEF Synchronous, Undialed
    <2>. QED
      BY <1>2, <1>3, <1>4, <2>2, <2>3, StepSync
  <1>5. CASE Woken(key, ok)
    BY <1>2, <1>3, <1>5, WokenSync, Zenon
  <1>. QED
    BY <1>2, <1>4, <1>5

-----------------------------------------------------------------------------
\* A call that begins beside another is seen by beside.
LEMMA CallsAlone ==
    ASSUME TypeOK, SerialInv, [Next]_vars, ~ beside'
    PROVE  ~ beside /\ OneCallAtATime /\ OneCallAtATime'
  <1>1. pc \in [Actors -> Pcs] /\ Callers \subseteq Actors
    BY TypeParts DEF PcTyped, Actors
  <1>2. CASE \E k \in Callers : Call(k)
    <2>1. PICK k \in Callers : Call(k)
      BY <1>2
    <2>2. ~ beside /\ \A l \in Callers : pc[l].at = "idle"
      BY <2>1 DEF Call
    <2>3. \A l \in Callers \ {k} : pc'[l] = pc[l]
      BY <1>1, <2>1 DEF Call, BeginStop, Request, Return
    <2>4. \A l \in Callers : pc'[l].at # "idle" => l = k
      BY <2>2, <2>3
    <2>. QED
      BY <2>2, <2>4 DEF SerialInv, OneCallAtATime
  <1>3. ASSUME NEW a \in Actors, a \in Callers => pc[a].at # "idle",
               \A l \in Callers \ {a} : pc'[l].at # "idle" => pc[l].at # "idle",
               UNCHANGED beside
        PROVE  ~ beside /\ OneCallAtATime /\ OneCallAtATime'
    BY <1>3 DEF SerialInv, OneCallAtATime
  <1>4. CASE \E k \in Callers : CallerStep(k) /\ ~ Call(k)
    <2>1. PICK k \in Callers : CallerStep(k) /\ ~ Call(k)
      BY <1>4
    <2>2. pc[k].at # "idle" /\ UNCHANGED beside
      BY <2>1 DEF CallerStep, DialFails, Start, Replace, Register, Timeout, Finish, Expired, Again, past
    <2>3. \A l \in Callers \ {k} : pc'[l] = pc[l]
      BY <1>1, <2>1
      DEF CallerStep, DialFails, Start, Replace, Register, Timeout, Finish, Expired, Again, Goto,
          Return, Request, BeginStop, ClosePortEnd
    <2>. QED
      BY <1>1, <1>3, <2>2, <2>3
  <1>5. CASE \E a \in Actors : EndStop(a)
    <2>1. PICK a \in Actors : EndStop(a)
      BY <1>5
    <2>2. pc[a].at # "idle" /\ UNCHANGED beside
      BY <2>1 DEF EndStop, past
    <2>3. \A l \in Callers \ {a} : pc'[l] = pc[l]
      BY <1>1, <2>1 DEF EndStop, Return
    <2>. QED
      BY <1>3, <2>2, <2>3
  <1>6. CASE /\ UNCHANGED beside
             /\ \A l \in Callers : pc'[l].at # "idle" => pc[l].at # "idle"
    BY <1>6 DEF SerialInv, OneCallAtATime
  <1>7. CASE ClientSweep \/ ClientPeerChanged
    <2>1. \A l \in Callers : l \notin {"sweep", "peer"}
      BY SerialAssumption
    <2>2. \A l \in Callers : pc'[l] = pc[l]
      BY <1>1, <1>7, <2>1 DEF ClientSweep, ClientPeerChanged, BeginStop
    <2>. QED
      BY <1>6, <1>7, <2>2 DEF ClientSweep, ClientPeerChanged
  <1>8. CASE ServerSweep \/ ServerPeerChanged \/ UNCHANGED vars
    BY <1>6, <1>8 DEF ServerSweep, ServerPeerChanged, vars, past
  <1>9. CASE \E c \in Conns : ServerRead(c) \/ ReadIdle(c) \/ Break(c) \/ Lose(c)
    BY <1>6, <1>9 DEF ServerRead, ReadIdle, Break, Lose, past
  <1>10. CASE \E c \in Conns : ClientRead(c)
    <2>1. PICK c \in Conns : ClientRead(c)
      BY <1>10
    <2>2. PICK key : \E ok \in BOOLEAN : pc' = pc \/ Woken(key, ok)
      BY <2>1, ClientReadStep, Zenon
    <2>3. \A l \in Callers : pc'[l].at # "idle" => pc[l].at # "idle"
      <3>1. CASE pc' = pc
        BY <3>1
      <3>2. CASE \E ok \in BOOLEAN : Woken(key, ok)
        <4>1. PICK a \in Actors : /\ pc[a].at = "wait"
                                  /\ \A l \in Callers \ {a} : pc'[l] = pc[l]
          BY <1>1, <3>2 DEF Woken
        <4>. QED
          BY <4>1
      <3>. QED
        BY <2>2, <3>1, <3>2
    <2>. QED
      BY <1>6, <2>1, <2>3 DEF ClientRead, past
  <1>. QED
    BY <1>2, <1>4, <1>5, <1>7, <1>8, <1>9, <1>10 DEF Next

\* Requests and answers alternate.
LEMMA SyncNext == TypeOK /\ TypeOK' /\ SerialInv /\ [Next]_vars => SerialInv'
  <1>. SUFFICES ASSUME TypeOK, TypeOK', SerialInv, [Next]_vars, ~ beside',
                       OneCallAtATime, OneCallAtATime', ~ beside, late' = 0
                PROVE  Synchronous'
    BY CallsAlone DEF SerialInv
  <1>1. late \in Nat
    BY DEF TypeOK
  <1>2. ASSUME NEW k \in Callers, Expired(k) PROVE FALSE
    BY <1>1, <1>2 DEF Expired
  <1>3. late = 0
    BY <1>2
    DEF vars, past, Next, CallerStep, Call, DialFails, Start, Replace, Register, Timeout, Finish, Again,
        EndStop, ClientSweep, ClientPeerChanged, ServerSweep, ServerPeerChanged, ClientRead,
        ServerRead, ReadIdle, Break, Lose, BeginStop
  <1>4. Synchronous
    BY <1>3 DEF SerialInv
  <1>5. ASSUME NEW k \in Callers, CallerStep(k) PROVE Synchronous'
    BY <1>2, <1>4, <1>5, CallSync, DialFailsSync, StartSync, ReplaceSync, RegisterSync, TimeoutSync,
       FinishSync, AgainSync DEF CallerStep
  <1>6. CASE ClientSweep \/ ClientPeerChanged
    BY <1>4, <1>6, StopperSync DEF ClientSweep, ClientPeerChanged
  <1>7. CASE ServerSweep \/ ServerPeerChanged
    <2>1. RemoveServerHandler(up) /\ UNCHANGED <<client, pc>> /\ up \in [Conns -> Seq(Msgs)]
      BY <1>7 DEF ServerSweep, ServerPeerChanged, TypeOK
    <2>. QED
      BY <1>4, <2>1, UpNoMore, RemoveSync
  <1>8. CASE UNCHANGED vars
    <2>1. UNCHANGED <<clientCtx, cports, cch, pc, serverCtx, sports, up, down>>
      BY <1>8 DEF vars
    <2>2. /\ \A c \in Conns : NoMore(up'[c], up[c]) /\ NoMore(down'[c], down[c])
          /\ \A a \in {"sweep", "peer"} : pc'[a].at \in {"idle", "stopping"} /\ pc'[a].next = "idle"
      BY <1>4, <2>1, UpNoMore DEF Synchronous, Undialed
    <2>. QED
      BY <1>4, <2>1, <2>2, StepSync
  <1>. QED
    BY <1>4, <1>5, <1>6, <1>7, <1>8, EndStopSync, ClientReadSync, ServerReadSync, NetSync DEF Next

LEMMA SyncInit == Init => SerialInv
  <1>. SUFFICES ASSUME Init PROVE Synchronous /\ OneCallAtATime
    BY DEF SerialInv
  <1>1. \A c \in Conns : up[c] = <<>> /\ down[c] = <<>> /\ cports[c] = {}
    BY DEF Init
  <1>2. clientCtx = None /\ serverCtx = None /\ pc = [a \in Actors |-> Idle]
    BY DEF Init
  <1>3. \A a \in Actors : pc[a].at = "idle" /\ pc[a].next = "idle" /\ pc[a].ctx = None
    BY <1>2 DEF Idle
  <1>4. OneInFlight /\ Owned
    <2>1. \A c \in Conns : Calm(up[c]) /\ Calm(down[c])
      BY <1>1, CalmEmpty
    <2>2. OneInFlight
      BY <2>1, CalmSingle DEF OneInFlight, CalmConn
    <2>. QED
      BY <2>1, <2>2 DEF Owned, Calm
  <1>5. Undialed
    BY <1>1, <1>2, <1>3, NoneNew DEF Undialed, Actors
  <1>6. ASSUME NEW k \in Callers PROVE Portless(k) /\ Asking(k)
    <2>1. pc[k].at = "idle"
      BY <1>3 DEF Actors
    <2>. QED
      BY <2>1 DEF Portless, Asking, Storing, Connecting
  <1>. QED
    BY <1>2, <1>3, <1>4, <1>5, <1>6 DEF Synchronous, AnswerTrue, Backed, OneCallAtATime, Actors

LEMMA SyncBacks == TypeOK /\ SerialInv => PortsBacked
  <1>. SUFFICES ASSUME TypeOK, SerialInv, NEW c \in Conns, NEW p \in cports[c],
                       clientCtx = c, serverCtx = c, late = 0, ~ beside
                PROVE  p \in sports[c] \/ \E k \in Callers : Closing(k, p)
    BY DEF PortsBacked, Closing
  <1>. QED
    BY NoneNew DEF SerialInv, Synchronous, Backed

\* Bytes written to a local port reach a device (ClientContext.OpenPort and
\* ClosePort, ServerContext.processMsg): whatever connections are dialed anew,
\* break or are swept, a port that is open at the client is open at the server
\* whose context serves it, unless its close has just been written.  It says
\* nothing of what follows a call that has timed out or has begun beside
\* another one.
THEOREM PortsAreBacked == Spec => []PortsBacked
  <1>1. SerialInv /\ TypeOK => PortsBacked
    BY SyncBacks
  <1>. QED
    BY <1>1, SerialTypes, SyncInit, SyncNext, PTL DEF Spec

=============================================================================
