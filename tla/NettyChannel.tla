---------------------------- MODULE NettyChannel ----------------------------
(***************************************************************************)
(* One channel of src/netty with the pipeline of the services: head, idle  *)
(* handler, codec, service handler, tail.  Goroutines: the one that        *)
(* connects and serves the channel, the read loop, the write loop, the     *)
(* goroutines of the services, which write and close, and the callbacks of *)
(* the idle timer.  The services use readIdleHandler; writeIdleHandler     *)
(* differs from it in what resets the timer.                               *)
(*                                                                         *)
(* A step is an atomic operation, a channel operation, a critical section  *)
(* of the idle handler, or a read of a field another goroutine writes.     *)
(* An event travels its handlers within the step, up to the next such      *)
(* operation.                                                              *)
(***************************************************************************)
EXTENDS Naturals, Sequences

CONSTANTS
    Users,        \* goroutines of the services
    Ticks,        \* callbacks of the idle timer that may overlap
    Capacity,     \* of sendQueue
    MaxPackets    \* bound: how many packets are written, one less where only
                  \* the timer differs

ASSUME ChannelAssumption ==
    /\ Capacity \in Nat \ {0} /\ MaxPackets \in Nat \ {0}
    /\ Users \cap Ticks = {}
    /\ (Users \cup Ticks) \cap {"serve", "read", "write"} = {}

VARIABLES
    closed, posted,   \* the two flags of the channel
    done,             \* its context is cancelled
    transport,        \* "open", "broken" (every operation fails) or "closed"
    pipeline,         \* the field is not nil
    sendQueue,
    buffers,          \* what the write loop has merged
    watch,            \* which idle handler there is: "read" or "write"
    timer,            \* its timer: "nil", "armed" or "fired"
    pc, ret,          \* of every goroutine, and where it goes after Close
    pkt,              \* the packet a goroutine wants to write
    issued,           \* number of packets written so far
    accepted, wire    \* history: what Write accepted, what the transport took

Packet == 1..MaxPackets
IdleHandlers == {"read", "write"}
Goroutines == Users \cup Ticks \cup {"serve", "read", "write"}

flags == <<closed, posted, done, transport, pipeline, watch>>
data == <<sendQueue, buffers, accepted, wire>>
vars == <<flags, data, timer, pc, ret, pkt, issued>>

PcStates == {"new", "active", "written", "top", "read", "handle", "reset",
             "select", "merge", "send", "idle", "enqueue", "run", "event", "rearm",
             "post", "posted", "exception", "close", "cancel", "shut", "fire",
             "forget", "crashed", "end"}

Init ==
    /\ closed = FALSE /\ posted = FALSE /\ done = FALSE
    /\ transport = "open" /\ pipeline = TRUE
    /\ sendQueue = <<>> /\ buffers = <<>> /\ accepted = <<>> /\ wire = <<>>
    /\ watch \in IdleHandlers /\ timer = "nil"
    /\ pc = [g \in Goroutines |->
                IF g \in Users \cup Ticks THEN "idle" ELSE "new"]
    /\ ret = [g \in Goroutines |-> "end"]
    /\ pkt = [g \in Goroutines |-> 0]
    /\ issued = 0

-----------------------------------------------------------------------------
Goto(g, from, to) == pc[g] = from /\ pc' = [pc EXCEPT ![g] = to]

\* A call of Write or Close is over.
Return(g) == pc' = [pc EXCEPT ![g] = ret[g]] /\ ret' = [ret EXCEPT ![g] = "end"]

\* A plausible slip: the timer is reset whether or not it is there.
ResetTimerBlindly == "armed"

\* Reset, if there is a timer.
ResetTimer == IF timer = "nil" THEN "nil" ELSE "armed"

\* HandleWrite and HandleRead of the idle handler, as far as it has them.
ResetByWrite == IF watch = "write" THEN ResetTimer ELSE timer
ResetByRead == IF watch = "read" THEN ResetTimer ELSE timer

\* A handler starts to write a packet, which passes the idle handler on its
\* way to the head; it goes on at next.
Issue(g, from, next) ==
    /\ issued < IF watch = "write" THEN MaxPackets - 1 ELSE MaxPackets
    /\ Goto(g, from, "enqueue")
    /\ issued' = issued + 1
    /\ pkt' = [pkt EXCEPT ![g] = issued + 1]
    /\ ret' = [ret EXCEPT ![g] = next]
    /\ timer' = ResetByWrite
    /\ UNCHANGED <<flags, data>>

\* A plausible slip: a blocking send, without the branch for the context.
WriteWaits(g) ==
    /\ pc[g] = "enqueue" /\ Return(g)
    /\ pkt' = [pkt EXCEPT ![g] = 0]
    /\ Len(sendQueue) < Capacity
    /\ sendQueue' = Append(sendQueue, pkt[g])
    /\ accepted' = Append(accepted, pkt[g])
    /\ UNCHANGED <<buffers, wire, flags, timer, issued>>

\* Write and Writev: of the ready branches of the select either may be taken;
\* headHandler drops the error.
Write(g) ==
    /\ pc[g] = "enqueue" /\ Return(g)
    /\ pkt' = [pkt EXCEPT ![g] = 0]
    /\ \/ done /\ UNCHANGED data
       \/ /\ Len(sendQueue) < Capacity
          /\ sendQueue' = Append(sendQueue, pkt[g])
          /\ accepted' = Append(accepted, pkt[g])
          /\ UNCHANGED <<buffers, wire>>
    /\ UNCHANGED <<flags, timer, issued>>

\* A handler or a service calls Close.
CallClose(g, from, next) ==
    /\ Goto(g, from, "close")
    /\ ret' = [ret EXCEPT ![g] = next]
    /\ UNCHANGED <<flags, data, timer, pkt, issued>>

-----------------------------------------------------------------------------
(***************************************************************************)
(* Close, and the way of an exception to it.                               *)
(***************************************************************************)
\* CompareAndSwap of closed.
Close(g) ==
    /\ \/ closed /\ pc[g] = "close" /\ Return(g)
       \/ ~ closed /\ Goto(g, "close", "cancel") /\ UNCHANGED ret
    /\ closed' = TRUE
    /\ UNCHANGED <<posted, done, transport, pipeline, watch, data, timer, pkt, issued>>

Cancel(g) ==
    /\ Goto(g, "cancel", "shut")
    /\ done' = TRUE
    /\ UNCHANGED <<closed, posted, transport, pipeline, watch, data, timer, ret, pkt, issued>>

Shut(g) ==
    /\ Goto(g, "shut", "fire")
    /\ transport' = "closed"
    /\ UNCHANGED <<closed, posted, done, pipeline, watch, data, timer, ret, pkt, issued>>

\* fireChannelInactive: tail, service handler, readIdleHandler, which stops the
\* timer and forgets its context, and head, whose Close is without effect.
FireInactive(g) ==
    /\ Goto(g, "fire", "forget")
    /\ timer' = "nil"
    /\ UNCHANGED <<flags, data, ret, pkt, issued>>

Forget(g) ==
    /\ pc[g] = "forget" /\ Return(g)
    /\ pipeline' = FALSE
    /\ UNCHANGED <<closed, posted, done, transport, watch, data, timer, pkt, issued>>

\* fireChannelException: the service handler passes it on to the tail, which
\* closes its context, so that HandleInactive runs towards the head a first
\* time.  The loops and the callbacks of the timer call it in a deferred function
\* on the field, which ends the program if it is nil; serveChannel has its own
\* reference to the pipeline.  A callback goes on to its second section.
FireException(g) ==
    /\ pc[g] = "exception"
    /\ \/ /\ pipeline \/ g = "serve"
          /\ Goto(g, "exception", "close")
          /\ timer' = "nil"
          /\ ret' = [ret EXCEPT ![g] = IF g \in Ticks THEN "rearm" ELSE "end"]
       \/ /\ ~ pipeline /\ g # "serve"
          /\ pc' = [h \in Goroutines |-> "crashed"]
          /\ UNCHANGED <<timer, ret>>
    /\ UNCHANGED <<flags, data, pkt, issued>>

\* postCloseEvent: once for the two loops,
PostCloseEvent(g) ==
    /\ Goto(g, "post", IF posted THEN "end" ELSE "posted")
    /\ posted' = TRUE
    /\ UNCHANGED <<closed, done, transport, pipeline, watch, data, timer, ret, pkt, issued>>

\* and not for a channel that was closed on purpose.
Posted(g) ==
    /\ Goto(g, "posted", IF closed THEN "end" ELSE "exception")
    /\ UNCHANGED <<flags, data, timer, ret, pkt, issued>>

Closing(g) ==
    \/ Close(g) \/ Cancel(g) \/ Shut(g) \/ FireInactive(g) \/ Forget(g)
    \/ PostCloseEvent(g) \/ Posted(g) \/ FireException(g)

-----------------------------------------------------------------------------
(***************************************************************************)
(* pipeline.serveChannel: fireChannelActive arms the idle timer and lets   *)
(* the service handler write its request; then the loops start.  A panic   *)
(* of a handler closes the channel, and the loops never start.             *)
(***************************************************************************)
FireActive ==
    /\ Goto("serve", "new", "active")
    /\ timer' = "armed"
    /\ UNCHANGED <<flags, data, ret, pkt, issued>>

ServeChannel ==
    \/ Issue("serve", "active", "written")
    \/ /\ pc["serve"] \in {"active", "written"}
       /\ pc' = [pc EXCEPT !["serve"] = "end", !["read"] = "top",
                           !["write"] = "select"]
       /\ UNCHANGED <<flags, data, timer, ret, pkt, issued>>
    \/ /\ pc["serve"] \in {"active", "written"}
       /\ Goto("serve", pc["serve"], "exception")
       /\ UNCHANGED <<flags, data, timer, ret, pkt, issued>>

-----------------------------------------------------------------------------
(***************************************************************************)
(* The read loop.  The codec returns without a word when the read fails.   *)
(***************************************************************************)
ReadTop ==
    /\ Goto("read", "top", IF closed \/ ~ pipeline THEN "post" ELSE "read")
    /\ UNCHANGED <<flags, data, timer, ret, pkt, issued>>

Read ==
    /\ \/ transport = "open" /\ Goto("read", "read", "handle")
       \/ transport # "open" /\ Goto("read", "read", "reset")
    /\ UNCHANGED <<flags, data, timer, ret, pkt, issued>>

\* The service handler returns, answers, closes the channel, or panics.
Handle ==
    \/ /\ Goto("read", "handle", "reset")
       /\ UNCHANGED <<flags, data, timer, ret, pkt, issued>>
    \/ Issue("read", "handle", "reset")
    \/ CallClose("read", "handle", "reset")
    \/ /\ Goto("read", "handle", "post")
       /\ UNCHANGED <<flags, data, timer, ret, pkt, issued>>

\* The end of HandleRead of the idle handler.
ReadDone ==
    /\ Goto("read", "reset", "top")
    /\ timer' = ResetByRead
    /\ UNCHANGED <<flags, data, ret, pkt, issued>>

ReadLoop == ReadTop \/ Read \/ Handle \/ ReadDone

-----------------------------------------------------------------------------
(***************************************************************************)
(* The write loop.                                                         *)
(***************************************************************************)
\* A plausible slip: a packet that is merged replaces the first one.
TakeReplaces(to) ==
    /\ pc' = [pc EXCEPT !["write"] = to]
    /\ buffers' = <<Head(sendQueue)>>
    /\ sendQueue' = Tail(sendQueue)
    /\ UNCHANGED <<accepted, wire>>

Take(to) ==
    /\ pc' = [pc EXCEPT !["write"] = to]
    /\ buffers' = Append(buffers, Head(sendQueue))
    /\ sendQueue' = Tail(sendQueue)
    /\ UNCHANGED <<accepted, wire>>

\* A plausible slip: the loop waits for packets only.
SelectPackets ==
    /\ pc["write"] = "select"
    /\ sendQueue # <<>> /\ Take("merge") /\ UNCHANGED ret
    /\ UNCHANGED <<flags, timer, pkt, issued>>

Select ==
    /\ pc["write"] = "select"
    /\ \/ sendQueue # <<>> /\ Take("merge") /\ UNCHANGED ret
       \/ /\ done
          /\ Goto("write", "select", "close")
          /\ ret' = [ret EXCEPT !["write"] = "end"]
          /\ UNCHANGED data
    /\ UNCHANGED <<flags, timer, pkt, issued>>

\* sendWithWritev: packets are merged until the queue is empty or there are as
\* many as it can hold.
Merge ==
    /\ pc["write"] = "merge"
    /\ \/ /\ sendQueue # <<>>
          /\ Take(IF Len(buffers) + 1 >= Capacity THEN "send" ELSE "merge")
       \/ sendQueue = <<>> /\ Goto("write", "merge", "send") /\ UNCHANGED data
    /\ UNCHANGED <<flags, timer, ret, pkt, issued>>

\* A plausible slip: an error of Writev ends the loop without an event.
WriteFailedSilently == "end"

\* Assert panics, and the deferred function posts the event.
WriteFailed == "post"

\* A plausible slip: the first of the merged packets is left out.
SentFromSecond(n) == wire' = wire \o SubSeq(buffers, 2, n)

\* transport.Writev, a datagram for each packet.
Sent(n) == wire' = wire \o SubSeq(buffers, 1, n)

\* All of it, or on an error the packets before it.
Writev ==
    /\ pc["write"] = "send"
    /\ buffers' = <<>>
    /\ \/ /\ transport = "open"
          /\ Sent(Len(buffers))
          /\ Goto("write", "send", "select")
       \/ /\ transport # "open"
          /\ \E n \in 0..(IF transport = "broken" THEN Len(buffers) - 1 ELSE 0) : Sent(n)
          /\ Goto("write", "send", WriteFailed)
    /\ UNCHANGED <<flags, sendQueue, accepted, timer, ret, pkt, issued>>

WriteLoop == Select \/ Merge \/ Writev

-----------------------------------------------------------------------------
(***************************************************************************)
(* The idle timer: onReadTimeout and onWriteTimeout.                       *)
(***************************************************************************)
\* HandleActive is over long before the first heartbeat.
Fire(t) ==
    /\ timer = "armed"
    /\ pc["serve"] \notin {"active", "written", "enqueue"}
    /\ Goto(t, "idle", "run")
    /\ timer' = "fired"
    /\ UNCHANGED <<flags, data, ret, pkt, issued>>

\* The first critical section: expired and handlerCtx are read.
Expired(t) ==
    /\ \/ timer # "nil" /\ Goto(t, "run", "event")
       \/ Goto(t, "run", "rearm")
    /\ UNCHANGED <<flags, data, timer, ret, pkt, issued>>

SendPing(t) == Issue(t, "event", "rearm")

\* Trigger: the service handler writes a Ping, unless it is not registered or
\* has nobody to write to; or it panics, which the callback recovers from.
Trigger(t) ==
    \/ SendPing(t)
    \/ /\ \E next \in {"rearm", "exception"} : Goto(t, "event", next)
       /\ UNCHANGED <<flags, data, timer, ret, pkt, issued>>

\* The second critical section: the timer is armed again, whatever happened.
Rearm(t) ==
    /\ Goto(t, "rearm", "idle")
    /\ timer' = ResetTimer
    /\ UNCHANGED <<flags, data, ret, pkt, issued>>

Tick(t) == Expired(t) \/ Trigger(t) \/ Rearm(t)

-----------------------------------------------------------------------------
(***************************************************************************)
(* The services and the network.                                           *)
(***************************************************************************)
\* HandleActive of the service handler has told the services of the channel.
Published == pc["serve"] # "new"

\* Bound: before the loops start, the services leave room in sendQueue (128) for
\* the handler's request.  The program has no such test; the loops start at once.
LeavesRoom == pc["serve"] = "end" \/ issued + 1 < Capacity

UserCalls(u) ==
    /\ Published
    /\ \/ LeavesRoom /\ Issue(u, "idle", "idle")
       \/ CallClose(u, "idle", "idle")

\* bootstrap.Stop cancels the parent context.
BootstrapStop ==
    /\ ~ done /\ done' = TRUE
    /\ UNCHANGED <<closed, posted, transport, pipeline, watch, data, timer, pc, ret,
                   pkt, issued>>

Break ==
    /\ transport = "open" /\ transport' = "broken"
    /\ UNCHANGED <<closed, posted, done, pipeline, watch, data, timer, pc, ret, pkt,
                   issued>>

Serve == FireActive \/ ServeChannel

Step(g) == Write(g) \/ Closing(g)

Next ==
    \/ \E g \in Goroutines : Step(g)
    \/ Serve \/ ReadLoop \/ WriteLoop
    \/ \E t \in Ticks : Fire(t) \/ Tick(t)
    \/ \E u \in Users : UserCalls(u)
    \/ BootstrapStop \/ Break

Spec == Init /\ [][Next]_vars

\* The read loop, which may wait in a read for ever.
ReadRuns == ReadTop \/ Handle \/ ReadDone \/ (transport # "open" /\ Read)

-----------------------------------------------------------------------------
(***************************************************************************)
(* Properties.                                                             *)
(***************************************************************************)
\* The variables have their types; the queue never exceeds its capacity and a
\* merge takes at most one packet more than the first and what the queue holds.
TypeOK ==
    /\ closed \in BOOLEAN /\ posted \in BOOLEAN /\ done \in BOOLEAN
    /\ transport \in {"open", "broken", "closed"}
    /\ pipeline \in BOOLEAN /\ watch \in IdleHandlers
    /\ sendQueue \in Seq(Packet) /\ Len(sendQueue) <= Capacity
    /\ buffers \in Seq(Packet) /\ Len(buffers) <= Capacity + 1
    /\ timer \in {"nil", "armed", "fired"}
    /\ pc \in [Goroutines -> PcStates] /\ ret \in [Goroutines -> PcStates]
    /\ pkt \in [Goroutines -> 0..MaxPackets] /\ issued \in 0..MaxPackets
    /\ accepted \in Seq(Packet) /\ wire \in Seq(Packet)

\* As long as the write loop runs, every packet Write has accepted is on the
\* wire, merged or queued, in the order of acceptance and once.
WriteLoopRuns == pc["write"] \in {"new", "select", "merge", "send"}

NothingLost == WriteLoopRuns => accepted = wire \o buffers \o sendQueue

\* When Close has run, the idle timer is stopped for good: neither a read that
\* was in progress nor a callback that was running arms it again.
TimerStopped == ~ pipeline => timer = "nil"

\* As long as nobody has begun to close the channel, the heartbeat of an active
\* channel goes on: its timer is armed or a callback will arm it.
HeartbeatKept ==
    (pc["serve"] = "end" /\ ~ closed
        /\ \A g \in Goroutines : pc[g] \notin {"exception", "close"})
       => timer = "armed" \/ \E t \in Ticks : pc[t] # "idle"

\* The idle timer lives as long as the channel: reads, callbacks, exceptions and
\* Close, which all set it, neither lose the heartbeat nor leave it behind.
TimerFollowsChannel == TimerStopped /\ HeartbeatKept

\* A channel that is cancelled, by Close or by the bootstrap, is closed in the
\* end, its two loops return, and its handlers have heard of it; unless the
\* program has ended.
Cancelled ==
    []<>(\/ ~ done \/ pc["serve"] # "end"
         \/ closed /\ ~ pipeline
            /\ \A g \in {"read", "write"} : pc[g] \in {"new", "end"})

\* A write that waits for room in the queue returns, whatever becomes of the
\* write loop.
WriteReturns ==
    \A g \in Goroutines : []<>(pc[g] # "enqueue")

\* What the channel promises.
Promise == INSTANCE AbstractChannel WITH up <- transport # "closed"

\* The channel keeps its promise (AbstractChannel): of what Write has accepted
\* the transport takes the packets in that order, none twice and none left out,
\* and none once it is closed, although the write loop merges them and an error
\* may hit in the middle of a merged write.
KeepsPromise == Promise!ASpec

\* The other half: an accepted packet is not kept back for ever while the
\* transport is open.
Delivers == Promise!ALive

-----------------------------------------------------------------------------
(***************************************************************************)
(* The inductive invariant behind NothingLost, TimerFollowsChannel and     *)
(* KeepsPromise.                                                           *)
(***************************************************************************)
\* Inside the body of Close, past the CompareAndSwap.
ClosingSteps == {"cancel", "shut", "fire", "forget"}

\* Before the loops are started, or will never be.
Starting == {"new", "active", "enqueue", "written"}

\* What each goroutine executes, and where it goes on after Write and Close:
\* only the loops post the close event, the services never see an exception, and
\* the write loop never returns to its work from Close.
InPlace(g, at, next) ==
    \/ at = "crashed"
    \/ /\ g \in Users
       /\ at \in {"idle", "enqueue", "close"} \cup ClosingSteps
       /\ at # "idle" => next = "idle"
    \/ /\ g \in Ticks
       /\ at \in {"idle", "run", "event", "enqueue", "rearm", "exception", "close"}
                    \cup ClosingSteps
       /\ at \in {"enqueue", "close"} \cup ClosingSteps => next = "rearm"
    \/ /\ g = "serve"
       /\ at \in Starting \cup {"exception", "close", "end"} \cup ClosingSteps
       /\ at = "enqueue" => next = "written"
       /\ at \in {"close"} \cup ClosingSteps => next = "end"
    \/ /\ g = "read"
       /\ at \in {"new", "top", "read", "handle", "enqueue", "reset", "post", "posted",
                  "exception", "close", "end"} \cup ClosingSteps
       /\ at = "enqueue" => next = "reset"
       /\ at \in {"close"} \cup ClosingSteps => next \in {"reset", "end"}
    \/ /\ g = "write"
       /\ at \in {"new", "select", "merge", "send", "post", "posted", "exception", "close",
                  "end"} \cup ClosingSteps
       /\ at \in {"close"} \cup ClosingSteps => next = "end"

InCode == \A g \in Goroutines : InPlace(g, pc[g], ret[g])

\* The loops have not begun while the handlers are told of the active channel,
\* and before that nobody knows of it.
NotServed ==
    /\ pc["serve"] \in Starting => pc["read"] = "new" /\ pc["write"] = "new"
    /\ ~ Published =>
          /\ pipeline /\ timer = "nil"
          /\ pc["read"] = "new" /\ pc["write"] = "new"
          /\ \A g \in Users \cup Ticks : pc[g] = "idle"

\* Close runs under the flag that it has set.
CloseFlagged == \A g \in Goroutines : pc[g] \in ClosingSteps => closed

\* The timer is nil from the inactive event on; one that has fired has a callback
\* that runs; and once the handlers know of the channel it is not nil before
\* someone closes it.
TimerKept ==
    /\ \A g \in Goroutines : pc[g] = "forget" => timer = "nil"
    /\ ~ pipeline => timer = "nil"
    /\ timer = "fired" => \E t \in Ticks : pc[t] # "idle"
    /\ pc["serve"] \notin {"new", "crashed"} /\ ~ closed /\ timer = "nil" =>
          \E g \in Goroutines : pc[g] = "close"

ControlInv == InCode /\ NotServed /\ CloseFlagged /\ TimerKept

\* What the write loop holds: the buffers are empty outside the sending of
\* packets, have one at least when they are sent, and room when the loop merges.
WriterHolds ==
    /\ pc["write"] \in {"new", "select"} => buffers = <<>>
    /\ pc["write"] = "merge" => Len(buffers) \in 1..Capacity
    /\ pc["write"] = "send" => Len(buffers) >= 1
    /\ NothingLost

\* And a goroutine in Write has a packet.
DataInv == (\A g \in Goroutines : pc[g] = "enqueue" => pkt[g] # 0) /\ WriterHolds

ChannelInv == TypeOK /\ ControlInv /\ DataInv
=============================================================================
