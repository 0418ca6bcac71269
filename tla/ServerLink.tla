----------------------------- MODULE ServerLink -----------------------------
(***************************************************************************)
(* The link of a peer to the server: the life cycle, the connection and    *)
(* the registration of service/runtime_service.go, with the handler of the *)
(* server socket (service/msg_handler.go) and model.ServerSockContext.     *)
(*                                                                         *)
(* There is one ServerSockContext, shared by every channel the service has *)
(* ever opened: the events of an old channel change the fields by which    *)
(* the new one is judged.  Goroutines: stateCheck (a second one, if Start  *)
(* runs while the first is blocked in a ping), the read and write loops of *)
(* each channel, and the user interface, which stops and restarts.         *)
(*                                                                         *)
(* Datagrams may be lost, repeated and delayed; of their content only the  *)
(* registration matters here.  Time is what IsConnected tests of it.       *)
(***************************************************************************)
EXTENDS Naturals

CONSTANTS
    Chans,        \* identities of channels to the server
    Checkers,     \* goroutines that run stateCheck
    First,        \* the one started with the program
    None

ASSUME LinkAssumption == None \notin Chans /\ First \in Checkers

VARIABLES
    running,      \* RuntimeService.running
    cancelled,    \* the present cancelContext is done
    peerState,
    connected, heard, handler, boot,  \* ServerSockContext: Connected,
                  \* LastReceive, Handler and the channel of Bootstrap
    serverChannel,
    chan,         \* the channels
    asked,        \* channels with a registration or its answer on the way
    pc,           \* where each stateCheck is
    netUp,        \* the server can be reached
    overlapped    \* auxiliary: two stateChecks have been alive at once

sockCtx == <<connected, heard, handler, boot>>
life == <<running, cancelled>>
vars == <<running, cancelled, peerState, connected, heard, handler, boot,
          serverChannel, chan, asked, pc, netUp, overlapped>>

\* model.PeerState, without StateUnInit, which Init leaves before Start, and
\* StateConnOk, which nothing sets.
PeerStates == {"InitOk", "InitError", "UnConn", "UnAck", "AuthFail", "Ok"}

\* peerState >= StateConnOk.
Registrable == peerState \in {"UnAck", "AuthFail", "Ok"}

\* LastReceive: within Heartbeat+3 seconds, before that, before Offline.
Ages == {"fresh", "late", "offline"}

\* A channel: "cancelled" by Bootstrap.Stop and not yet closed; "closing" when
\* channel.Close has begun in its write loop or for an error and the inactive
\* event is still to come; "failed" when the exception handler that closed it
\* has still to return; "closed" until its read loop has ended.
ChanStates == {"none", "open", "cancelled", "closing", "failed", "closed"}

At(where, c) == [at |-> where, chan |-> c]

\* Where stateCheck can be: not running, before its first test, in the select
\* of the loop, past the loop, in isNetOk called from either test, before
\* stopAllSockets, in the ping of initServerSocket, in Connect, back from it,
\* or in SendAuthRequest after the write.
PcStates == [at : {"none", "start", "select", "leave", "startPing", "tickPing",
                   "reset", "ping", "dial", "sent"}, chan : {None}]
            \cup [at : {"bound"}, chan : Chans]

Free(c) == /\ chan[c] = "none"
           /\ c # serverChannel
           /\ \A k \in Checkers : pc[k].chan # c

Init ==
    /\ running = TRUE /\ cancelled = FALSE
    /\ peerState = "InitOk"
    /\ connected = FALSE /\ heard = "offline"
    /\ handler = None /\ boot = None
    /\ serverChannel = None
    /\ chan = [c \in Chans |-> "none"]
    /\ asked = {}
    /\ pc = [k \in Checkers |-> At(IF k = First THEN "start" ELSE "none", None)]
    /\ netUp \in BOOLEAN
    /\ overlapped = FALSE

-----------------------------------------------------------------------------
(***************************************************************************)
(* stateCheck.                                                             *)
(***************************************************************************)
Goto(k, where) == pc' = [pc EXCEPT ![k] = At(where, None)]

\* The loop goes on for r.running.
Loop(k) == Goto(k, IF running THEN "select" ELSE "leave")

\* A plausible slip: the age of LastReceive is not tested.
LostIgnoresAge == ~ connected

\* What IsConnected returns without asking the network.
Lost == ~ connected \/ heard = "offline"

\* The registration request is written to the Handler, if there is one and
\* peerState allows it; a channel that is not open drops it.
SendAuthRequest(k) ==
    IF Registrable /\ handler # None
    THEN /\ asked' = IF chan[handler] = "open" /\ running
                     THEN asked \cup {handler} ELSE asked
         /\ Goto(k, "sent")
    ELSE Loop(k) /\ UNCHANGED asked

\* A plausible slip: only a refused registration is repeated.
RegisteredIfRefused(k) ==
    IF peerState = "AuthFail" THEN SendAuthRequest(k)
    ELSE Loop(k) /\ UNCHANGED asked

\* A connected service registers again unless it is registered.
Registered(k) ==
    IF peerState # "Ok" THEN SendAuthRequest(k)
    ELSE Loop(k) /\ UNCHANGED asked

\* The test at the start of stateCheck.
FirstTest(k) ==
    /\ pc[k].at = "start"
    /\ IF Lost THEN Goto(k, "reset")
       ELSE IF heard = "late" THEN Goto(k, "startPing") ELSE Loop(k)
    /\ UNCHANGED <<life, peerState, sockCtx, serverChannel, chan, asked, netUp,
                   overlapped>>

\* case <-time.After(3 * time.Second), which can win over a cancellation.
Tick(k) ==
    /\ pc[k].at = "select"
    /\ IF Lost THEN Goto(k, "reset") /\ UNCHANGED asked
       ELSE IF heard = "late" THEN Goto(k, "tickPing") /\ UNCHANGED asked
       ELSE Registered(k)
    /\ UNCHANGED <<life, peerState, sockCtx, serverChannel, chan, netUp,
                   overlapped>>

\* isNetOk, a ping to a third host.
NetPing(k) ==
    /\ \/ /\ pc[k].at \in {"startPing", "tickPing"}
          /\ Goto(k, "reset") /\ UNCHANGED asked
       \/ /\ pc[k].at = "startPing"
          /\ Loop(k) /\ UNCHANGED asked
       \/ /\ pc[k].at = "tickPing"
          /\ Registered(k)
    /\ UNCHANGED <<life, peerState, sockCtx, serverChannel, chan, netUp,
                   overlapped>>

\* The end of SendAuthRequest, whatever has been answered meanwhile.
AuthSent(k) ==
    /\ pc[k].at = "sent"
    /\ peerState' = "UnAck"
    /\ Loop(k)
    /\ UNCHANGED <<life, sockCtx, serverChannel, chan, asked, netUp, overlapped>>

\* A plausible slip: the channel is forgotten and not closed.
stopAllSocketsForgets ==
    /\ UNCHANGED chan
    /\ connected' = FALSE
    /\ peerState' = "UnConn"
    /\ serverChannel' = None

\* stopAllSockets.  Bootstrap.Stop wakes the write loop, so serverChannel is
\* closed here or by its write loop, whose inactive event may come later.
stopAllSockets ==
    /\ \E end \in {"closing", "closed"} :
          chan' = [c \in Chans |->
             IF chan[c] \notin {"open", "cancelled"} THEN chan[c]
             ELSE IF c = serverChannel THEN end
             ELSE IF c = boot THEN "cancelled" ELSE chan[c]]
    /\ connected' = FALSE
    /\ peerState' = "UnConn"
    /\ serverChannel' = None

\* stopAllSockets and the start of initServerSocket, which finds no channel
\* left to close.
Reset(k) ==
    /\ pc[k].at = "reset"
    /\ stopAllSockets
    /\ Goto(k, "ping")
    /\ UNCHANGED <<life, heard, handler, boot, asked, netUp, overlapped>>

\* The ping of initServerSocket.
ServerPing(k) ==
    /\ pc[k].at = "ping"
    /\ \/ Goto(k, "dial") /\ UNCHANGED peerState
       \/ ~ netUp /\ Loop(k) /\ peerState' = "UnConn"
    /\ UNCHANGED <<life, sockCtx, serverChannel, chan, asked, netUp, overlapped>>

\* Connect succeeds: HandleActive has run, and sent a request, before the
\* loops of the channel start.
HandleActive(k) ==
    /\ pc[k].at = "dial"
    /\ \E c \in Chans :
          /\ Free(c)
          /\ chan' = [chan EXCEPT ![c] = "open"]
          /\ boot' = c
          /\ handler' = c
          /\ asked' = IF running THEN asked \cup {c} ELSE asked
          /\ pc' = [pc EXCEPT ![k] = At("bound", c)]
    /\ connected' = TRUE
    /\ heard' = "fresh"
    /\ peerState' = "UnAck"
    /\ UNCHANGED <<life, serverChannel, netUp, overlapped>>

\* Connect fails: the new Bootstrap has no channel.
DialFails(k) ==
    /\ pc[k].at = "dial"
    /\ ~ netUp
    /\ boot' = None
    /\ peerState' = "UnConn"
    /\ serverChannel' = None
    /\ Loop(k)
    /\ UNCHANGED <<life, connected, heard, handler, chan, asked, netUp,
                   overlapped>>

\* initServerSocket after Connect, whatever the channel has done meanwhile.
Bound(k) ==
    /\ pc[k].at = "bound"
    /\ serverChannel' = pc[k].chan
    /\ peerState' = "UnAck"
    /\ connected' = TRUE
    /\ Loop(k)
    /\ UNCHANGED <<life, heard, handler, boot, chan, asked, netUp, overlapped>>

\* The end of stateCheck, by the cancellation or after the loop.
Leave(k) ==
    /\ \/ pc[k].at = "leave"
       \/ pc[k].at = "select" /\ cancelled
    /\ stopAllSockets
    /\ running' = FALSE
    /\ Goto(k, "none")
    /\ UNCHANGED <<cancelled, heard, handler, boot, asked, netUp, overlapped>>

stateCheck(k) ==
    \/ FirstTest(k) \/ Tick(k) \/ NetPing(k) \/ AuthSent(k) \/ Reset(k)
    \/ ServerPing(k) \/ HandleActive(k) \/ DialFails(k) \/ Bound(k) \/ Leave(k)

-----------------------------------------------------------------------------
(***************************************************************************)
(* The user interface.                                                     *)
(***************************************************************************)
Stop ==
    /\ running' = FALSE
    /\ cancelled' = TRUE
    /\ peerState' = "UnConn"
    /\ UNCHANGED <<sockCtx, serverChannel, chan, asked, pc, netUp, overlapped>>

\* Start, called by Restart 150 ms after Stop: by then an old stateCheck has
\* left unless it is blocked in a ping, which takes up to a second.
Start(k) ==
    /\ ~ running
    /\ pc[k].at = "none"
    /\ \A j \in Checkers : pc[j].at \in {"none", "startPing", "tickPing", "ping"}
    /\ running' = TRUE
    /\ cancelled' = FALSE
    /\ Goto(k, "start")
    /\ overlapped' = (overlapped \/ \E j \in Checkers : pc[j].at # "none")
    /\ UNCHANGED <<peerState, sockCtx, serverChannel, chan, asked, netUp>>

-----------------------------------------------------------------------------
(***************************************************************************)
(* The channels.  Whatever is read makes its channel the Handler, also a   *)
(* frame that a closed channel was in the middle of.                       *)
(***************************************************************************)
HandleRead(c) ==
    /\ chan[c] # "none"
    /\ heard' = "fresh"
    /\ handler' = c

\* Any frame but an AuthAck.
Frame(c) ==
    /\ HandleRead(c)
    /\ UNCHANGED <<life, peerState, connected, boot, serverChannel, chan, asked,
                   pc, netUp, overlapped>>

\* ProcessAuthResponse: registered; the network card may fail to start.
AuthAck(c) ==
    /\ c \in asked
    /\ HandleRead(c)
    /\ peerState' \in {"Ok", "InitError"}
    /\ UNCHANGED <<life, connected, boot, serverChannel, chan, asked, pc, netUp,
                   overlapped>>

\* ProcessAuthResponse: refused, or without a valid address.
AuthRefused(c) ==
    /\ c \in asked
    /\ HandleRead(c)
    /\ peerState' = "AuthFail"
    /\ UNCHANGED <<life, connected, boot, serverChannel, chan, asked, pc, netUp,
                   overlapped>>

Lose(c) ==       \* no answer is on its way any more
    /\ c \in asked
    /\ asked' = asked \ {c}
    /\ UNCHANGED <<life, peerState, sockCtx, serverChannel, chan, pc, netUp,
                   overlapped>>

\* channel.Close begins in the write loop, which has seen the cancellation,
\* or after an error of a read or a write.
BeginClose(c) ==
    /\ chan[c] \in {"open", "cancelled"}
    /\ chan' = [chan EXCEPT ![c] = "closing"]
    /\ UNCHANGED <<life, peerState, sockCtx, serverChannel, asked, pc, netUp,
                   overlapped>>

\* The inactive event, on its own or from the exception handler.
HandleInactive(c) ==
    /\ chan[c] = "closing"
    /\ \E end \in {"closed", "failed"} : chan' = [chan EXCEPT ![c] = end]
    /\ connected' = FALSE
    /\ UNCHANGED <<life, peerState, heard, handler, boot, serverChannel, asked,
                   pc, netUp, overlapped>>

\* The end of the exception handler, after the inactive event.
HandleException(c) ==
    /\ chan[c] = "failed"
    /\ chan' = [chan EXCEPT ![c] = "closed"]
    /\ connected' = FALSE
    /\ UNCHANGED <<life, peerState, heard, handler, boot, serverChannel, asked,
                   pc, netUp, overlapped>>

ReadLoopEnds(c) ==
    /\ chan[c] = "closed"
    /\ chan' = [chan EXCEPT ![c] = "none"]
    /\ asked' = asked \ {c}
    /\ UNCHANGED <<life, peerState, sockCtx, serverChannel, pc, netUp, overlapped>>

\* Time since LastReceive, and the network.
GrowLate ==
    /\ heard # "offline"
    /\ heard' = IF heard = "fresh" THEN "late" ELSE "offline"
    /\ UNCHANGED <<life, peerState, connected, handler, boot, serverChannel,
                   chan, asked, pc, netUp, overlapped>>

NetChange ==
    /\ netUp' = ~ netUp
    /\ UNCHANGED <<life, peerState, sockCtx, serverChannel, chan, asked, pc,
                   overlapped>>

-----------------------------------------------------------------------------
Next ==
    \/ \E k \in Checkers : stateCheck(k) \/ Start(k)
    \/ Stop
    \/ \E c \in Chans : \/ Frame(c) \/ AuthAck(c) \/ AuthRefused(c) \/ Lose(c)
                        \/ BeginClose(c) \/ HandleInactive(c)
                        \/ HandleException(c) \/ ReadLoopEnds(c)
    \/ GrowLate \/ NetChange

Spec == Init /\ [][Next]_vars

\* Goroutines that can run do run, time passes, and a server that is asked
\* again and again answers one of the requests.
Fairness ==
    /\ \A k \in Checkers : WF_vars(stateCheck(k))
    /\ \A c \in Chans : /\ WF_vars(chan[c] = "cancelled" /\ BeginClose(c))
                        /\ WF_vars(HandleInactive(c)) /\ WF_vars(HandleException(c))
                        /\ WF_vars(ReadLoopEnds(c))
                        /\ SF_vars(chan[c] = "open" /\ netUp /\ AuthAck(c))
    /\ WF_vars(GrowLate)

FairSpec == Spec /\ Fairness

-----------------------------------------------------------------------------
(***************************************************************************)
(* Properties.                                                             *)
(***************************************************************************)

\* The variables keep their types; in particular StateConnOk, the limit below
\* which nothing is sent (runtime_service.go:454), is never a state itself.
TypeOK ==
    /\ running \in BOOLEAN /\ cancelled \in BOOLEAN
    /\ peerState \in PeerStates
    /\ connected \in BOOLEAN /\ heard \in Ages
    /\ handler \in Chans \cup {None} /\ boot \in Chans \cup {None}
    /\ serverChannel \in Chans \cup {None}
    /\ chan \in [Chans -> ChanStates]
    /\ asked \in SUBSET Chans
    /\ pc \in [Checkers -> PcStates]
    /\ netUp \in BOOLEAN /\ overlapped \in BOOLEAN

\* No socket to the server leaks: as long as one stateCheck runs at a time, a
\* channel that is neither closed nor cancelled is the one that the next
\* stopAllSockets will stop, through Bootstrap and serverChannel, although it
\* is assigned only after its handlers have begun to run.  So at most one
\* channel is open.
OneLink ==
    ~ overlapped => \A c \in Chans : chan[c] = "open" =>
        /\ boot = c
        /\ \/ serverChannel = c
           \/ \E k \in Checkers : pc[k] = At("bound", c)

\* The inductive invariant behind it: one stateCheck at a time, no open channel
\* where stateCheck is about to connect or has left, and no serverChannel
\* between stopAllSockets and the end of initServerSocket.
NoneOpen == \A c \in Chans : chan[c] # "open"

OneChecker == \A j, k \in Checkers : pc[j].at # "none" /\ pc[k].at # "none" => j = k

Unlinked ==
    /\ (\A k \in Checkers : pc[k].at = "none") => NoneOpen
    /\ \A k \in Checkers :
          /\ pc[k].at \in {"start", "startPing", "ping", "dial"} => NoneOpen
          /\ pc[k].at \in {"ping", "dial", "bound"} => serverChannel = None

LinkInv == OneLink /\ (~ overlapped => OneChecker /\ Unlinked)

\* A dead channel does not stay the link of a running service: it is replaced
\* although line 222 may set Connected after the channel has closed, and old
\* channels may still be heard on.
DeadChannelReplaced ==
    \A c \in Chans :
        (running /\ ~ overlapped /\ serverChannel = c /\ chan[c] = "none")
            ~> (~ running \/ overlapped \/ serverChannel # c)

\* When the server stays reachable and the service is not stopped, it
\* registers again and again, whatever was lost or undone before (the ack
\* that overtakes line 221 or 500, the inactive event of an old channel).
LinkRecovers ==
    <>[](netUp /\ running /\ ~ overlapped)
        => []<>(peerState \in {"Ok", "InitError"})

=============================================================================
