----------------------------- MODULE P2pService -----------------------------
(***************************************************************************)
(* The hole-punching service of one peer (service/p2p_service.go), with    *)
(* the handlers of the sockets it owns (service/data_handler.go and the    *)
(* punch-socket part of service/msg_handler.go).                           *)
(*                                                                         *)
(* The service keeps four maps keyed by the mac of the other peer.  The    *)
(* values of the first three are pointers to socket contexts; contexts are *)
(* therefore identities here (Punches, Socks), and a context outlives its  *)
(* map entry for as long as a goroutine holds it.                          *)
(*                                                                         *)
(* Goroutines: the tap reader (Tap), the read loops of the server and      *)
(* punch sockets (Readers), the read loop and the idle timer of each peer  *)
(* socket, and the ticker goroutine stateCheck.  A handler is one action,  *)
(* except where it blocks or where another goroutine can change what it    *)
(* has read: between the test and the store of StartPunch, between the     *)
(* store of a context and the end of its dial, between the Range and the   *)
(* Delete loops of stateCheck, and between the Load, the Store and the     *)
(* Delete of P2PSuccess.                                                   *)
(*                                                                         *)
(* Datagrams are not stored: loss, duplication and reordering mean that a  *)
(* handler may be given any message whenever its channel is open.  Time is *)
(* what the code tests of it: a punch context is expired or not, a peer    *)
(* context was heard within Heartbeat+2 seconds or not, a failure is       *)
(* within P2pRetryInterval or not.                                         *)
(*                                                                         *)
(* Assumed of the setting: the frames read from a peer socket carry the    *)
(* mac the socket was dialed for, and AppConfig.Offline is more than the   *)
(* Heartbeat+2 = 7 seconds of a peer context (65 and 90 in the shipped     *)
(* configurations), so the second eviction branch of stateCheck is dead.   *)
(***************************************************************************)
EXTENDS Naturals, FiniteSets

CONSTANTS
    Macs,         \* unicast macs of the other peers
    Punches,      \* identities of model.PunchSockContext values
    Socks,        \* identities of model.PeerSockContext values
    Readers,      \* read loops that process MsgServerFrame
    Tap,          \* the goroutine TunTapService.readTap
    None,         \* no map entry, nil pointer
    P2pTryCount,  \* config.AppConfig.P2pTryCount
    PingLimit,    \* the literal 3 of stateCheck
    FailLimit     \* the literal 10 of isNeedP2P

ASSUME ConstantsAssumption ==
    /\ None \notin Macs \cup Punches \cup Socks
    /\ Punches \cap Socks = {}
    /\ Tap \notin Readers
    /\ P2pTryCount \in Nat /\ PingLimit \in Nat /\ FailLimit \in Nat \ {0}

VARIABLES
    running,      \* P2pService.running; Stop also cancels cancelContext
    punchSocks, p2pTrySocks, p2pSocks,  \* the three socket maps
    failed,       \* hisP2PFailInfo: FailedCount, 0 without an entry
    cooling,      \* FailedTime is less than P2pRetryInterval ago
    punch,        \* the punch contexts
    sock,         \* the peer contexts
    pc,           \* what each goroutine of Threads is in the middle of
    success,      \* where the read loop of a context is in P2PSuccess
    checker,      \* where stateCheck is
    toRemove,     \* toRemoveP2P / toRemoveP2PTry
    silentRounds  \* auxiliary: sweeps that pinged a context since it was heard

vars == <<running, punchSocks, p2pTrySocks, p2pSocks, failed, cooling,
          punch, sock, pc, success, checker, toRemove, silentRounds>>

maps == <<punchSocks, p2pTrySocks, p2pSocks>>
fails == <<failed, cooling>>

Threads == Readers \cup {Tap}

(***************************************************************************)
(* The bootstrap and the channel of a context: "none" before its identity  *)
(* is used, "dialing" from the store of the context to the end of          *)
(* Bootstrap.Connect, then "open" or "refused", and "closed" once          *)
(* channel.Close has run.  Bootstrap.Stop only cancels: a dial under way   *)
(* is "aborted", and an open channel is "stopping" until its write loop    *)
(* sees the cancellation; frames can still be read from it.                *)
(***************************************************************************)
ChanStates == {"none", "dialing", "aborted", "open", "stopping", "closed",
               "refused"}

\* model.PunchSockContext (LocalSock, StartTime); model.PeerSockContext
\* (TryConnCount, PingTryCount, LastReceive).
PunchCtx == [mac : Macs \cup {None}, chan : ChanStates,
             local : BOOLEAN, expired : BOOLEAN]

PeerCtx == [mac : Macs \cup {None}, chan : ChanStates,
            tries : 0..P2pTryCount, pings : 0..PingLimit,
            heard : {"never", "fresh", "stale"}]

\* Handler /= nil: HandleActive sets it when the dial succeeds and nothing
\* resets it, not even the close of the channel.
HandlerSet(c) == c.chan \in {"open", "stopping", "closed"}

\* PunchSockContext literal of newPunchSock.
NewPunchCtx(m) == [mac |-> m, chan |-> "dialing",
                   local |-> FALSE, expired |-> FALSE]

\* PeerSockContext literal of ProcessP2PAck: LastReceive is 0, so the context
\* counts as silent until something is read from it.
NewPeerCtx(m) == [mac |-> m, chan |-> "dialing",
                  tries |-> 0, pings |-> 0, heard |-> "never"]

\* Where a goroutine of Threads is: in no handler ("idle"), past the test of
\* StartPunch ("store"), in Connect for a context, or before newPunchSock
\* sets LocalSock ("bind").
At(where, m, c) == [at |-> where, mac |-> m, ctx |-> c]

Idle == At("idle", None, None)

PcStates == {Idle}
    \cup [at : {"store"}, mac : Macs, ctx : {None}]
    \cup [at : {"dialPunch", "bind"}, mac : Macs, ctx : Punches]
    \cup [at : {"dialPeer"}, mac : Macs, ctx : Socks]

\* Where the read loop of a context is: not in P2PSuccess, or past its Load,
\* which found the context ctx being tried ("store") or none, so that the
\* context of the loop itself is established ("own"), or past the Store of a
\* context that was being tried ("delete").
NoSuccess == [at |-> "none", ctx |-> None]

SuccessStates ==
    {NoSuccess} \cup [at : {"store", "own", "delete"}, ctx : Socks]

-----------------------------------------------------------------------------
(***************************************************************************)
(* A context is garbage, and its identity may be used again, when no map,  *)
(* no goroutine and no open channel refers to it.                          *)
(***************************************************************************)
FreePunch(p) ==
    /\ punch[p].chan \in {"none", "stopping", "closed", "refused"}
    /\ \A m \in Macs : punchSocks[m] # p
    /\ \A t \in Threads : pc[t].ctx # p

FreeSock(s) ==
    /\ sock[s].chan \in {"none", "closed", "refused"}
    /\ \A m \in Macs : p2pTrySocks[m] # s /\ p2pSocks[m] # s
    /\ \A t \in Threads : pc[t].ctx # s
    /\ success[s] = NoSuccess
    /\ \A r \in Socks : success[r].ctx # s
    /\ s \notin toRemove

Saturate(n, limit) == IF n < limit THEN n + 1 ELSE limit

\* Bootstrap.Stop, of one context and of each context of ctxs.
Stopped(c) == [c EXCEPT !.chan = CASE c.chan = "dialing" -> "aborted"
                                   [] c.chan = "open" -> "stopping"
                                   [] OTHER -> c.chan]

StopAll(ctxs, f) == [c \in DOMAIN f |->
    IF c \in ctxs THEN Stopped(f[c]) ELSE f[c]]

Entries(map, M) == {map[m] : m \in M} \ {None}

Without(map, M) == [m \in Macs |-> IF m \in M THEN None ELSE map[m]]

(***************************************************************************)
(* saveFailPunchInfo for each mac of M; P is the value of punch the caller *)
(* leaves.  FailedCount is a uint32 of which the code only tests whether   *)
(* it has reached FailLimit, so it saturates there.                        *)
(***************************************************************************)
saveFailPunchInfo(M, P) ==
    /\ failed' = [m \in Macs |->
                    IF m \in M THEN Saturate(failed[m], FailLimit)
                               ELSE failed[m]]
    /\ cooling' = [m \in Macs |-> m \in M \/ cooling[m]]
    /\ punch' = StopAll(Entries(punchSocks, M), P)
    /\ punchSocks' = Without(punchSocks, M)

-----------------------------------------------------------------------------
Init ==
    /\ running = TRUE
    /\ punchSocks = [m \in Macs |-> None]
    /\ p2pTrySocks = [m \in Macs |-> None]
    /\ p2pSocks = [m \in Macs |-> None]
    /\ failed = [m \in Macs |-> 0]
    /\ cooling = [m \in Macs |-> FALSE]
    /\ punch = [p \in Punches |-> [mac |-> None, chan |-> "none",
                  local |-> FALSE, expired |-> FALSE]]
    /\ sock = [s \in Socks |-> [mac |-> None, chan |-> "none",
                  tries |-> 0, pings |-> 0, heard |-> "never"]]
    /\ pc = [t \in Threads |-> Idle]
    /\ success = [s \in Socks |-> NoSuccess]
    /\ checker = "rangeP2P"
    /\ toRemove = {}
    /\ silentRounds = [s \in Socks |-> 0]

-----------------------------------------------------------------------------
(***************************************************************************)
(* Starting to punch.                                                      *)
(***************************************************************************)

\* SendP2PTrigger(m): an expired context is stopped and dropped; otherwise
\* the trigger is written, which changes nothing here.  P is the value of
\* punch the caller leaves.
SendP2PTrigger(m, P) ==
    LET dead == {p \in Entries(punchSocks, {m}) : P[p].expired}
    IN  /\ punch' = StopAll(dead, P)
        /\ punchSocks' = IF dead = {} THEN punchSocks
                                      ELSE Without(punchSocks, {m})

\* StartPunch(m, trigger) run by goroutine t.  A context that has not expired
\* makes it return (after a trigger message, if asked for): no state changes.
StartPunch(t, m) ==
    \/ /\ punchSocks[m] # None
       /\ punch[punchSocks[m]].expired
       /\ punch' = StopAll({punchSocks[m]}, punch)
       /\ punchSocks' = Without(punchSocks, {m})
       /\ UNCHANGED pc
    \/ /\ punchSocks[m] = None
       /\ pc' = [pc EXCEPT ![t] = At("store", m, None)]
       /\ UNCHANGED <<punch, punchSocks>>

\* isNeedP2P, for a mac that FindPeer knows (one it does not know changes
\* nothing, so those calls are left out).
isNeedP2P(m) ==
    /\ ~ (failed[m] > 0 /\ (failed[m] >= FailLimit \/ cooling[m]))
    /\ p2pTrySocks[m] = None

\* TryForwardMessage: with an entry in p2pSocks it writes to its Handler or
\* returns false, without one it may start punching.
TryForwardMessage(m) ==
    /\ running
    /\ pc[Tap] = Idle
    /\ p2pSocks[m] = None
    /\ isNeedP2P(m)
    /\ StartPunch(Tap, m)
    /\ UNCHANGED <<running, p2pTrySocks, p2pSocks, fails, sock, success,
                   checker, toRemove, silentRounds>>

\* newPunchSock up to Connect: the context is stored, replacing whatever
\* another goroutine stored since the test of StartPunch.
newPunchSock(t) ==
    /\ pc[t].at = "store"
    /\ \E p \in {q \in Punches : FreePunch(q)} :
          /\ punch' = [punch EXCEPT ![p] = NewPunchCtx(pc[t].mac)]
          /\ punchSocks' = [punchSocks EXCEPT ![pc[t].mac] = p]
          /\ pc' = [pc EXCEPT ![t] = At("dialPunch", pc[t].mac, p)]
    /\ UNCHANGED <<running, p2pTrySocks, p2pSocks, fails, sock, success,
                   checker, toRemove, silentRounds>>

\* Connect succeeds, unless the bootstrap was stopped meanwhile: HandleActive
\* runs in this goroutine and sends the trigger for the mac.
PunchActive(t) ==
    /\ pc[t].at = "dialPunch"
    /\ punch[pc[t].ctx].chan = "dialing"
    /\ SendP2PTrigger(pc[t].mac, [punch EXCEPT ![pc[t].ctx].chan = "open"])
    /\ pc' = [pc EXCEPT ![t] = At("bind", pc[t].mac, pc[t].ctx)]
    /\ UNCHANGED <<running, p2pTrySocks, p2pSocks, fails, sock, success,
                   checker, toRemove, silentRounds>>

\* A plausible slip: the failed dial is counted but its entry is kept.
PunchRefusedKeepsEntry(t) ==
    /\ pc[t].at = "dialPunch"
    /\ punch' = [punch EXCEPT ![pc[t].ctx].chan = "refused"]
    /\ failed' = [failed EXCEPT ![pc[t].mac] = Saturate(@, FailLimit)]
    /\ cooling' = [cooling EXCEPT ![pc[t].mac] = TRUE]
    /\ pc' = [pc EXCEPT ![t] = Idle]
    /\ UNCHANGED <<running, maps, sock, success, checker, toRemove,
                   silentRounds>>

\* Connect fails.
PunchRefused(t) ==
    /\ pc[t].at = "dialPunch"
    /\ saveFailPunchInfo({pc[t].mac},
                         [punch EXCEPT ![pc[t].ctx].chan = "refused"])
    /\ pc' = [pc EXCEPT ![t] = Idle]
    /\ UNCHANGED <<running, p2pTrySocks, p2pSocks, sock, success, checker,
                   toRemove, silentRounds>>

\* newPunchSock after Connect: LocalSock is set if the address parses.  The
\* read loop of the channel is already running.
PunchBound(t) ==
    /\ pc[t].at = "bind"
    /\ \E parsed \in BOOLEAN :
          punch' = [punch EXCEPT ![pc[t].ctx].local = parsed]
    /\ pc' = [pc EXCEPT ![t] = Idle]
    /\ UNCHANGED <<running, maps, fails, sock, success, checker, toRemove,
                   silentRounds>>

-----------------------------------------------------------------------------
(***************************************************************************)
(* Messages of the server, read by one of the Readers.                     *)
(***************************************************************************)
ProcessP2PTrigger(t, m) ==
    /\ pc[t] = Idle
    /\ p2pTrySocks[m] = None
    /\ p2pSocks[m] = None
    /\ StartPunch(t, m)
    /\ UNCHANGED <<running, p2pTrySocks, p2pSocks, fails, sock, success,
                   checker, toRemove, silentRounds>>

\* ProcessP2PAck with Valid = false.
ProcessP2PAckInvalid(t, m) ==
    /\ pc[t] = Idle
    /\ saveFailPunchInfo({m}, punch)
    /\ UNCHANGED <<running, p2pTrySocks, p2pSocks, sock, pc, success, checker,
                   toRemove, silentRounds>>

\* ProcessP2PAck with the external address of the peer, up to Connect.
ProcessP2PAck(t, m) ==
    /\ pc[t] = Idle
    /\ punchSocks[m] # None
    /\ punch[punchSocks[m]].local
    /\ \E s \in {c \in Socks : FreeSock(c)} :
          /\ sock' = [sock EXCEPT ![s] = NewPeerCtx(m)]
          /\ silentRounds' = [silentRounds EXCEPT ![s] = 0]
          /\ p2pTrySocks' = [p2pTrySocks EXCEPT ![m] = s]
          /\ pc' = [pc EXCEPT ![t] = At("dialPeer", m, s)]
    /\ UNCHANGED <<running, punchSocks, p2pSocks, fails, punch, success,
                   checker, toRemove>>

\* Connect succeeds: DataHandler.HandleActive sets Handler and writes a ping.
PeerActive(t) ==
    /\ pc[t].at = "dialPeer"
    /\ sock[pc[t].ctx].chan = "dialing"
    /\ sock' = [sock EXCEPT ![pc[t].ctx].chan = "open"]
    /\ pc' = [pc EXCEPT ![t] = Idle]
    /\ UNCHANGED <<running, maps, fails, punch, success, checker, toRemove,
                   silentRounds>>

\* A plausible slip: the failed dial returns without the Delete.
PeerRefusedNoDelete(t) ==
    /\ pc[t].at = "dialPeer"
    /\ sock' = [sock EXCEPT ![pc[t].ctx].chan = "refused"]
    /\ pc' = [pc EXCEPT ![t] = Idle]
    /\ UNCHANGED <<running, maps, fails, punch, success, checker, toRemove,
                   silentRounds>>

\* Connect fails: the entry of the mac is deleted, whichever context it holds.
PeerRefused(t) ==
    /\ pc[t].at = "dialPeer"
    /\ sock' = [sock EXCEPT ![pc[t].ctx].chan = "refused"]
    /\ p2pTrySocks' = Without(p2pTrySocks, {pc[t].mac})
    /\ pc' = [pc EXCEPT ![t] = Idle]
    /\ UNCHANGED <<running, punchSocks, p2pSocks, fails, punch, success,
                   checker, toRemove, silentRounds>>

\* PeerStateChanged: the peer went on or off line.
PeerStateChanged(t, m) ==
    /\ pc[t] = Idle
    /\ failed' = [failed EXCEPT ![m] = 0]
    /\ cooling' = [cooling EXCEPT ![m] = FALSE]
    /\ sock' = StopAll(Entries(p2pTrySocks, {m}) \cup Entries(p2pSocks, {m}),
                       sock)
    /\ p2pTrySocks' = Without(p2pTrySocks, {m})
    /\ p2pSocks' = Without(p2pSocks, {m})
    /\ UNCHANGED <<running, punchSocks, punch, pc, success, checker, toRemove,
                   silentRounds>>

\* ResetP2PSocks, called for every successful AuthAck: the punch contexts are
\* forgotten without being stopped.
ResetP2PSocks(t) ==
    /\ pc[t] = Idle
    /\ punchSocks' = Without(punchSocks, Macs)
    /\ failed' = [m \in Macs |-> 0]
    /\ cooling' = [m \in Macs |-> FALSE]
    /\ sock' = StopAll(Entries(p2pTrySocks, Macs) \cup Entries(p2pSocks, Macs),
                       sock)
    /\ p2pTrySocks' = Without(p2pTrySocks, Macs)
    /\ p2pSocks' = Without(p2pSocks, Macs)
    /\ UNCHANGED <<running, punch, pc, success, checker, toRemove,
                   silentRounds>>

-----------------------------------------------------------------------------
(***************************************************************************)
(* The channels.                                                           *)
(***************************************************************************)

\* HandleRead on context s: LastReceive is now and PingTryCount is reset.  The
\* reset races with the increment of the idle timer and may be lost.
Heard(s, pings) == [sock[s] EXCEPT !.heard = "fresh", !.pings = pings]

AfterRead(s) == {0, Saturate(sock[s].pings, PingLimit)}

\* A data, ping or pong frame.
PeerRead(s) ==
    /\ sock[s].chan \in {"open", "stopping"}
    /\ success[s] = NoSuccess
    /\ \E n \in AfterRead(s) : sock' = [sock EXCEPT ![s] = Heard(s, n)]
    /\ silentRounds' = [silentRounds EXCEPT ![s] = 0]
    /\ UNCHANGED <<running, maps, fails, punch, pc, success, checker,
                   toRemove>>

\* A P2PTry frame, which carries the mac m of the peer, up to the Load of
\* P2PSuccess.
PeerReadTry(s) ==
    /\ sock[s].chan \in {"open", "stopping"}
    /\ success[s] = NoSuccess
    /\ \E n \in AfterRead(s) : sock' = [sock EXCEPT ![s] = Heard(s, n)]
    /\ silentRounds' = [silentRounds EXCEPT ![s] = 0]
    /\ \E m \in Macs :
          /\ m = sock[s].mac
          /\ success' = [success EXCEPT ![s] =
                IF p2pTrySocks[m] # None
                THEN [at |-> "store", ctx |-> p2pTrySocks[m]]
                ELSE [at |-> "own", ctx |-> s]]
    /\ UNCHANGED <<running, maps, fails, punch, pc, checker, toRemove>>

\* The Store of the context that was being tried when it was looked up,
\* stopped or deleted since or not.
P2PSuccessStore(s) ==
    /\ success[s].at = "store"
    /\ p2pSocks' = [p2pSocks EXCEPT ![sock[s].mac] = success[s].ctx]
    /\ success' = [success EXCEPT ![s].at = "delete"]
    /\ UNCHANGED <<running, punchSocks, p2pTrySocks, fails, punch, sock, pc,
                   checker, toRemove, silentRounds>>

\* The Store of the context the frame was read from, even if its bootstrap
\* has been stopped.
P2PSuccessOwn(s) ==
    /\ success[s].at = "own"
    /\ p2pSocks' = [p2pSocks EXCEPT ![sock[s].mac] = s]
    /\ success' = [success EXCEPT ![s] = NoSuccess]
    /\ UNCHANGED <<running, punchSocks, p2pTrySocks, fails, punch, sock, pc,
                   checker, toRemove, silentRounds>>

\* The write to a promoted context that is still dialing dereferences its nil
\* Handler: the read loop of s recovers and closes its channel.
Panics(s) == ~ HandlerSet(sock[success[s].ctx])

\* A plausible slip: the try frame is written before the entry is deleted.
P2PSuccessWritesFirst(s) ==
    /\ success[s].at = "delete"
    /\ p2pTrySocks' = IF Panics(s) THEN p2pTrySocks
                      ELSE Without(p2pTrySocks, {sock[s].mac})
    /\ sock' = IF Panics(s) THEN [sock EXCEPT ![s].chan = "closed"] ELSE sock
    /\ success' = [success EXCEPT ![s] = NoSuccess]
    /\ UNCHANGED <<running, punchSocks, p2pSocks, fails, punch, pc, checker,
                   toRemove, silentRounds>>

\* The Delete, by mac, of whatever context is being tried by now, and the try
\* frame written to the promoted one.
P2PSuccessDelete(s) ==
    /\ success[s].at = "delete"
    /\ p2pTrySocks' = Without(p2pTrySocks, {sock[s].mac})
    /\ sock' = IF Panics(s) THEN [sock EXCEPT ![s].chan = "closed"] ELSE sock
    /\ success' = [success EXCEPT ![s] = NoSuccess]
    /\ UNCHANGED <<running, punchSocks, p2pSocks, fails, punch, pc, checker,
                   toRemove, silentRounds>>

\* ReadIdleEvent of context s: PingTryCount++ and a ping.
ReadIdle(s) ==
    /\ sock[s].chan \in {"open", "stopping"}
    /\ sock' = [sock EXCEPT ![s].pings = Saturate(@, PingLimit)]
    /\ UNCHANGED <<running, maps, fails, punch, pc, success, checker,
                   toRemove, silentRounds>>

\* The channel closes: its context was cancelled, or a read or a write failed.
\* For a punch context a cancelled channel and a closed one are the same to
\* the service.
SockClosed(s) ==
    /\ sock[s].chan \in {"open", "stopping"}
    /\ sock' = [sock EXCEPT ![s].chan = "closed"]
    /\ UNCHANGED <<running, maps, fails, punch, pc, success, checker,
                   toRemove, silentRounds>>

PunchClosed(p) ==
    /\ punch[p].chan = "open"
    /\ punch' = [punch EXCEPT ![p].chan = "stopping"]
    /\ UNCHANGED <<running, maps, fails, sock, pc, success, checker, toRemove,
                   silentRounds>>

-----------------------------------------------------------------------------
(***************************************************************************)
(* stateCheck, one pass every three seconds.  In the select ("rangeP2P") a *)
(* tick may still win over the cancellation of Stop.                       *)
(***************************************************************************)

\* uint32(now - LastReceive) > Heartbeat+2.  `now` is read before the Range:
\* for a context that hears something in the next second the difference is
\* -1, which wraps to the largest uint32.  late is the set of those.
Silent(s, late) == sock[s].heard # "fresh" \/ s \in late

\* A plausible slip: the ping of the sweep is not counted.
RangeP2PNoCount ==
    /\ checker = "rangeP2P"
    /\ \E late \in SUBSET {s \in Socks : sock[s].heard = "fresh"} :
         LET silent == {s \in Entries(p2pSocks, Macs) : Silent(s, late)}
             dead == {s \in silent : \/ sock[s].pings >= PingLimit
                                     \/ ~ HandlerSet(sock[s])}
         IN  /\ toRemove' = dead
             /\ sock' = StopAll(dead, sock)
             /\ silentRounds' = [s \in Socks |->
                   IF s \in silent \ dead /\ sock[s].heard # "fresh"
                   THEN silentRounds[s] + 1 ELSE silentRounds[s]]
    /\ checker' = "deleteP2P"
    /\ UNCHANGED <<running, maps, fails, punch, pc, success>>

RangeP2P ==
    /\ checker = "rangeP2P"
    /\ \E late \in SUBSET {s \in Socks : sock[s].heard = "fresh"} :
         LET silent == {s \in Entries(p2pSocks, Macs) : Silent(s, late)}
             dead == {s \in silent : \/ sock[s].pings >= PingLimit
                                     \/ ~ HandlerSet(sock[s])}
         IN  /\ toRemove' = dead
             /\ sock' = [s \in Socks |->
                   IF s \in dead THEN Stopped(sock[s])
                   ELSE IF s \in silent THEN [sock[s] EXCEPT !.pings = @ + 1]
                   ELSE sock[s]]
             /\ silentRounds' = [s \in Socks |->
                   IF s \in silent \ dead /\ sock[s].heard # "fresh"
                   THEN silentRounds[s] + 1 ELSE silentRounds[s]]
    /\ checker' = "deleteP2P"
    /\ UNCHANGED <<running, maps, fails, punch, pc, success>>

\* A plausible slip: the dead contexts are stopped but their entries stay.
DeleteP2PKeepsEntries ==
    /\ checker = "deleteP2P"
    /\ toRemove' = {}
    /\ checker' = "rangeTry"
    /\ UNCHANGED <<running, maps, fails, punch, sock, pc, success,
                   silentRounds>>

\* The entries are deleted by mac, whichever context they hold by now.
DeleteP2P ==
    /\ checker = "deleteP2P"
    /\ p2pSocks' = Without(p2pSocks, {sock[s].mac : s \in toRemove})
    /\ toRemove' = {}
    /\ checker' = "rangeTry"
    /\ UNCHANGED <<running, punchSocks, p2pTrySocks, fails, punch, sock, pc,
                   success, silentRounds>>

\* SendP2PTry counts the try in the context; a context whose Handler is not
\* set loses its entry.
SendP2PTry(s) == [sock[s] EXCEPT !.tries = @ + 1]

\* A plausible slip: SendP2PTry does not count its tries.
RangeTryNoCount ==
    /\ checker = "rangeTry"
    /\ LET tried == Entries(p2pTrySocks, Macs)
           spent == {s \in tried : sock[s].tries >= P2pTryCount}
       IN  /\ toRemove' = spent
           /\ sock' = StopAll(spent, sock)
           /\ p2pTrySocks' = Without(p2pTrySocks, {m \in Macs :
                 /\ p2pTrySocks[m] \in tried \ spent
                 /\ ~ HandlerSet(sock[p2pTrySocks[m]])})
    /\ checker' = "deleteTry"
    /\ UNCHANGED <<running, punchSocks, p2pSocks, fails, punch, pc, success,
                   silentRounds>>

\* Contexts out of tries are stopped, the others tried again or forgotten.
RangeTry ==
    /\ checker = "rangeTry"
    /\ LET tried == Entries(p2pTrySocks, Macs)
           spent == {s \in tried : sock[s].tries >= P2pTryCount}
       IN  /\ toRemove' = spent
           /\ sock' = [s \in Socks |->
                 IF s \in spent THEN Stopped(sock[s])
                 ELSE IF s \in tried THEN SendP2PTry(s)
                 ELSE sock[s]]
           /\ p2pTrySocks' = Without(p2pTrySocks, {m \in Macs :
                 /\ p2pTrySocks[m] \in tried \ spent
                 /\ ~ HandlerSet(sock[p2pTrySocks[m]])})
    /\ checker' = "deleteTry"
    /\ UNCHANGED <<running, punchSocks, p2pSocks, fails, punch, pc, success,
                   silentRounds>>

DeleteTry ==
    /\ checker = "deleteTry"
    /\ LET M == {sock[s].mac : s \in toRemove}
       IN  /\ saveFailPunchInfo(M, punch)
           /\ p2pTrySocks' = Without(p2pTrySocks, M)
    /\ toRemove' = {}
    /\ checker' = IF running THEN "rangeP2P" ELSE "leaving"
    /\ UNCHANGED <<running, p2pSocks, sock, pc, success, silentRounds>>

\* Stop: running is cleared and the context cancelled.
Stop ==
    /\ running
    /\ running' = FALSE
    /\ UNCHANGED <<maps, fails, punch, sock, pc, success, checker, toRemove,
                   silentRounds>>

\* stopP2pSockets and the end of stateCheck, after the select has seen the
\* cancellation or the loop has seen running cleared.  The type switch of the first
\* loop names model.PunchSockContext where the map holds pointers, so no punch
\* context is stopped; nor is punchSocks cleared.
stopP2pSockets ==
    /\ ~ running
    /\ checker \in {"rangeP2P", "leaving"}
    /\ sock' = StopAll(Entries(p2pSocks, Macs) \cup Entries(p2pTrySocks, Macs),
                       sock)
    /\ p2pSocks' = Without(p2pSocks, Macs)
    /\ p2pTrySocks' = Without(p2pTrySocks, Macs)
    /\ checker' = "exited"
    /\ UNCHANGED <<running, punchSocks, fails, punch, pc, success, toRemove,
                   silentRounds>>

\* Start, when Restart runs it again: more than a second after Stop, so the
\* old stateCheck has left.  The maps are new, whatever the old ones held.
Start ==
    /\ ~ running
    /\ checker = "exited"
    /\ running' = TRUE
    /\ punchSocks' = Without(punchSocks, Macs)
    /\ p2pTrySocks' = Without(p2pTrySocks, Macs)
    /\ p2pSocks' = Without(p2pSocks, Macs)
    /\ failed' = [m \in Macs |-> 0]
    /\ cooling' = [m \in Macs |-> FALSE]
    /\ checker' = "rangeP2P"
    /\ UNCHANGED <<punch, sock, pc, success, toRemove, silentRounds>>

-----------------------------------------------------------------------------
(***************************************************************************)
(* Time, as far as a context in one of the maps, or about to be, shows it. *)
(***************************************************************************)
GoSilent(s) ==   \* more than Heartbeat+2 seconds since LastReceive
    /\ \/ s \in Entries(p2pTrySocks, Macs) \cup Entries(p2pSocks, Macs)
       \/ \E r \in Socks : success[r].ctx = s
    /\ sock[s].heard = "fresh"
    /\ sock' = [sock EXCEPT ![s].heard = "stale"]
    /\ UNCHANGED <<running, maps, fails, punch, pc, success, checker,
                   toRemove, silentRounds>>

Expire(p) ==     \* p2pFailedTime seconds since StartTime
    /\ p \in Entries(punchSocks, Macs)
    /\ ~ punch[p].expired
    /\ punch' = [punch EXCEPT ![p].expired = TRUE]
    /\ UNCHANGED <<running, maps, fails, sock, pc, success, checker, toRemove,
                   silentRounds>>

CoolDown(m) ==   \* P2pRetryInterval seconds since FailedTime
    /\ cooling[m]
    /\ cooling' = [cooling EXCEPT ![m] = FALSE]
    /\ UNCHANGED <<running, maps, failed, punch, sock, pc, success, checker,
                   toRemove, silentRounds>>

-----------------------------------------------------------------------------
Dialing(t) ==
    \/ newPunchSock(t) \/ PunchActive(t) \/ PunchRefused(t) \/ PunchBound(t)
    \/ PeerActive(t) \/ PeerRefused(t)

ServerMessage(t) ==
    \/ \E m \in Macs : \/ ProcessP2PTrigger(t, m)
                       \/ ProcessP2PAckInvalid(t, m)
                       \/ ProcessP2PAck(t, m)
                       \/ PeerStateChanged(t, m)
    \/ ResetP2PSocks(t)

P2PSuccess(s) ==
    P2PSuccessStore(s) \/ P2PSuccessOwn(s) \/ P2PSuccessDelete(s)

stateCheck == RangeP2P \/ DeleteP2P \/ RangeTry \/ DeleteTry \/ stopP2pSockets

Next ==
    \/ \E m \in Macs : TryForwardMessage(m) \/ CoolDown(m)
    \/ \E t \in Threads : Dialing(t)
    \/ \E t \in Readers : ServerMessage(t)
    \/ \E s \in Socks : \/ PeerRead(s) \/ PeerReadTry(s) \/ ReadIdle(s)
                        \/ SockClosed(s) \/ GoSilent(s) \/ P2PSuccess(s)
    \/ \E p \in Punches : PunchClosed(p) \/ Expire(p)
    \/ stateCheck
    \/ Stop
    \/ Start

Spec == Init /\ [][Next]_vars

\* The ticker goroutine keeps running and time passes.  Nothing is assumed of
\* the network, of the other goroutines or of Stop.
Fairness == WF_vars(stateCheck) /\ \A s \in Socks : WF_vars(GoSilent(s))

FairSpec == Spec /\ Fairness

-----------------------------------------------------------------------------
(***************************************************************************)
(* Properties.                                                             *)
(***************************************************************************)

\* The variables keep their types; in particular stateCheck never sends more
\* than P2pTryCount tries on a context (p2p_service.go:112) and PingTryCount
\* of a context that is not evicted stays within its limit (86).
TypeOK ==
    /\ running \in BOOLEAN
    /\ punchSocks \in [Macs -> Punches \cup {None}]
    /\ p2pTrySocks \in [Macs -> Socks \cup {None}]
    /\ p2pSocks \in [Macs -> Socks \cup {None}]
    /\ failed \in [Macs -> 0..FailLimit]
    /\ cooling \in [Macs -> BOOLEAN]
    /\ punch \in [Punches -> PunchCtx]
    /\ sock \in [Socks -> PeerCtx]
    /\ pc \in [Threads -> PcStates]
    /\ success \in [Socks -> SuccessStates]
    /\ checker \in {"rangeP2P", "deleteP2P", "rangeTry", "deleteTry",
                   "leaving", "exited"}
    /\ toRemove \in SUBSET Socks
    /\ silentRounds \in [Socks -> Nat]

\* A map entry holds a context made for its mac, and a context is at once
\* being tried and established only while the read loop that promotes it is
\* between the Store and the Delete of P2PSuccess (p2p_service.go:377-378):
\* whatever the order of acknowledgements, try frames of several sockets,
\* sweeps, resets and panics, no established context is left for the sweep of
\* p2pTrySocks to count against P2pTryCount and stop.
EntriesNamed ==
    /\ \A m \in Macs : p2pTrySocks[m] # None => sock[p2pTrySocks[m]].mac = m
    /\ \A m \in Macs : p2pSocks[m] # None => sock[p2pSocks[m]].mac = m

SharedInPromotion ==
    \A m, n \in Macs :
        p2pTrySocks[m] # None /\ p2pTrySocks[m] = p2pSocks[n] =>
            \E s \in Socks : success[s] = [at |-> "delete", ctx |-> p2pTrySocks[m]]

ContextsSeparate == EntriesNamed /\ SharedInPromotion

\* A context whose dial failed is never left in p2pTrySocks, where it would
\* keep isNeedP2P from punching again: an entry without a Handler is one that
\* some goroutine is dialing at this moment, also when several
\* acknowledgements for one mac are processed at once.
TryIsDialedOrOpen ==
    \A m \in Macs : p2pTrySocks[m] # None =>
        LET s == p2pTrySocks[m] IN
            \/ HandlerSet(sock[s])
            \/ \E t \in Readers : pc[t].at = "dialPeer" /\ pc[t].ctx = s

\* The same of punchSocks, where a dead entry would keep StartPunch from
\* making a new context until it expires: an entry was made for its mac, and
\* its channel was opened or some goroutine is dialing it at this moment and
\* nothing has stopped it, although dials fail, contexts expire and peers are
\* given up by mac while several goroutines punch towards one peer.
PunchIsDialedOrOpen ==
    \A m \in Macs : punchSocks[m] # None =>
        LET p == punchSocks[m] IN
            /\ punch[p].mac = m
            /\ \/ HandlerSet(punch[p])
               \/ /\ punch[p].chan = "dialing"
                  /\ \E t \in Threads : pc[t] = At("dialPunch", m, p)

\* At most PingLimit sweeps in a row find a context silent and leave it in
\* p2pSocks, so traffic for a peer that has vanished is given to a dead socket
\* for a bounded number of rounds (PingTryCount, p2p_service.go:85-95), in
\* spite of the lost resets and of contexts that are stopped and re-inserted.
SilenceBounded == \A s \in Socks : silentRounds[s] <= PingLimit

\* The inductive invariant behind them: a goroutine dials a context for
\* the mac it was given, and each sweep that leaves a silent context in place
\* has raised its PingTryCount.
DialersKnown ==
    \A t \in Threads : pc[t].at = "dialPeer" =>
        t \in Readers /\ sock[pc[t].ctx].mac = pc[t].mac

RoundsCounted == \A s \in Socks : silentRounds[s] <= sock[s].pings

\* What P2PSuccess has loaded is a context of the mac of its read loop, and a
\* context about to establish itself is not being tried.
SuccessKnown ==
    \A s \in Socks : success[s].at # "none" =>
        /\ sock[success[s].ctx].mac = sock[s].mac
        /\ success[s].at = "own" => \A m \in Macs : p2pTrySocks[m] # s

ServiceInv ==
    /\ ContextsSeparate /\ SuccessKnown
    /\ TryIsDialedOrOpen /\ DialersKnown /\ RoundsCounted

PunchersKnown ==
    \A t \in Threads : pc[t].at = "dialPunch" =>
        punch[pc[t].ctx].mac = pc[t].mac

RemovedKnown == \A s \in toRemove : sock[s].mac \in Macs

PunchInv == PunchIsDialedOrOpen /\ PunchersKnown /\ RemovedKnown

\* While the service runs, a context does not stay in p2pTrySocks for ever:
\* it is established, replaced, dropped or given up after P2pTryCount tries.
TryResolved ==
    \A m \in Macs, s \in Socks :
        (running /\ p2pTrySocks[m] = s) ~> (~ running \/ p2pTrySocks[m] # s)

\* While the service runs, an entry of p2pSocks whose channel is closed, or
\* whose dial failed after it was promoted, does not stay there: frames for
\* the peer go back to the server relay.
DeadLinkEvicted ==
    \A m \in Macs, s \in Socks :
        (running /\ p2pSocks[m] = s /\ sock[s].chan \in {"closed", "refused"})
            ~> (~ running \/ p2pSocks[m] # s)

=============================================================================
