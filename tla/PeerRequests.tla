---------------------------- MODULE PeerRequests ----------------------------
(***************************************************************************)
(* Requests of the user interface to another peer of the group, and the    *)
(* read loop of the server link that brings the answers: GetLinkInfos,     *)
(* which polls for the pages of an answer, and UpdateConfig, which waits   *)
(* on an unbuffered channel that ProcessConfigAck sends to.                *)
(*                                                                         *)
(* The maps are indexed by the other peer; here there is one.  Its answers *)
(* are ProcessPeerLinksRequest and ProcessConfig, run by the peer at the   *)
(* other end; a cookie is drawn from the clock of that peer, so answers of *)
(* the same second share it.  The link is UDP: what was sent once may      *)
(* arrive at any later time, more than once or never.                      *)
(***************************************************************************)
EXTENDS Naturals, Sequences

CONSTANTS
    Askers,       \* goroutines of the user interface
    Seconds,      \* bound: seconds of the other peer's clock
    LinkPages,    \* pages of an answer to a links request
    MaxStored,    \* bound: stored pages, which repeated frames add to
    MaxPolls,     \* bound: how often GetLinkInfos looks, 15 in the code
    MaxCalls      \* bound: how many calls are made

ASSUME ReqAssumption ==
    /\ MaxPolls \in Nat \ {0} /\ MaxCalls \in Nat /\ LinkPages \in Nat /\ MaxStored \in Nat
    /\ 0 \notin Seconds

VARIABLES
    reqUp, reqDown,   \* what was sent to the other peer, and by it
    linkInfos,        \* RuntimeService.linkInfos: the stored pages
    linkCookie,       \* linkInfoReqCookie
    configSend,       \* the registered channel, by the number of its call, or 0
    readLoop,         \* the channel ProcessConfigAck is sending to, or 0
    calls,            \* the calls of the user interface
    made              \* how many there were

reqVars == <<reqUp, reqDown, linkInfos, linkCookie, configSend, readLoop, calls, made>>

\* polls: before the next look at linkInfos; reads: before the one it returns;
\* written: before configSend is set; waiting: in the select; got and expired:
\* past it.
CallSteps == {"idle", "polls", "reads", "written", "waiting", "got", "expired"}

NotCalling == [at |-> "idle", polls |-> 0, last |-> 0, chan |-> 0, result |-> <<>>]

LinkPage(c, i) == [kind |-> "links", cookie |-> c, page |-> i]
ConfigAck == [kind |-> "configAck"]
ReqFrames == [kind : {"links"}, cookie : Seconds, page : 1..LinkPages] \cup {ConfigAck}

ReqInit ==
    /\ reqUp = {} /\ reqDown = {}
    /\ linkInfos = <<>> /\ linkCookie = 0
    /\ configSend = 0 /\ readLoop = 0
    /\ calls = [c \in Askers |-> NotCalling]
    /\ made = 0

-----------------------------------------------------------------------------
(***************************************************************************)
(* The user interface.                                                     *)
(***************************************************************************)
ReqCall(c) ==
    /\ calls[c].at = "idle" /\ made < MaxCalls
    /\ made' = made + 1
    /\ UNCHANGED <<reqDown, linkCookie, configSend, readLoop>>

\* GetLinkInfos forgets the pages, not the cookie, and asks, if it is connected.
ReqLinks(c) ==
    /\ ReqCall(c)
    /\ linkInfos' = <<>>
    /\ \/ /\ reqUp' = reqUp \cup {"links"}
          /\ calls' = [calls EXCEPT ![c] = [NotCalling EXCEPT !.at = "polls"]]
       \/ UNCHANGED reqUp /\ calls' = [calls EXCEPT ![c] = NotCalling]

\* A look every 100 ms, without the lock: two equal lengths in a row end the wait.
ReqPoll(c) ==
    /\ calls[c].at = "polls"
    /\ LET n == Len(linkInfos)
           r == calls[c]
       IN calls' = [calls EXCEPT ![c] =
            IF n > 0 /\ n = r.last THEN [r EXCEPT !.at = "reads"]
            ELSE IF r.polls + 1 = MaxPolls THEN NotCalling
            ELSE [r EXCEPT !.polls = r.polls + 1, !.last = IF n > 0 THEN n ELSE r.last]]
    /\ UNCHANGED <<reqUp, reqDown, linkInfos, linkCookie, configSend, readLoop, made>>

\* The list is looked up once more, and may have changed.
ReqReturn(c) ==
    /\ calls[c].at = "reads"
    /\ calls' = [calls EXCEPT ![c] = [NotCalling EXCEPT !.result = linkInfos]]
    /\ UNCHANGED <<reqUp, reqDown, linkInfos, linkCookie, configSend, readLoop, made>>

\* UpdateConfig writes the request, and only then registers its channel.
ReqConfig(c) ==
    /\ ReqCall(c)
    /\ reqUp' = reqUp \cup {"config"}
    /\ calls' = [calls EXCEPT ![c] = [NotCalling EXCEPT !.at = "written",
                                                                !.chan = made']]
    /\ UNCHANGED linkInfos

ReqRegister(c) ==
    /\ calls[c].at = "written"
    /\ configSend' = calls[c].chan
    /\ calls' = [calls EXCEPT ![c].at = "waiting"]
    /\ UNCHANGED <<reqUp, reqDown, linkInfos, linkCookie, readLoop, made>>

\* The rendezvous of the channel.
ReqReceive(c) ==
    /\ calls[c].at = "waiting" /\ readLoop = calls[c].chan
    /\ readLoop' = 0
    /\ calls' = [calls EXCEPT ![c].at = "got"]
    /\ UNCHANGED <<reqUp, reqDown, linkInfos, linkCookie, configSend, made>>

\* A plausible slip: the wait has no timeout once the request was sent.
ReqExpireNever(c) ==
    /\ calls[c].at = "waiting" /\ configSend # calls[c].chan
    /\ calls' = [calls EXCEPT ![c].at = "expired"]
    /\ UNCHANGED <<reqUp, reqDown, linkInfos, linkCookie, configSend, readLoop, made>>

ReqExpire(c) ==
    /\ calls[c].at = "waiting"
    /\ calls' = [calls EXCEPT ![c].at = "expired"]
    /\ UNCHANGED <<reqUp, reqDown, linkInfos, linkCookie, configSend, readLoop, made>>

\* A plausible slip: a call that expired leaves its entry.
ReqForgetAnswered(c) ==
    /\ calls[c].at \in {"got", "expired"}
    /\ configSend' = IF calls[c].at = "got" THEN 0 ELSE configSend
    /\ calls' = [calls EXCEPT ![c] = NotCalling]
    /\ UNCHANGED <<reqUp, reqDown, linkInfos, linkCookie, readLoop, made>>

\* The entry of the peer is deleted, even when a later call has replaced it.
ReqForget(c) ==
    /\ calls[c].at \in {"got", "expired"}
    /\ configSend' = 0
    /\ calls' = [calls EXCEPT ![c] = NotCalling]
    /\ UNCHANGED <<reqUp, reqDown, linkInfos, linkCookie, readLoop, made>>

-----------------------------------------------------------------------------
(***************************************************************************)
(* The other peer, the network and the read loop.                          *)
(***************************************************************************)

\* ProcessPeerLinksRequest and ProcessConfig.  Its clock may not have moved.
ReqAnswer(m) ==
    /\ m \in reqUp
    /\ \/ /\ m = "links"
          /\ \E s \in Seconds : reqDown' = reqDown \cup {LinkPage(s, i) : i \in 1..LinkPages}
       \/ /\ m = "config"
          /\ reqDown' = reqDown \cup {ConfigAck}
    /\ UNCHANGED <<reqUp, linkInfos, linkCookie, configSend, readLoop, calls, made>>

\* A plausible slip: pages are appended whatever answer they belong to.
PeerLinksAppended(m) ==
    /\ linkCookie' = m.cookie
    /\ linkInfos' = Append(linkInfos, m)

\* ProcessPeerLinksResponse: a new cookie replaces what is stored.
PeerLinksResponse(m) ==
    /\ linkCookie' = m.cookie
    /\ linkInfos' = IF linkCookie # m.cookie THEN <<m>> ELSE Append(linkInfos, m)

\* ProcessConfigAck blocks the read loop until the channel is received from.
ReqRead(m) ==
    /\ m \in reqDown /\ readLoop = 0
    /\ \/ /\ m.kind = "links" /\ Len(linkInfos) < MaxStored
          /\ PeerLinksResponse(m)
          /\ UNCHANGED readLoop
       \/ /\ m.kind = "configAck"
          /\ readLoop' = configSend
          /\ UNCHANGED <<linkInfos, linkCookie>>
    /\ UNCHANGED <<reqUp, reqDown, configSend, calls, made>>

ReqStep(c) ==
    \/ ReqPoll(c) \/ ReqReturn(c) \/ ReqRegister(c) \/ ReqReceive(c) \/ ReqExpire(c) \/ ReqForget(c)

ReqNext ==
    \/ \E c \in Askers : ReqLinks(c) \/ ReqConfig(c) \/ ReqStep(c)
    \/ \E m \in reqUp : ReqAnswer(m)
    \/ \E m \in reqDown : ReqRead(m)

ReqSpec == ReqInit /\ [][ReqNext]_reqVars

-----------------------------------------------------------------------------
(***************************************************************************)
(* Properties.                                                             *)
(***************************************************************************)

\* The type invariant: the frames, the maps and the calls keep their types, and
\* GetLinkInfos never looks more than MaxPolls times.
ReqTypeOK ==
    /\ reqUp \subseteq {"links", "config"} /\ reqDown \subseteq ReqFrames
    /\ linkInfos \in Seq(ReqFrames) /\ linkCookie \in Seconds \cup {0}
    /\ configSend \in 0..MaxCalls /\ readLoop \in 0..MaxCalls
    /\ calls \in [Askers -> [at : CallSteps, polls : 0..(MaxPolls - 1), last : Nat,
                             chan : 0..MaxCalls, result : Seq(ReqFrames)]]
    /\ made \in 0..MaxCalls

OfOneSecond(pages) == \A i, j \in 1..Len(pages) : pages[i].cookie = pages[j].cookie

\* Pages are mixed only if their answers were drawn in the same second of the
\* other peer's clock, which seeds the cookie: what is stored is of the noted
\* second, and so is a list the user has been given, although the poll takes no
\* lock and pages of an earlier answer may arrive late or again.
LinksOfOneSecond ==
    /\ \A i \in 1..Len(linkInfos) : linkInfos[i].cookie = linkCookie
    /\ \A c \in Askers : OfOneSecond(calls[c].result)

\* No entry of configSend outlives its call, although calls to the same peer
\* overwrite and delete each other's: an acknowledgement that comes later than
\* the return of UpdateConfig finds nobody to send to.
NoStaleChannel ==
    configSend # 0 => \E c \in Askers :
       calls[c].chan = configSend /\ calls[c].at \in {"waiting", "got", "expired"}

\* Every call returns, whatever is lost, also when the read loop hangs in the
\* channel of a call that has expired.
CallsReturn == \A c \in Askers : []<>(calls[c].at = "idle")

=============================================================================
