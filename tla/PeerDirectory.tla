--------------------------- MODULE PeerDirectory ---------------------------
(***************************************************************************)
(* The directory of the group: RuntimeService.groupPeers, which the server *)
(* fills page by page and changes peer by peer, and what the user          *)
(* interface is shown of it.                                               *)
(*                                                                         *)
(* The read loop of the server link stores pages and changes.  A request   *)
(* empties the directory first, from a goroutine of the user interface or  *)
(* from the read loop itself (an AuthAck); ClearMap collects the keys and  *)
(* deletes them one by one, beside the read loop.  The link is UDP: frames *)
(* arrive in any order, more than once or never.                           *)
(***************************************************************************)
EXTENDS Naturals, FiniteSets

CONSTANTS
    Peers,        \* peers of the group
    Cookies,      \* bound: answers that are told apart at the same time
    MaxFrames,    \* bound: requests on the way, and frames on the way when one is added
    MaxChanges    \* bound: peers that come, go or are removed

ASSUME DirAssumption == 0 \notin Cookies /\ MaxFrames \in Nat /\ MaxChanges \in Nat

VARIABLES
    group,        \* the peers as the server knows them
    removed,      \* those it has removed since the last answer
    asked,        \* requests on the way to the server
    told,         \* frames from the server that may arrive, once more or at last
    unread,       \* those of them that have not arrived yet
    sure,         \* history: nothing has disturbed the last answer
    groupPeers,   \* the directory
    groupCookie,  \* groupPeerCookie
    clearing,     \* the keys that ClearMap of the user interface still deletes
    refreshing,   \* whether the user interface is in SendGroupPeersRequest
    view,         \* the last peerInfos event
    changes

serverVars == <<group, removed, changes>>
netVars == <<asked, told, unread, sure>>
peerVars == <<groupPeers, groupCookie, clearing, refreshing, view>>
dirVars == <<serverVars, netVars, peerVars>>

PeerStatus == {"absent", "offline", "online"}

Nobody == [p \in Peers |-> "absent"]

Page(c, of) == [kind |-> "page", cookie |-> c, peers |-> of]
Changed(p, s) == [kind |-> "state", peer |-> p, status |-> s]
AuthAck == [kind |-> "authAck"]

DirFrames == [kind : {"page"}, cookie : Cookies, peers : [Peers -> PeerStatus]]
             \cup [kind : {"state"}, peer : Peers, status : {"offline", "online"}]
             \cup {AuthAck}

PagesIn(frames) == {m \in frames : m.kind = "page"}
StatesIn(frames) == {m \in frames : m.kind = "state"}

\* The frames on the way that say something of a peer.
About(p) == {m \in PagesIn(told) : m.peers[p] # "absent"} \cup {m \in StatesIn(told) : m.peer = p}

\* The directory may still hold the group that was configured before.
DirInit ==
    /\ group \in [Peers -> {"absent", "online"}] /\ removed = {}
    /\ asked = 0 /\ told = {} /\ unread = {} /\ sure = FALSE
    /\ groupPeers \in [Peers -> {"absent", "online"}] /\ groupCookie = 0
    /\ clearing = {} /\ refreshing = FALSE
    /\ view = Nobody
    /\ changes = 0

-----------------------------------------------------------------------------
(***************************************************************************)
(* The server and the network.                                             *)
(***************************************************************************)

\* A cookie that is neither the last one nor on the way.
Fresh(c) == c # groupCookie /\ \A m \in PagesIn(told) : m.cookie # c

\* One page for every listed peer, or an empty one.
Pages(c) ==
    LET listed == {p \in Peers : group[p] # "absent"}
    IN IF listed = {} THEN {Page(c, Nobody)}
       ELSE {Page(c, [Nobody EXCEPT ![p] = group[p]]) : p \in listed}

\* The request may arrive again.  Pages or changes that are still on the way
\* disturb the answer.
DirAnswer ==
    /\ asked > 0 /\ asked' \in {asked, asked - 1}
    /\ \E c \in Cookies : /\ Fresh(c)
                          /\ told' = told \cup Pages(c) /\ unread' = unread \cup Pages(c)
    /\ sure' = (PagesIn(told) \cup StatesIn(told) = {})
    /\ removed' = {}
    /\ UNCHANGED <<group, changes, peerVars>>

\* A peer comes or goes, and the others are told; one that is removed is not.
\* What the news may overtake disturbs it: pages of an answer that has not
\* arrived, and older news of the peer.
DirChange(p, s) ==
    /\ changes < MaxChanges /\ group[p] # s
    /\ s = "offline" => group[p] = "online"
    /\ changes' = changes + 1
    /\ group' = [group EXCEPT ![p] = s]
    /\ \/ /\ s = "absent"
          /\ removed' = removed \cup {p}
          /\ UNCHANGED netVars
       \/ /\ s # "absent" /\ Cardinality(told) < MaxFrames
          /\ removed' = removed \ {p}
          /\ told' = told \cup {Changed(p, s)} /\ unread' = unread \cup {Changed(p, s)}
          /\ sure' = (/\ sure /\ About(p) = {}
                      /\ \A m \in PagesIn(told) : m.cookie = groupCookie)
          /\ UNCHANGED asked
    /\ UNCHANGED peerVars

DirLose ==
    /\ \/ \E m \in told : /\ told' = told \ {m} /\ unread' = unread \ {m}
                          /\ sure' = (sure /\ m \notin unread)
                          /\ UNCHANGED asked
       \/ asked > 0 /\ asked' = asked - 1 /\ sure' = FALSE /\ UNCHANGED <<told, unread>>
    /\ UNCHANGED <<serverVars, peerVars>>

\* The server registers the peer.
DirRegister ==
    /\ Cardinality(told) < MaxFrames
    /\ told' = told \cup {AuthAck}
    /\ UNCHANGED <<serverVars, asked, unread, sure, peerVars>>

-----------------------------------------------------------------------------
(***************************************************************************)
(* Requests.                                                               *)
(***************************************************************************)

\* RequestGroupPeers of the user interface, up to the keys of ClearMap.
DirRefresh ==
    /\ ~refreshing
    /\ refreshing' = TRUE
    /\ clearing' = {p \in Peers : groupPeers[p] # "absent"}
    /\ UNCHANGED <<serverVars, netVars, groupPeers, groupCookie, view>>

DirDelete(p) ==
    /\ p \in clearing
    /\ clearing' = clearing \ {p}
    /\ groupPeers' = [groupPeers EXCEPT ![p] = "absent"]
    /\ UNCHANGED <<serverVars, netVars, groupCookie, refreshing, view>>

DirRequest ==
    /\ refreshing /\ clearing = {} /\ asked < MaxFrames
    /\ refreshing' = FALSE
    /\ asked' = asked + 1
    /\ UNCHANGED <<serverVars, told, unread, sure, groupPeers, groupCookie, clearing, view>>

-----------------------------------------------------------------------------
(***************************************************************************)
(* The read loop.  What another goroutine deletes meanwhile commutes with  *)
(* the stores of one frame.  UpdatePeers then shows the directory.         *)
(***************************************************************************)
Stored(dir, of) == [p \in Peers |-> IF of[p] = "absent" THEN dir[p] ELSE of[p]]

\* A plausible slip: a new cookie is noted but the old directory is kept.
GroupPeersKept(m) ==
    /\ groupCookie' = m.cookie
    /\ groupPeers' = Stored(groupPeers, m.peers)
    /\ view' = groupPeers'

\* ProcessGroupPeersResponse: the first page of an answer replaces everything.
GroupPeersResponse(m) ==
    /\ groupCookie' = m.cookie
    /\ groupPeers' = Stored(IF groupCookie # m.cookie THEN Nobody ELSE groupPeers, m.peers)
    /\ view' = groupPeers'

\* ProcessPeerStateChanged: a peer that is not listed cannot go offline.
PeerStateChanged(m) ==
    /\ groupPeers' = IF m.status = "online" \/ groupPeers[m.peer] # "absent"
                     THEN [groupPeers EXCEPT ![m.peer] = m.status] ELSE groupPeers
    /\ view' = groupPeers'
    /\ UNCHANGED groupCookie

\* A frame arrives, and may arrive again.
DirRead(m) ==
    /\ m \in told /\ told' \in {told, told \ {m}} /\ unread' = unread \ {m}
    /\ \/ m.kind = "page" /\ GroupPeersResponse(m) /\ UNCHANGED asked
       \/ m.kind = "state" /\ PeerStateChanged(m) /\ UNCHANGED asked
       \/ /\ m.kind = "authAck" /\ asked < MaxFrames
          /\ groupPeers' = Nobody /\ asked' = asked + 1
          /\ UNCHANGED <<groupCookie, view>>
    /\ UNCHANGED <<serverVars, sure, clearing, refreshing>>

\* UpdatePeers when a P2P link was made or lost.
DirShow ==
    /\ view' = groupPeers
    /\ UNCHANGED <<serverVars, netVars, groupPeers, groupCookie, clearing, refreshing>>

DirNext ==
    \/ DirAnswer \/ DirLose \/ DirRegister
    \/ \E p \in Peers, s \in PeerStatus : DirChange(p, s)
    \/ DirRefresh \/ DirRequest \/ DirShow
    \/ \E m \in told : DirRead(m)
    \/ \E p \in Peers : DirDelete(p)

DirSpec == DirInit /\ [][DirNext]_dirVars

-----------------------------------------------------------------------------
(***************************************************************************)
(* Properties.                                                             *)
(***************************************************************************)

\* The type invariant: the directory, the view and the frames keep their types,
\* and ClearMap of the user interface runs only within a request.
DirTypeOK ==
    /\ group \in [Peers -> PeerStatus] /\ removed \subseteq Peers
    /\ groupPeers \in [Peers -> PeerStatus]
    /\ view \in [Peers -> PeerStatus]
    /\ asked \in 0..MaxFrames /\ sure \in BOOLEAN
    /\ told \subseteq DirFrames /\ unread \subseteq told
    /\ groupCookie \in Cookies \cup {0}
    /\ clearing \subseteq Peers /\ refreshing \in BOOLEAN
    /\ clearing # {} => refreshing
    /\ changes \in 0..MaxChanges

\* No request is on the way or being made.
NoRequest == asked = 0 /\ ~refreshing

\* The directory heals: whatever was lost, duplicated, mixed or deleted beside
\* the read loop before, once an answer that nothing disturbs has arrived in
\* full, its pages in any order and more than once, the directory and the list
\* on the screen are the group, and they follow the changes that come after it,
\* except for peers removed since.
DirectoryCurrent ==
    sure /\ NoRequest /\ unread = {} => \A p \in Peers \ removed : groupPeers[p] = group[p] /\ view[p] = group[p]

-----------------------------------------------------------------------------
(***************************************************************************)
(* The inductive invariant: what is on the way completes the directory.    *)
(***************************************************************************)
Says(m, p) == IF m.kind = "page" THEN m.peers[p] ELSE m.status

Truthful == \A p \in Peers \ removed : \A m \in About(p) : Says(m, p) = group[p]

\* The last answer is on the way, and nothing else is ...
Arriving ==
    /\ StatesIn(told) = {} /\ PagesIn(told) # {} /\ PagesIn(told) \subseteq unread
    /\ \A m \in PagesIn(told) : m.cookie # groupCookie
    /\ \A m, n \in PagesIn(told) : m.cookie = n.cookie
    /\ \A p \in Peers \ removed : group[p] = "absent" \/ About(p) # {}

\* ... or a page of it has arrived, and unread frames tell what is missing.
Completes(m, p) == m.kind = "page" \/ m.status = "online" \/ groupPeers[p] # "absent"

Arrived ==
    /\ \A m \in PagesIn(told) : m.cookie = groupCookie
    /\ view = groupPeers
    /\ \A p \in Peers \ removed : \/ groupPeers[p] = group[p]
                                  \/ \E m \in About(p) \cap unread : Completes(m, p)

DirInv ==
    /\ DirTypeOK
    /\ \A p \in removed : group[p] = "absent"
    /\ sure /\ NoRequest => Truthful /\ (Arriving \/ Arrived)

=============================================================================
