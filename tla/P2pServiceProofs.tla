-------------------------- MODULE P2pServiceProofs --------------------------
(***************************************************************************)
(* Proofs about P2pService, for every set of peers, contexts and read      *)
(* loops and every value of the limits.                                    *)
(***************************************************************************)
EXTENDS P2pService, TLAPS

-----------------------------------------------------------------------------
(***************************************************************************)
(* The operators the service is built from.                                *)
(***************************************************************************)

\* A counter that saturates stays within its limit and does not decrease.
LEMMA SaturateRange ==
    ASSUME NEW limit \in Nat, NEW n \in 0..limit
    PROVE  Saturate(n, limit) \in 0..limit /\ n <= Saturate(n, limit)
  BY DEF Saturate

\* Bootstrap.Stop touches neither what a context counts nor its Handler.
LEMMA StoppedPeer ==
    ASSUME NEW c \in PeerCtx
    PROVE  /\ Stopped(c) \in PeerCtx
           /\ Stopped(c).mac = c.mac
           /\ Stopped(c).pings = c.pings
           /\ HandlerSet(c) => HandlerSet(Stopped(c))
  <1>1. CASE c.chan = "dialing"
    BY <1>1 DEF Stopped, PeerCtx, ChanStates, HandlerSet
  <1>2. CASE c.chan = "open"
    BY <1>2 DEF Stopped, PeerCtx, ChanStates, HandlerSet
  <1>3. CASE c.chan \notin {"dialing", "open"}
    BY <1>3 DEF Stopped, PeerCtx, ChanStates, HandlerSet
  <1>. QED
    BY <1>1, <1>2, <1>3

\* The same of a punch context.
LEMMA StoppedPunch ==
    ASSUME NEW c \in PunchCtx
    PROVE  Stopped(c) \in PunchCtx
  <1>1. CASE c.chan = "dialing"
    BY <1>1 DEF Stopped, PunchCtx, ChanStates
  <1>2. CASE c.chan = "open"
    BY <1>2 DEF Stopped, PunchCtx, ChanStates
  <1>3. CASE c.chan \notin {"dialing", "open"}
    BY <1>3 DEF Stopped, PunchCtx, ChanStates
  <1>. QED
    BY <1>1, <1>2, <1>3

\* Stopping some of the peer contexts keeps their types.
LEMMA StopAllPeers ==
    ASSUME NEW f \in [Socks -> PeerCtx], NEW C
    PROVE  /\ StopAll(C, f) \in [Socks -> PeerCtx]
           /\ \A s \in Socks :
                 /\ StopAll(C, f)[s].mac = f[s].mac
                 /\ StopAll(C, f)[s].pings = f[s].pings
                 /\ HandlerSet(f[s]) => HandlerSet(StopAll(C, f)[s])
  BY StoppedPeer DEF StopAll

\* Stopping some of the punch contexts keeps their types.
LEMMA StopAllPunches ==
    ASSUME NEW f \in [Punches -> PunchCtx], NEW C
    PROVE  StopAll(C, f) \in [Punches -> PunchCtx]
  BY StoppedPunch DEF StopAll

\* Deleting the entries of some macs leaves the others alone.
LEMMA WithoutEntries ==
    ASSUME NEW S, NEW map \in [Macs -> S \cup {None}], NEW M
    PROVE  /\ Without(map, M) \in [Macs -> S \cup {None}]
           /\ \A m \in Macs : /\ m \in M => Without(map, M)[m] = None
                              /\ m \notin M => Without(map, M)[m] = map[m]
  BY DEF Without

\* A map that has lost entries still has its type.
LEMMA DroppedEntries ==
    ASSUME NEW map \in [Macs -> Socks \cup {None}], NEW M
    PROVE  /\ Without(map, M) \in [Macs -> Socks \cup {None}]
           /\ \A m \in Macs : Without(map, M)[m] \in {None, map[m]}
  BY DEF Without

\* The contexts in a map are values of it.
LEMMA EntriesOf ==
    ASSUME NEW S, NEW map \in [Macs -> S \cup {None}]
    PROVE  /\ Entries(map, Macs) \subseteq S
           /\ \A m \in Macs : map[m] # None => map[m] \in Entries(map, Macs)
  BY DEF Entries

\* What a goroutine holds at each place it can be at.
LEMMA PcCases ==
    ASSUME NEW x \in PcStates
    PROVE  /\ x.at \in {"idle", "store", "dialPunch", "bind", "dialPeer"}
           /\ x.at # "idle" => x.mac \in Macs
           /\ x.at \in {"dialPunch", "bind"} => x.ctx \in Punches
           /\ x.at = "dialPeer" => x.ctx \in Socks
  BY DEF PcStates, Idle, At

\* The places a handler moves its goroutine to are in PcStates.
LEMMA PcValues ==
    /\ Idle \in PcStates /\ Idle.at = "idle"
    /\ \A m \in Macs :
          /\ At("store", m, None) \in PcStates
          /\ \A p \in Punches : At("dialPunch", m, p) \in PcStates
                                /\ At("bind", m, p) \in PcStates
          /\ \A s \in Socks : At("dialPeer", m, s) \in PcStates
  BY DEF PcStates, Idle, At

\* What the read loop of a context holds in each place of P2PSuccess.
LEMMA SuccessCases ==
    /\ NoSuccess \in SuccessStates /\ NoSuccess.at = "none"
    /\ \A x \in SuccessStates :
          x.at # "none" =>
             /\ x \in [at : {"store", "own", "delete"}, ctx : Socks]
             /\ x.ctx \in Socks
  BY DEF SuccessStates, NoSuccess

\* The contexts made by newPunchSock and ProcessP2PAck have their types.
LEMMA NewContexts ==
    ASSUME NEW m \in Macs
    PROVE  /\ NewPunchCtx(m) \in PunchCtx
           /\ NewPeerCtx(m) \in PeerCtx
           /\ NewPeerCtx(m).mac = m /\ NewPeerCtx(m).pings = 0
  BY ConstantsAssumption DEF NewPunchCtx, NewPeerCtx, PunchCtx, PeerCtx, ChanStates

\* A punch context whose channel changes state, or that expires.
LEMMA PunchFields ==
    ASSUME NEW c \in PunchCtx, NEW x \in ChanStates
    PROVE  /\ [c EXCEPT !.chan = x] \in PunchCtx
           /\ [c EXCEPT !.expired = TRUE] \in PunchCtx
  <1>1. [c EXCEPT !.chan = x] \in PunchCtx
    BY DEF PunchCtx
  <1>2. [c EXCEPT !.expired = TRUE] \in PunchCtx
    BY DEF PunchCtx
  <1>. QED
    BY <1>1, <1>2

\* saveFailPunchInfo keeps the types of the four variables it assigns.
LEMMA SaveFailTypes ==
    ASSUME TypeOK, NEW M, NEW P \in [Punches -> PunchCtx],
           saveFailPunchInfo(M, P)
    PROVE  /\ failed' \in [Macs -> 0..FailLimit]
           /\ cooling' \in [Macs -> BOOLEAN]
           /\ punch' \in [Punches -> PunchCtx]
           /\ punchSocks' \in [Macs -> Punches \cup {None}]
  <1>1. failed' \in [Macs -> 0..FailLimit]
    BY SaturateRange, ConstantsAssumption DEF saveFailPunchInfo, TypeOK
  <1>2. cooling' \in [Macs -> BOOLEAN]
    BY Zenon DEF saveFailPunchInfo
  <1>3. punch' \in [Punches -> PunchCtx]
    BY StopAllPunches DEF saveFailPunchInfo
  <1>4. punchSocks' \in [Macs -> Punches \cup {None}]
    BY WithoutEntries DEF saveFailPunchInfo, TypeOK
  <1>. QED
    BY <1>1, <1>2, <1>3, <1>4

-----------------------------------------------------------------------------
(***************************************************************************)
(* Type correctness.                                                       *)
(***************************************************************************)

\* Start leaves the variables with their types.
LEMMA TypeInit == Init => TypeOK
  <1>. SUFFICES ASSUME Init PROVE TypeOK
    OBVIOUS
  <1>1. punch \in [Punches -> PunchCtx] /\ sock \in [Socks -> PeerCtx]
    BY ConstantsAssumption DEF Init, PunchCtx, PeerCtx, ChanStates
  <1>2. pc \in [Threads -> PcStates] /\ success \in [Socks -> SuccessStates]
    BY PcValues, SuccessCases DEF Init
  <1>3. /\ failed \in [Macs -> 0..FailLimit]
        /\ silentRounds \in [Socks -> Nat]
    BY ConstantsAssumption DEF Init
  <1>4. /\ punchSocks \in [Macs -> Punches \cup {None}]
        /\ p2pTrySocks \in [Macs -> Socks \cup {None}]
        /\ p2pSocks \in [Macs -> Socks \cup {None}]
        /\ cooling \in [Macs -> BOOLEAN]
        /\ running \in BOOLEAN
        /\ toRemove \in SUBSET Socks
    BY DEF Init
  <1>. QED
    BY <1>1, <1>2, <1>3, <1>4 DEF Init, TypeOK

\* A context read by its channel, PingTryCount reset or not.
LEMMA HeardType ==
    ASSUME TypeOK, NEW s \in Socks, NEW n \in AfterRead(s)
    PROVE  /\ Heard(s, n) \in PeerCtx
           /\ Heard(s, n).mac = sock[s].mac
           /\ Heard(s, n).chan = sock[s].chan
           /\ Heard(s, n).pings \in 0..PingLimit
  <1>1. sock[s] \in PeerCtx /\ sock[s].pings \in 0..PingLimit
    BY DEF TypeOK, PeerCtx
  <1>2. n \in 0..PingLimit
    BY <1>1, SaturateRange, ConstantsAssumption DEF AfterRead
  <1>. QED
    BY <1>1, <1>2 DEF Heard, PeerCtx

\* StartPunch keeps the types of the variables it assigns.
LEMMA StartPunchTypes ==
    ASSUME TypeOK, NEW t \in Threads, NEW m \in Macs, StartPunch(t, m)
    PROVE  /\ punch' \in [Punches -> PunchCtx]
           /\ punchSocks' \in [Macs -> Punches \cup {None}]
           /\ pc' \in [Threads -> PcStates]
  <1>1. CASE /\ punchSocks[m] # None
             /\ punch' = StopAll({punchSocks[m]}, punch)
             /\ punchSocks' = Without(punchSocks, {m})
             /\ UNCHANGED pc
    BY <1>1, StopAllPunches, WithoutEntries DEF TypeOK
  <1>2. CASE /\ pc' = [pc EXCEPT ![t] = At("store", m, None)]
             /\ UNCHANGED <<punch, punchSocks>>
    BY <1>2, PcValues DEF TypeOK
  <1>. QED
    BY <1>1, <1>2 DEF StartPunch

\* One sweep of p2pSocks, for the set of contexts whose silence is computed
\* with a `now` older than LastReceive.
SilentIn(late) == {s \in Entries(p2pSocks, Macs) : Silent(s, late)}

DeadIn(late) == {s \in SilentIn(late) : \/ sock[s].pings >= PingLimit
                                         \/ ~ HandlerSet(sock[s])}

RangeP2PStep(late) ==
    /\ toRemove' = DeadIn(late)
    /\ sock' = [s \in Socks |->
          IF s \in DeadIn(late) THEN Stopped(sock[s])
          ELSE IF s \in SilentIn(late) THEN [sock[s] EXCEPT !.pings = @ + 1]
          ELSE sock[s]]
    /\ silentRounds' = [s \in Socks |->
          IF s \in SilentIn(late) \ DeadIn(late) /\ sock[s].heard # "fresh"
          THEN silentRounds[s] + 1 ELSE silentRounds[s]]

\* A sweep of p2pSocks is one for some set of late contexts.
LEMMA RangeP2PSteps == RangeP2P => \E late \in SUBSET Socks : RangeP2PStep(late)
  BY DEF RangeP2P, RangeP2PStep, SilentIn, DeadIn

\* A sweep leaves contexts alone but for the PingTryCount of those it pings,
\* and raises silentRounds only together with it.
LEMMA RangeP2PTypes ==
    ASSUME TypeOK, NEW late, RangeP2PStep(late)
    PROVE  /\ sock' \in [Socks -> PeerCtx]
           /\ silentRounds' \in [Socks -> Nat]
           /\ toRemove' \in SUBSET Socks
           /\ \A s \in Socks :
                 /\ sock'[s].mac = sock[s].mac
                 /\ HandlerSet(sock[s]) => HandlerSet(sock'[s])
                 /\ silentRounds[s] <= sock[s].pings
                       => silentRounds'[s] <= sock'[s].pings
  <1>1. /\ DeadIn(late) \subseteq SilentIn(late)
        /\ SilentIn(late) \subseteq Socks
        /\ \A s \in SilentIn(late) \ DeadIn(late) : ~ sock[s].pings >= PingLimit
    BY EntriesOf DEF DeadIn, SilentIn, TypeOK
  <1>. HIDE DEF DeadIn, SilentIn
  <1>2. ASSUME NEW s \in Socks
        PROVE  /\ sock'[s] \in PeerCtx
               /\ sock'[s].mac = sock[s].mac
               /\ HandlerSet(sock[s]) => HandlerSet(sock'[s])
               /\ silentRounds[s] <= sock[s].pings
                     => silentRounds'[s] <= sock'[s].pings
    <2>1. /\ sock[s] \in PeerCtx /\ sock[s].pings \in 0..PingLimit
          /\ silentRounds[s] \in Nat
      BY DEF TypeOK, PeerCtx
    <2>2. CASE s \in DeadIn(late)
      <3>1. sock'[s] = Stopped(sock[s]) /\ silentRounds'[s] = silentRounds[s]
        BY <2>2 DEF RangeP2PStep
      <3>. QED
        BY <2>1, <3>1, StoppedPeer
    <2>3. CASE s \in SilentIn(late) \ DeadIn(late)
      <3>1. /\ sock'[s] = [sock[s] EXCEPT !.pings = @ + 1]
            /\ silentRounds'[s] \in {silentRounds[s], silentRounds[s] + 1}
        BY <2>3 DEF RangeP2PStep
      <3>2. sock[s].pings + 1 \in 0..PingLimit
        BY <2>1, <2>3, <1>1, ConstantsAssumption
      <3>3. /\ sock'[s] \in PeerCtx
            /\ sock'[s].pings = sock[s].pings + 1
            /\ sock'[s].mac = sock[s].mac
            /\ sock'[s].chan = sock[s].chan
        BY <2>1, <3>1, <3>2 DEF PeerCtx
      <3>. QED
        BY <2>1, <3>1, <3>3, ConstantsAssumption DEF HandlerSet
    <2>4. CASE s \notin SilentIn(late)
      <3>1. sock'[s] = sock[s] /\ silentRounds'[s] = silentRounds[s]
        BY <2>4, <1>1 DEF RangeP2PStep
      <3>. QED
        BY <2>1, <3>1
    <2>. QED
      BY <2>2, <2>3, <2>4
  <1>3. sock' \in [Socks -> PeerCtx]
    BY <1>2 DEF RangeP2PStep
  <1>4. silentRounds' \in [Socks -> Nat]
    BY DEF RangeP2PStep, TypeOK
  <1>5. toRemove' \in SUBSET Socks
    BY <1>1 DEF RangeP2PStep
  <1>. QED
    BY <1>2, <1>3, <1>4, <1>5

\* The sweep of p2pTrySocks stops contexts or counts a try; a context it
\* leaves in the map has its Handler set or no try left.
LEMMA RangeTryTypes ==
    ASSUME TypeOK, RangeTry
    PROVE  /\ sock' \in [Socks -> PeerCtx]
           /\ toRemove' \in SUBSET Socks
           /\ p2pTrySocks' \in [Macs -> Socks \cup {None}]
           /\ \A m \in Macs : p2pTrySocks'[m] \in {None, p2pTrySocks[m]}
           /\ \A s \in Socks :
                 /\ sock'[s].mac = sock[s].mac
                 /\ sock'[s].pings = sock[s].pings
                 /\ HandlerSet(sock[s]) => HandlerSet(sock'[s])
  <1>. DEFINE tried == Entries(p2pTrySocks, Macs)
              spent == {s \in tried : sock[s].tries >= P2pTryCount}
              dropped == {m \in Macs : /\ p2pTrySocks[m] \in tried \ spent
                                       /\ ~ HandlerSet(sock[p2pTrySocks[m]])}
  <1>1. /\ toRemove' = spent
        /\ sock' = [s \in Socks |->
              IF s \in spent THEN Stopped(sock[s])
              ELSE IF s \in tried THEN [sock[s] EXCEPT !.tries = @ + 1]
              ELSE sock[s]]
        /\ p2pTrySocks' = Without(p2pTrySocks, dropped)
    BY DEF RangeTry, SendP2PTry
  <1>2. /\ spent \subseteq tried
        /\ tried \subseteq Socks
        /\ \A s \in tried \ spent : ~ sock[s].tries >= P2pTryCount
    BY EntriesOf DEF TypeOK
  <1>. HIDE DEF tried, spent, dropped
  <1>3. ASSUME NEW s \in Socks
        PROVE  /\ sock'[s] \in PeerCtx
               /\ sock'[s].mac = sock[s].mac
               /\ sock'[s].pings = sock[s].pings
               /\ HandlerSet(sock[s]) => HandlerSet(sock'[s])
    <2>1. sock[s] \in PeerCtx /\ sock[s].tries \in 0..P2pTryCount
      BY DEF TypeOK, PeerCtx
    <2>2. CASE s \in spent
      BY <1>1, <2>1, <2>2, StoppedPeer
    <2>3. CASE s \in tried \ spent
      <3>1. sock'[s] = [sock[s] EXCEPT !.tries = @ + 1]
        BY <1>1, <2>3
      <3>2. sock[s].tries + 1 \in 0..P2pTryCount
        BY <2>1, <2>3, <1>2, ConstantsAssumption
      <3>. QED
        BY <2>1, <3>1, <3>2 DEF PeerCtx, HandlerSet
    <2>4. CASE s \notin tried
      BY <1>1, <1>2, <2>1, <2>4
    <2>. QED
      BY <2>2, <2>3, <2>4
  <1>4. sock' \in [Socks -> PeerCtx]
    BY <1>1, <1>3
  <1>5. /\ p2pTrySocks' \in [Macs -> Socks \cup {None}]
        /\ \A m \in Macs : p2pTrySocks'[m] \in {None, p2pTrySocks[m]}
    BY <1>1, DroppedEntries DEF TypeOK
  <1>. QED
    BY <1>1, <1>2, <1>3, <1>4, <1>5

\* A try frame keeps the type of success: what it finds is a context.
LEMMA ReadTryTypes ==
    ASSUME TypeOK, NEW s \in Socks, PeerReadTry(s)
    PROVE  /\ success' \in [Socks -> SuccessStates]
           /\ sock' \in [Socks -> PeerCtx]
           /\ silentRounds' \in [Socks -> Nat]
  <1>1. sock' \in [Socks -> PeerCtx] /\ silentRounds' \in [Socks -> Nat]
    BY HeardType DEF PeerReadTry, TypeOK
  <1>2. PICK m \in Macs :
          success' = [success EXCEPT ![s] =
             IF p2pTrySocks[m] # None
             THEN [at |-> "store", ctx |-> p2pTrySocks[m]]
             ELSE [at |-> "own", ctx |-> s]]
    BY DEF PeerReadTry
  <1>3. p2pTrySocks[m] # None => p2pTrySocks[m] \in Socks
    BY DEF TypeOK
  <1>4. success' \in [Socks -> SuccessStates]
    BY <1>2, <1>3 DEF TypeOK, SuccessStates
  <1>. QED
    BY <1>1, <1>4

\* So do the Store and the Delete.
LEMMA SuccessTypes ==
    ASSUME TypeOK, NEW s \in Socks, P2PSuccess(s)
    PROVE  TypeOK'
  <1>. USE DEF maps, fails
  <1>1. CASE P2PSuccessStore(s)
    <2>1. success[s] \in [at : {"store", "own", "delete"}, ctx : Socks]
      BY <1>1, SuccessCases DEF P2PSuccessStore, TypeOK
    <2>2. [success[s] EXCEPT !.at = "delete"] \in SuccessStates
      BY <2>1 DEF SuccessStates
    <2>3. success' \in [Socks -> SuccessStates]
      BY <1>1, <2>2 DEF P2PSuccessStore, TypeOK
    <2>4. p2pSocks' \in [Macs -> Socks \cup {None}]
      BY <1>1, <2>1 DEF P2PSuccessStore, TypeOK
    <2>. QED
      BY <1>1, <2>3, <2>4 DEF P2PSuccessStore, TypeOK
  <1>2. CASE P2PSuccessOwn(s)
    <2>1. success' \in [Socks -> SuccessStates]
      BY <1>2, SuccessCases DEF P2PSuccessOwn, TypeOK
    <2>2. p2pSocks' \in [Macs -> Socks \cup {None}]
      BY <1>2 DEF P2PSuccessOwn, TypeOK
    <2>. QED
      BY <1>2, <2>1, <2>2 DEF P2PSuccessOwn, TypeOK
  <1>3. CASE P2PSuccessDelete(s)
    <2>1. success' \in [Socks -> SuccessStates]
      BY <1>3, SuccessCases DEF P2PSuccessDelete, TypeOK
    <2>2. p2pTrySocks' \in [Macs -> Socks \cup {None}]
      BY <1>3, WithoutEntries DEF P2PSuccessDelete, TypeOK
    <2>3. [sock[s] EXCEPT !.chan = "closed"] \in PeerCtx
      BY DEF TypeOK, PeerCtx, ChanStates
    <2>4. sock' \in [Socks -> PeerCtx]
      BY <1>3, <2>3 DEF P2PSuccessDelete, TypeOK
    <2>. QED
      BY <1>3, <2>1, <2>2, <2>4 DEF P2PSuccessDelete, TypeOK
  <1>. QED
    BY <1>1, <1>2, <1>3 DEF P2PSuccess

\* Every step keeps the types.
LEMMA TypeNext == TypeOK /\ [Next]_vars => TypeOK'
  <1>. SUFFICES ASSUME TypeOK, [Next]_vars PROVE TypeOK'
    OBVIOUS
  <1>. USE DEF maps, fails
  <1>1. ASSUME NEW m \in Macs, TryForwardMessage(m) PROVE TypeOK'
    <2>1. Tap \in Threads /\ StartPunch(Tap, m)
      BY <1>1 DEF TryForwardMessage, Threads
    <2>. QED
      BY <1>1, <2>1, StartPunchTypes DEF TryForwardMessage, TypeOK
  <1>2. ASSUME NEW t \in Threads, newPunchSock(t) PROVE TypeOK'
    <2>1. pc[t].mac \in Macs
      BY <1>2, PcCases DEF newPunchSock, TypeOK
    <2>2. /\ punch' \in [Punches -> PunchCtx]
          /\ punchSocks' \in [Macs -> Punches \cup {None}]
          /\ pc' \in [Threads -> PcStates]
      BY <1>2, <2>1, NewContexts, PcValues DEF newPunchSock, TypeOK
    <2>. QED
      BY <1>2, <2>2 DEF newPunchSock, TypeOK
  <1>3. ASSUME NEW t \in Threads, PunchActive(t) PROVE TypeOK'
    <2>. DEFINE P == [punch EXCEPT ![pc[t].ctx].chan = "open"]
    <2>1. pc[t].mac \in Macs /\ pc[t].ctx \in Punches
      BY <1>3, PcCases DEF PunchActive, TypeOK
    <2>2. P \in [Punches -> PunchCtx]
      BY <2>1, PunchFields DEF TypeOK, ChanStates
    <2>3. /\ punch' \in [Punches -> PunchCtx]
          /\ punchSocks' \in [Macs -> Punches \cup {None}]
      <3>1. SendP2PTrigger(pc[t].mac, P)
        BY <1>3 DEF PunchActive
      <3>. HIDE DEF P
      <3>. QED
        BY <3>1, <2>2, StopAllPunches, WithoutEntries DEF SendP2PTrigger, TypeOK
    <2>4. pc' \in [Threads -> PcStates]
      BY <1>3, <2>1, PcValues DEF PunchActive, TypeOK
    <2>. QED
      BY <1>3, <2>3, <2>4 DEF PunchActive, TypeOK
  <1>4. ASSUME NEW t \in Threads, PunchRefused(t) PROVE TypeOK'
    <2>. DEFINE P == [punch EXCEPT ![pc[t].ctx].chan = "refused"]
    <2>1. P \in [Punches -> PunchCtx]
      BY PunchFields DEF TypeOK, ChanStates
    <2>2. saveFailPunchInfo({pc[t].mac}, P)
      BY <1>4 DEF PunchRefused
    <2>3. pc' \in [Threads -> PcStates]
      BY <1>4, PcValues DEF PunchRefused, TypeOK
    <2>. HIDE DEF P
    <2>. QED
      BY <1>4, <2>1, <2>2, <2>3, SaveFailTypes DEF PunchRefused, TypeOK
  <1>5. ASSUME NEW t \in Threads, PunchBound(t) PROVE TypeOK'
    <2>1. punch' \in [Punches -> PunchCtx]
      <3>1. PICK b \in BOOLEAN : punch' = [punch EXCEPT ![pc[t].ctx].local = b]
        BY <1>5 DEF PunchBound
      <3>2. \A p \in Punches : [punch[p] EXCEPT !.local = b] \in PunchCtx
        BY DEF TypeOK, PunchCtx
      <3>. QED
        BY <3>1, <3>2 DEF TypeOK
    <2>2. pc' \in [Threads -> PcStates]
      BY <1>5, PcValues DEF PunchBound, TypeOK
    <2>. QED
      BY <1>5, <2>1, <2>2 DEF PunchBound, TypeOK
  <1>6. ASSUME NEW t \in Threads, PeerActive(t) PROVE TypeOK'
    <2>1. sock' \in [Socks -> PeerCtx]
      <3>1. \A s \in Socks : [sock[s] EXCEPT !.chan = "open"] \in PeerCtx
        BY DEF TypeOK, PeerCtx, ChanStates
      <3>. QED
        BY <1>6, <3>1 DEF PeerActive, TypeOK
    <2>2. pc' \in [Threads -> PcStates]
      BY <1>6, PcValues DEF PeerActive, TypeOK
    <2>. QED
      BY <1>6, <2>1, <2>2 DEF PeerActive, TypeOK
  <1>7. ASSUME NEW t \in Threads, PeerRefused(t) PROVE TypeOK'
    <2>1. sock' \in [Socks -> PeerCtx]
      <3>1. \A s \in Socks : [sock[s] EXCEPT !.chan = "refused"] \in PeerCtx
        BY DEF TypeOK, PeerCtx, ChanStates
      <3>. QED
        BY <1>7, <3>1 DEF PeerRefused, TypeOK
    <2>2. pc' \in [Threads -> PcStates]
      BY <1>7, PcValues DEF PeerRefused, TypeOK
    <2>3. p2pTrySocks' \in [Macs -> Socks \cup {None}]
      BY <1>7, WithoutEntries DEF PeerRefused, TypeOK
    <2>. QED
      BY <1>7, <2>1, <2>2, <2>3 DEF PeerRefused, TypeOK
  <1>8. ASSUME NEW t \in Readers, NEW m \in Macs, ProcessP2PTrigger(t, m)
        PROVE  TypeOK'
    <2>1. t \in Threads /\ StartPunch(t, m)
      BY <1>8 DEF ProcessP2PTrigger, Threads
    <2>. QED
      BY <1>8, <2>1, StartPunchTypes DEF ProcessP2PTrigger, TypeOK
  <1>9. ASSUME NEW t \in Readers, NEW m \in Macs, ProcessP2PAckInvalid(t, m)
        PROVE  TypeOK'
    <2>1. saveFailPunchInfo({m}, punch) /\ punch \in [Punches -> PunchCtx]
      BY <1>9 DEF ProcessP2PAckInvalid, TypeOK
    <2>. QED
      BY <1>9, <2>1, SaveFailTypes DEF ProcessP2PAckInvalid, TypeOK
  <1>10. ASSUME NEW t \in Readers, NEW m \in Macs, ProcessP2PAck(t, m)
         PROVE  TypeOK'
    <2>1. PICK s \in Socks :
            /\ sock' = [sock EXCEPT ![s] = NewPeerCtx(m)]
            /\ silentRounds' = [silentRounds EXCEPT ![s] = 0]
            /\ p2pTrySocks' = [p2pTrySocks EXCEPT ![m] = s]
            /\ pc' = [pc EXCEPT ![t] = At("dialPeer", m, s)]
      BY <1>10 DEF ProcessP2PAck
    <2>2. /\ sock' \in [Socks -> PeerCtx]
          /\ silentRounds' \in [Socks -> Nat]
          /\ p2pTrySocks' \in [Macs -> Socks \cup {None}]
          /\ pc' \in [Threads -> PcStates]
      BY <2>1, NewContexts, PcValues DEF TypeOK
    <2>. QED
      BY <1>10, <2>2 DEF ProcessP2PAck, TypeOK
  <1>11. ASSUME NEW t \in Readers, NEW m \in Macs, PeerStateChanged(t, m)
         PROVE  TypeOK'
    <2>1. sock' \in [Socks -> PeerCtx]
      BY <1>11, StopAllPeers DEF PeerStateChanged, TypeOK
    <2>2. /\ p2pTrySocks' \in [Macs -> Socks \cup {None}]
          /\ p2pSocks' \in [Macs -> Socks \cup {None}]
      BY <1>11, WithoutEntries DEF PeerStateChanged, TypeOK
    <2>3. /\ failed' \in [Macs -> 0..FailLimit]
          /\ cooling' \in [Macs -> BOOLEAN]
      BY <1>11, ConstantsAssumption DEF PeerStateChanged, TypeOK
    <2>. QED
      BY <1>11, <2>1, <2>2, <2>3 DEF PeerStateChanged, TypeOK
  <1>12. ASSUME NEW t \in Readers, ResetP2PSocks(t) PROVE TypeOK'
    <2>1. sock' \in [Socks -> PeerCtx]
      BY <1>12, StopAllPeers DEF ResetP2PSocks, TypeOK
    <2>2. /\ punchSocks' \in [Macs -> Punches \cup {None}]
          /\ p2pTrySocks' \in [Macs -> Socks \cup {None}]
          /\ p2pSocks' \in [Macs -> Socks \cup {None}]
      BY <1>12, WithoutEntries DEF ResetP2PSocks, TypeOK
    <2>3. /\ failed' \in [Macs -> 0..FailLimit]
          /\ cooling' \in [Macs -> BOOLEAN]
      BY <1>12, ConstantsAssumption DEF ResetP2PSocks, TypeOK
    <2>. QED
      BY <1>12, <2>1, <2>2, <2>3 DEF ResetP2PSocks, TypeOK
  <1>13. ASSUME NEW s \in Socks, PeerRead(s) PROVE TypeOK'
    <2>1. sock' \in [Socks -> PeerCtx] /\ silentRounds' \in [Socks -> Nat]
      BY <1>13, HeardType DEF PeerRead, TypeOK
    <2>. QED
      BY <1>13, <2>1 DEF PeerRead, TypeOK
  <1>14. ASSUME NEW s \in Socks, PeerReadTry(s) PROVE TypeOK'
    <2>1. /\ success' \in [Socks -> SuccessStates]
          /\ sock' \in [Socks -> PeerCtx]
          /\ silentRounds' \in [Socks -> Nat]
      BY <1>14, ReadTryTypes
    <2>. QED
      BY <1>14, <2>1 DEF PeerReadTry, TypeOK
  <1>29. ASSUME NEW s \in Socks, P2PSuccess(s) PROVE TypeOK'
    BY <1>29, SuccessTypes
  <1>15. ASSUME NEW s \in Socks, ReadIdle(s) PROVE TypeOK'
    <2>1. Saturate(sock[s].pings, PingLimit) \in 0..PingLimit
      BY SaturateRange, ConstantsAssumption DEF TypeOK, PeerCtx
    <2>2. [sock[s] EXCEPT !.pings = Saturate(@, PingLimit)] \in PeerCtx
      BY <2>1 DEF TypeOK, PeerCtx
    <2>3. sock' \in [Socks -> PeerCtx]
      BY <1>15, <2>2 DEF ReadIdle, TypeOK
    <2>. QED
      BY <1>15, <2>3 DEF ReadIdle, TypeOK
  <1>16. ASSUME NEW s \in Socks, SockClosed(s) PROVE TypeOK'
    <2>1. [sock[s] EXCEPT !.chan = "closed"] \in PeerCtx
      BY DEF TypeOK, PeerCtx, ChanStates
    <2>2. sock' \in [Socks -> PeerCtx]
      BY <1>16, <2>1 DEF SockClosed, TypeOK
    <2>. QED
      BY <1>16, <2>2 DEF SockClosed, TypeOK
  <1>17. ASSUME NEW s \in Socks, GoSilent(s) PROVE TypeOK'
    <2>1. [sock[s] EXCEPT !.heard = "stale"] \in PeerCtx
      BY DEF TypeOK, PeerCtx
    <2>2. sock' \in [Socks -> PeerCtx]
      BY <1>17, <2>1 DEF GoSilent, TypeOK
    <2>. QED
      BY <1>17, <2>2 DEF GoSilent, TypeOK
  <1>18. ASSUME NEW p \in Punches, PunchClosed(p) PROVE TypeOK'
    <2>1. [punch[p] EXCEPT !.chan = "stopping"] \in PunchCtx
      BY PunchFields DEF TypeOK, ChanStates
    <2>2. punch' \in [Punches -> PunchCtx]
      BY <1>18, <2>1 DEF PunchClosed, TypeOK
    <2>. QED
      BY <1>18, <2>2 DEF PunchClosed, TypeOK
  <1>20. ASSUME NEW p \in Punches, Expire(p) PROVE TypeOK'
    <2>1. [punch[p] EXCEPT !.expired = TRUE] \in PunchCtx
      BY PunchFields DEF TypeOK, ChanStates
    <2>2. punch' \in [Punches -> PunchCtx]
      BY <1>20, <2>1 DEF Expire, TypeOK
    <2>. QED
      BY <1>20, <2>2 DEF Expire, TypeOK
  <1>19. ASSUME NEW m \in Macs, CoolDown(m) PROVE TypeOK'
    <2>1. cooling' \in [Macs -> BOOLEAN]
      BY <1>19 DEF CoolDown, TypeOK
    <2>. QED
      BY <1>19, <2>1 DEF CoolDown, TypeOK
  <1>21. CASE RangeP2P
    <2>1. PICK late \in SUBSET Socks : RangeP2PStep(late)
      BY <1>21, RangeP2PSteps
    <2>2. /\ sock' \in [Socks -> PeerCtx]
          /\ silentRounds' \in [Socks -> Nat]
          /\ toRemove' \in SUBSET Socks
      BY <2>1, RangeP2PTypes
    <2>. QED
      BY <1>21, <2>2 DEF RangeP2P, TypeOK
  <1>22. CASE DeleteP2P
    <2>1. p2pSocks' \in [Macs -> Socks \cup {None}]
      BY <1>22, WithoutEntries DEF DeleteP2P, TypeOK
    <2>. QED
      BY <1>22, <2>1 DEF DeleteP2P, TypeOK
  <1>23. CASE RangeTry
    <2>1. /\ sock' \in [Socks -> PeerCtx]
          /\ toRemove' \in SUBSET Socks
          /\ p2pTrySocks' \in [Macs -> Socks \cup {None}]
      BY <1>23, RangeTryTypes
    <2>. QED
      BY <1>23, <2>1 DEF RangeTry, TypeOK
  <1>24. CASE DeleteTry
    <2>. DEFINE M == {sock[s].mac : s \in toRemove}
    <2>1. saveFailPunchInfo(M, punch) /\ punch \in [Punches -> PunchCtx]
      BY <1>24 DEF DeleteTry, TypeOK
    <2>2. p2pTrySocks' = Without(p2pTrySocks, M)
      BY <1>24 DEF DeleteTry
    <2>. HIDE DEF M
    <2>3. p2pTrySocks' \in [Macs -> Socks \cup {None}]
      BY <2>2, WithoutEntries DEF TypeOK
    <2>. QED
      BY <1>24, <2>1, <2>3, SaveFailTypes DEF DeleteTry, TypeOK
  <1>25. CASE Stop
    BY <1>25 DEF Stop, TypeOK
  <1>28. CASE Start
    <2>1. /\ punchSocks' \in [Macs -> Punches \cup {None}]
          /\ p2pTrySocks' \in [Macs -> Socks \cup {None}]
          /\ p2pSocks' \in [Macs -> Socks \cup {None}]
      BY <1>28, WithoutEntries DEF Start, TypeOK
    <2>2. /\ failed' \in [Macs -> 0..FailLimit]
          /\ cooling' \in [Macs -> BOOLEAN]
      BY <1>28, ConstantsAssumption DEF Start
    <2>. QED
      BY <1>28, <2>1, <2>2 DEF Start, TypeOK
  <1>26. CASE stopP2pSockets
    <2>1. sock' \in [Socks -> PeerCtx]
      BY <1>26, StopAllPeers DEF stopP2pSockets, TypeOK
    <2>2. /\ p2pTrySocks' \in [Macs -> Socks \cup {None}]
          /\ p2pSocks' \in [Macs -> Socks \cup {None}]
      BY <1>26, WithoutEntries DEF stopP2pSockets, TypeOK
    <2>. QED
      BY <1>26, <2>1, <2>2 DEF stopP2pSockets, TypeOK
  <1>27. CASE UNCHANGED vars
    BY <1>27 DEF vars, TypeOK
  <1>. QED
    BY <1>1, <1>2, <1>3, <1>4, <1>5, <1>6, <1>7, <1>8, <1>9, <1>10, <1>11,
       <1>12, <1>13, <1>14, <1>15, <1>16, <1>17, <1>18, <1>19, <1>20, <1>21,
       <1>22, <1>23, <1>24, <1>25, <1>26, <1>27, <1>28, <1>29
    DEF Next, Dialing, ServerMessage, stateCheck

\* The types hold in every state (TypeOK of P2pService): in particular no
\* context is ever sent more than P2pTryCount tries, and PingTryCount never
\* passes its limit.
THEOREM TypeCorrect == Spec => []TypeOK
  BY TypeInit, TypeNext, PTL DEF Spec

-----------------------------------------------------------------------------
(***************************************************************************)
(* The inductive invariant.  Most steps only take entries out of the maps, *)
(* keep the mac and the Handler of every context and leave the dialing     *)
(* goroutines alone; the lemma deals with all of those at once.            *)
(***************************************************************************)

\* A step that only takes entries out of the maps, and keeps what the
\* contexts are judged by, keeps the invariant.
LEMMA OnlyRemoves ==
    ASSUME TypeOK, ServiceInv, success' = success,
           \A m \in Macs : /\ p2pTrySocks'[m] \in {None, p2pTrySocks[m]}
                           /\ p2pSocks'[m] \in {None, p2pSocks[m]},
           \A s \in Socks : /\ sock'[s].mac = sock[s].mac
                            /\ HandlerSet(sock[s]) => HandlerSet(sock'[s])
                            /\ silentRounds'[s] <= sock'[s].pings,
           \A t \in Threads : \/ pc'[t] = pc[t]
                              \/ /\ pc[t].at # "dialPeer"
                                 /\ pc'[t].at # "dialPeer"
    PROVE  ServiceInv'
  <1>0. /\ \A m \in Macs : p2pTrySocks[m] # None => p2pTrySocks[m] \in Socks
        /\ \A m \in Macs : p2pSocks[m] # None => p2pSocks[m] \in Socks
        /\ \A t \in Threads : pc[t].at = "dialPeer" => pc[t].ctx \in Socks
        /\ \A s \in Socks : success[s].at # "none" => success[s].ctx \in Socks
    BY PcCases, SuccessCases DEF TypeOK
  <1>1. ContextsSeparate'
    <2>1. EntriesNamed'
      BY <1>0 DEF ServiceInv, ContextsSeparate, EntriesNamed
    <2>2. SharedInPromotion'
      BY DEF ServiceInv, ContextsSeparate, SharedInPromotion
    <2>. QED
      BY <2>1, <2>2 DEF ContextsSeparate
  <1>5. SuccessKnown'
    BY <1>0, ConstantsAssumption DEF ServiceInv, SuccessKnown
  <1>2. TryIsDialedOrOpen'
    <2>. SUFFICES ASSUME NEW m \in Macs, p2pTrySocks'[m] # None,
                         ~ HandlerSet(sock'[p2pTrySocks'[m]])
                  PROVE  \E t \in Readers : /\ pc'[t].at = "dialPeer"
                                            /\ pc'[t].ctx = p2pTrySocks'[m]
      BY DEF TryIsDialedOrOpen
    <2>1. p2pTrySocks'[m] = p2pTrySocks[m] /\ p2pTrySocks[m] \in Socks
      BY <1>0
    <2>2. PICK t \in Readers : /\ pc[t].at = "dialPeer"
                               /\ pc[t].ctx = p2pTrySocks[m]
      BY <2>1 DEF ServiceInv, TryIsDialedOrOpen
    <2>. QED
      BY <2>1, <2>2 DEF Threads
  <1>3. DialersKnown'
    BY <1>0 DEF ServiceInv, DialersKnown
  <1>4. RoundsCounted'
    BY DEF RoundsCounted
  <1>. QED
    BY <1>1, <1>2, <1>3, <1>4, <1>5 DEF ServiceInv

\* Steps that concern punch contexts only, and the clock.
LEMMA PeersUntouched ==
    ASSUME TypeOK, ServiceInv,
           UNCHANGED <<p2pTrySocks, p2pSocks, sock, success, silentRounds>>,
           \A t \in Threads : \/ pc'[t] = pc[t]
                              \/ /\ pc[t].at # "dialPeer"
                                 /\ pc'[t].at # "dialPeer"
    PROVE  ServiceInv'
  <1>1. \A m \in Macs : /\ p2pTrySocks'[m] \in {None, p2pTrySocks[m]}
                        /\ p2pSocks'[m] \in {None, p2pSocks[m]}
    OBVIOUS
  <1>2. \A s \in Socks : /\ sock'[s].mac = sock[s].mac
                         /\ HandlerSet(sock[s]) => HandlerSet(sock'[s])
                         /\ silentRounds'[s] <= sock'[s].pings
    BY DEF ServiceInv, RoundsCounted
  <1>. QED
    BY <1>1, <1>2, OnlyRemoves

\* StartPunch moves its goroutine between places where nothing is dialed.
LEMMA StartPunchMoves ==
    ASSUME TypeOK, NEW t \in Threads, pc[t] = Idle, NEW m \in Macs,
           StartPunch(t, m)
    PROVE  \A u \in Threads : \/ pc'[u] = pc[u]
                              \/ /\ pc[u].at # "dialPeer"
                                 /\ pc'[u].at # "dialPeer"
  <1>1. CASE UNCHANGED pc
    BY <1>1
  <1>2. CASE pc' = [pc EXCEPT ![t] = At("store", m, None)]
    BY <1>2 DEF TypeOK, Idle, At
  <1>. QED
    BY <1>1, <1>2 DEF StartPunch

\* The invariant holds when the service starts.
LEMMA ServiceInit == Init => ServiceInv
  BY ConstantsAssumption
  DEF Init, ServiceInv, ContextsSeparate, EntriesNamed, SharedInPromotion,
      SuccessKnown, NoSuccess, TryIsDialedOrOpen, DialersKnown, RoundsCounted,
      Idle, At

\* ProcessP2PAck stores a context that no map held, and dials it.
LEMMA AckStep ==
    ASSUME TypeOK, ServiceInv, NEW t \in Readers, NEW m \in Macs,
           ProcessP2PAck(t, m)
    PROVE  ServiceInv'
  <1>1. PICK s \in Socks :
          /\ FreeSock(s)
          /\ sock' = [sock EXCEPT ![s] = NewPeerCtx(m)]
          /\ silentRounds' = [silentRounds EXCEPT ![s] = 0]
          /\ p2pTrySocks' = [p2pTrySocks EXCEPT ![m] = s]
          /\ pc' = [pc EXCEPT ![t] = At("dialPeer", m, s)]
    BY DEF ProcessP2PAck
  <1>2. /\ p2pSocks' = p2pSocks /\ success' = success
        /\ t \in Threads
        /\ pc[t].at # "dialPeer"
    BY DEF ProcessP2PAck, Threads, Idle, At
  <1>3. /\ pc'[t].at = "dialPeer" /\ pc'[t].mac = m /\ pc'[t].ctx = s
        /\ \A u \in Threads \ {t} : pc'[u] = pc[u]
    BY <1>1, <1>2 DEF TypeOK, At
  <1>4. /\ sock'[s].mac = m /\ sock'[s].pings = 0 /\ silentRounds'[s] = 0
        /\ \A c \in Socks \ {s} : /\ sock'[c] = sock[c]
                                  /\ silentRounds'[c] = silentRounds[c]
    BY <1>1, NewContexts DEF TypeOK
  <1>5. /\ p2pTrySocks'[m] = s
        /\ \A n \in Macs \ {m} : p2pTrySocks'[n] = p2pTrySocks[n]
        /\ \A n \in Macs : p2pTrySocks[n] # s /\ p2pSocks[n] # s
        /\ \A u \in Threads : pc[u].ctx # s
        /\ success[s].at = "none"
        /\ \A r \in Socks : success[r].ctx # s
    BY <1>1, SuccessCases DEF TypeOK, FreeSock
  <1>6. /\ \A n \in Macs : p2pTrySocks[n] # None => p2pTrySocks[n] \in Socks
        /\ \A n \in Macs : p2pSocks[n] # None => p2pSocks[n] \in Socks
        /\ \A u \in Threads : pc[u].at = "dialPeer" => pc[u].ctx \in Socks
        /\ \A r \in Socks : success[r].at # "none" => success[r].ctx \in Socks
    BY PcCases, SuccessCases DEF TypeOK
  <1>7. ContextsSeparate'
    <2>1. \A n \in Macs : p2pTrySocks'[n] # None
                             => sock'[p2pTrySocks'[n]].mac = n
      BY <1>4, <1>5, <1>6 DEF ServiceInv, ContextsSeparate, EntriesNamed
    <2>2. \A n \in Macs : p2pSocks'[n] # None => sock'[p2pSocks'[n]].mac = n
      BY <1>2, <1>4, <1>5, <1>6
         DEF ServiceInv, ContextsSeparate, EntriesNamed
    <2>3. SharedInPromotion'
      BY <1>2, <1>5 DEF ServiceInv, ContextsSeparate, SharedInPromotion
    <2>. QED
      BY <2>1, <2>2, <2>3 DEF ContextsSeparate, EntriesNamed
  <1>11. SuccessKnown'
    BY <1>2, <1>4, <1>5, <1>6 DEF ServiceInv, SuccessKnown
  <1>8. TryIsDialedOrOpen'
    <2>. SUFFICES ASSUME NEW n \in Macs, p2pTrySocks'[n] # None
                  PROVE  \/ HandlerSet(sock'[p2pTrySocks'[n]])
                         \/ \E u \in Readers : /\ pc'[u].at = "dialPeer"
                                               /\ pc'[u].ctx = p2pTrySocks'[n]
      BY DEF TryIsDialedOrOpen
    <2>1. CASE n = m
      BY <2>1, <1>3, <1>5
    <2>2. CASE n # m
      <3>1. /\ p2pTrySocks'[n] = p2pTrySocks[n]
            /\ p2pTrySocks[n] \in Socks \ {s}
        BY <2>2, <1>5, <1>6
      <3>2. CASE HandlerSet(sock[p2pTrySocks[n]])
        BY <3>1, <3>2, <1>4
      <3>3. CASE ~ HandlerSet(sock[p2pTrySocks[n]])
        <4>1. PICK u \in Readers : /\ pc[u].at = "dialPeer"
                                   /\ pc[u].ctx = p2pTrySocks[n]
          BY <3>1, <3>3 DEF ServiceInv, TryIsDialedOrOpen
        <4>. QED
          BY <4>1, <3>1, <1>2, <1>3 DEF Threads
      <3>. QED
        BY <3>2, <3>3
    <2>. QED
      BY <2>1, <2>2
  <1>9. DialersKnown'
    BY <1>3, <1>4, <1>5, <1>6 DEF ServiceInv, DialersKnown
  <1>10. RoundsCounted'
    BY <1>4 DEF ServiceInv, RoundsCounted
  <1>. QED
    BY <1>7, <1>8, <1>9, <1>10, <1>11 DEF ServiceInv

\* The end of a dial: the goroutine lets its context go, with a Handler or,
\* if the dial failed, out of p2pTrySocks.
LEMMA DialEnds ==
    ASSUME TypeOK, ServiceInv, NEW t \in Threads,
           PeerActive(t) \/ PeerRefused(t)
    PROVE  ServiceInv'
  <1>. DEFINE s == pc[t].ctx
  <1>1. /\ s \in Socks /\ pc[t].at = "dialPeer" /\ sock[s].mac = pc[t].mac
    BY PcCases DEF TypeOK, PeerActive, PeerRefused, ServiceInv, DialersKnown
  <1>2. /\ \A n \in Macs : p2pTrySocks[n] # None => p2pTrySocks[n] \in Socks
        /\ \A n \in Macs : p2pSocks[n] # None => p2pSocks[n] \in Socks
        /\ \A u \in Threads : pc[u].at = "dialPeer" => pc[u].ctx \in Socks
        /\ \A r \in Socks : success[r].at # "none" => success[r].ctx \in Socks
    BY PcCases, SuccessCases DEF TypeOK
  <1>3. /\ pc' = [pc EXCEPT ![t] = Idle]
        /\ p2pSocks' = p2pSocks /\ silentRounds' = silentRounds
        /\ success' = success
    BY DEF PeerActive, PeerRefused, maps
  <1>4. /\ pc'[t].at # "dialPeer"
        /\ \A u \in Threads \ {t} : pc'[u] = pc[u]
    BY <1>3, PcValues DEF TypeOK
  <1>5. /\ \A c \in Socks : /\ sock'[c].mac = sock[c].mac
                            /\ sock'[c].pings = sock[c].pings
        /\ \A c \in Socks \ {s} : sock'[c] = sock[c]
    <2>1. CASE PeerActive(t)
      BY <1>1, <2>1 DEF PeerActive, TypeOK, PeerCtx
    <2>2. CASE PeerRefused(t)
      BY <1>1, <2>2 DEF PeerRefused, TypeOK, PeerCtx
    <2>. QED
      BY <2>1, <2>2
  <1>6. \A n \in Macs :
           p2pTrySocks'[n] # None =>
              /\ p2pTrySocks'[n] = p2pTrySocks[n]
              /\ p2pTrySocks[n] = s => HandlerSet(sock'[s])
    <2>1. CASE PeerActive(t)
      <3>1. p2pTrySocks' = p2pTrySocks /\ sock'[s].chan = "open"
        BY <1>1, <2>1 DEF PeerActive, TypeOK, PeerCtx, maps
      <3>. QED
        BY <3>1 DEF HandlerSet
    <2>2. CASE PeerRefused(t)
      <3>1. p2pTrySocks' = Without(p2pTrySocks, {pc[t].mac})
        BY <2>2 DEF PeerRefused
      <3>2. \A n \in Macs : p2pTrySocks'[n] # None =>
               n # pc[t].mac /\ p2pTrySocks'[n] = p2pTrySocks[n]
        BY <3>1 DEF Without
      <3>. QED
        BY <3>2, <1>1 DEF ServiceInv, ContextsSeparate, EntriesNamed
    <2>. QED
      BY <2>1, <2>2
  <1>. HIDE DEF s
  <1>7. ContextsSeparate'
    <2>1. EntriesNamed'
      BY <1>2, <1>3, <1>5, <1>6
         DEF ServiceInv, ContextsSeparate, EntriesNamed
    <2>2. SharedInPromotion'
      BY <1>3, <1>6 DEF ServiceInv, ContextsSeparate, SharedInPromotion
    <2>. QED
      BY <2>1, <2>2 DEF ContextsSeparate
  <1>11. SuccessKnown'
    BY <1>2, <1>3, <1>5, <1>6, ConstantsAssumption
       DEF ServiceInv, SuccessKnown
  <1>8. TryIsDialedOrOpen'
    <2>. SUFFICES ASSUME NEW n \in Macs, p2pTrySocks'[n] # None,
                         ~ HandlerSet(sock'[p2pTrySocks'[n]])
                  PROVE  \E u \in Readers : /\ pc'[u].at = "dialPeer"
                                            /\ pc'[u].ctx = p2pTrySocks'[n]
      BY DEF TryIsDialedOrOpen
    <2>1. /\ p2pTrySocks'[n] = p2pTrySocks[n]
          /\ p2pTrySocks[n] \in Socks \ {s}
          /\ ~ HandlerSet(sock[p2pTrySocks[n]])
      BY <1>2, <1>5, <1>6
    <2>2. PICK u \in Readers : /\ pc[u].at = "dialPeer"
                               /\ pc[u].ctx = p2pTrySocks[n]
      BY <2>1 DEF ServiceInv, TryIsDialedOrOpen
    <2>3. u # t
      BY <2>1, <2>2 DEF s
    <2>. QED
      BY <2>1, <2>2, <2>3, <1>4 DEF Threads
  <1>9. DialersKnown'
    BY <1>2, <1>4, <1>5 DEF ServiceInv, DialersKnown
  <1>10. RoundsCounted'
    BY <1>3, <1>5 DEF ServiceInv, RoundsCounted
  <1>. QED
    BY <1>7, <1>8, <1>9, <1>10, <1>11 DEF ServiceInv

\* A try frame: what it loads is a context of the mac of its read loop.
LEMMA ReadTryStep ==
    ASSUME TypeOK, ServiceInv, NEW s \in Socks, PeerReadTry(s)
    PROVE  ServiceInv'
  <1>1. /\ \A n \in Macs : p2pTrySocks[n] # None => p2pTrySocks[n] \in Socks
        /\ \A n \in Macs : p2pSocks[n] # None => p2pSocks[n] \in Socks
        /\ \A u \in Threads : pc[u].at = "dialPeer" => pc[u].ctx \in Socks
        /\ \A r \in Socks : success[r].at # "none" => success[r].ctx \in Socks
    BY PcCases, SuccessCases DEF TypeOK
  <1>2. /\ UNCHANGED <<p2pTrySocks, p2pSocks, pc>>
        /\ success[s].at = "none"
    BY SuccessCases DEF PeerReadTry, maps
  <1>3. \A c \in Socks : /\ sock'[c].mac = sock[c].mac
                         /\ HandlerSet(sock[c]) => HandlerSet(sock'[c])
                         /\ silentRounds'[c] <= sock'[c].pings
    <2>1. PICK n \in AfterRead(s) : sock' = [sock EXCEPT ![s] = Heard(s, n)]
      BY DEF PeerReadTry
    <2>2. silentRounds' = [silentRounds EXCEPT ![s] = 0]
      BY DEF PeerReadTry
    <2>3. /\ sock'[s].mac = sock[s].mac
          /\ sock'[s].chan = sock[s].chan
          /\ silentRounds'[s] <= sock'[s].pings
      <3>1. sock'[s] = Heard(s, n) /\ silentRounds'[s] = 0
        BY <2>1, <2>2 DEF TypeOK
      <3>. QED
        BY <3>1, HeardType
    <2>4. \A c \in Socks \ {s} : /\ sock'[c] = sock[c]
                                 /\ silentRounds'[c] = silentRounds[c]
      BY <2>1, <2>2 DEF TypeOK
    <2>. QED
      BY <2>3, <2>4 DEF HandlerSet, ServiceInv, RoundsCounted
  <1>4. PICK m \in Macs :
          /\ m = sock[s].mac
          /\ success' = [success EXCEPT ![s] =
                IF p2pTrySocks[m] # None
                THEN [at |-> "store", ctx |-> p2pTrySocks[m]]
                ELSE [at |-> "own", ctx |-> s]]
    BY DEF PeerReadTry
  <1>5. /\ \A r \in Socks \ {s} : success'[r] = success[r]
        /\ p2pTrySocks[m] # None => success'[s].at = "store"
                                    /\ success'[s].ctx = p2pTrySocks[m]
        /\ p2pTrySocks[m] = None => success'[s].at = "own"
                                    /\ success'[s].ctx = s
    BY <1>4 DEF TypeOK
  <1>6. ContextsSeparate'
    <2>1. EntriesNamed'
      BY <1>1, <1>2, <1>3 DEF ServiceInv, ContextsSeparate, EntriesNamed
    <2>2. \A r \in Socks : success[r].at = "delete" => success'[r] = success[r]
      BY <1>2, <1>5
    <2>3. SharedInPromotion'
      BY <1>2, <2>2 DEF ServiceInv, ContextsSeparate, SharedInPromotion
    <2>. QED
      BY <2>1, <2>3 DEF ContextsSeparate
  <1>7. SuccessKnown'
    <2>. SUFFICES ASSUME NEW r \in Socks, success'[r].at # "none"
                  PROVE  /\ sock'[success'[r].ctx].mac = sock'[r].mac
                         /\ success'[r].at = "own" =>
                               \A n \in Macs : p2pTrySocks'[n] # r
      BY DEF SuccessKnown
    <2>1. CASE r # s
      BY <2>1, <1>1, <1>2, <1>3, <1>5 DEF ServiceInv, SuccessKnown
    <2>2. CASE r = s /\ p2pTrySocks[m] # None
      BY <2>2, <1>1, <1>3, <1>4, <1>5
         DEF ServiceInv, ContextsSeparate, EntriesNamed
    <2>3. CASE r = s /\ p2pTrySocks[m] = None
      <3>1. \A n \in Macs : p2pTrySocks[n] = s => n = m
        BY <1>4, ConstantsAssumption
           DEF ServiceInv, ContextsSeparate, EntriesNamed
      <3>. QED
        BY <2>3, <3>1, <1>2, <1>5, ConstantsAssumption
    <2>. QED
      BY <2>1, <2>2, <2>3
  <1>8. TryIsDialedOrOpen'
    BY <1>1, <1>2, <1>3 DEF ServiceInv, TryIsDialedOrOpen
  <1>9. DialersKnown'
    BY <1>1, <1>2, <1>3 DEF ServiceInv, DialersKnown
  <1>10. RoundsCounted'
    BY <1>3 DEF RoundsCounted
  <1>. QED
    BY <1>6, <1>7, <1>8, <1>9, <1>10 DEF ServiceInv

\* The Store of P2PSuccess: a context that is still being tried is from now
\* on in both maps, with its promotion under way; one that establishes itself
\* is not being tried.
LEMMA StoreStep ==
    ASSUME TypeOK, ServiceInv, NEW s \in Socks,
           P2PSuccessStore(s) \/ P2PSuccessOwn(s)
    PROVE  ServiceInv'
  <1>. DEFINE c == IF success[s].at = "own" THEN s ELSE success[s].ctx
              m == sock[s].mac
  <1>1. /\ UNCHANGED <<p2pTrySocks, sock, pc, silentRounds>>
        /\ success[s].at \in {"store", "own"}
        /\ p2pSocks' = [p2pSocks EXCEPT ![m] = c]
    BY DEF P2PSuccessStore, P2PSuccessOwn
  <1>2. c \in Socks /\ sock[c].mac = m
    BY <1>1, SuccessCases DEF TypeOK, ServiceInv, SuccessKnown
  <1>3. /\ \A r \in Socks \ {s} : success'[r] = success[r]
        /\ success[s].at = "own" => success'[s] = NoSuccess
        /\ success[s].at = "store" =>
              success'[s] = [success[s] EXCEPT !.at = "delete"]
    BY DEF P2PSuccessStore, P2PSuccessOwn, TypeOK
  <1>4. success[s].at = "store" =>
           success'[s].at = "delete" /\ success'[s].ctx = c
                /\ success'[s] = [at |-> "delete", ctx |-> c]
    BY <1>3, SuccessCases DEF TypeOK
  <1>5. /\ \A n \in Macs \ {m} : p2pSocks'[n] = p2pSocks[n]
        /\ m \in Macs => p2pSocks'[m] = c
    BY <1>1 DEF TypeOK
  <1>6. success[s].at = "own" => \A n \in Macs : p2pTrySocks[n] # c
    BY DEF ServiceInv, SuccessKnown
  <1>. HIDE DEF c
  <1>7. EntriesNamed'
    BY <1>1, <1>2, <1>5 DEF ServiceInv, ContextsSeparate, EntriesNamed
  <1>8. SharedInPromotion'
    <2>. SUFFICES ASSUME NEW n \in Macs, NEW k \in Macs,
                         p2pTrySocks'[n] # None, p2pTrySocks'[n] = p2pSocks'[k]
                  PROVE  \E r \in Socks :
                            success'[r] = [at |-> "delete", ctx |-> p2pTrySocks'[n]]
      BY DEF SharedInPromotion
    <2>1. CASE k = m
      BY <2>1, <1>1, <1>4, <1>5, <1>6
    <2>2. CASE k # m
      <3>1. PICK r \in Socks :
              success[r] = [at |-> "delete", ctx |-> p2pTrySocks[n]]
        BY <2>2, <1>1, <1>5
           DEF ServiceInv, ContextsSeparate, SharedInPromotion
      <3>2. r # s
        BY <3>1, <1>1
      <3>. QED
        BY <3>1, <3>2, <1>1, <1>3
    <2>. QED
      BY <2>1, <2>2
  <1>9. SuccessKnown'
    BY <1>1, <1>2, <1>3, <1>4, SuccessCases DEF ServiceInv, SuccessKnown
  <1>. QED
    BY <1>1, <1>7, <1>8, <1>9
    DEF ServiceInv, ContextsSeparate, TryIsDialedOrOpen, DialersKnown,
        RoundsCounted

\* The Delete of P2PSuccess: no context of its mac is being tried any more.
LEMMA DeleteStep ==
    ASSUME TypeOK, ServiceInv, NEW s \in Socks, P2PSuccessDelete(s)
    PROVE  ServiceInv'
  <1>. DEFINE m == sock[s].mac
  <1>1. /\ UNCHANGED <<p2pSocks, pc, silentRounds>>
        /\ p2pTrySocks' = Without(p2pTrySocks, {m})
        /\ success' = [success EXCEPT ![s] = NoSuccess]
        /\ success[s].at = "delete"
    BY DEF P2PSuccessDelete
  <1>2. \A n \in Macs : p2pTrySocks'[n] # None =>
           n # m /\ p2pTrySocks'[n] = p2pTrySocks[n]
    BY <1>1 DEF Without
  <1>3. /\ \A r \in Socks \ {s} : success'[r] = success[r]
        /\ success'[s].at = "none"
    BY <1>1, SuccessCases DEF TypeOK
  <1>4. \A c \in Socks : /\ sock'[c].mac = sock[c].mac
                         /\ sock'[c].pings = sock[c].pings
                         /\ HandlerSet(sock[c]) => HandlerSet(sock'[c])
    <2>1. CASE sock' = sock
      BY <2>1
    <2>2. CASE sock' = [sock EXCEPT ![s].chan = "closed"]
      BY <2>2 DEF TypeOK, PeerCtx, HandlerSet
    <2>. QED
      BY <2>1, <2>2 DEF P2PSuccessDelete
  <1>5. /\ \A n \in Macs : p2pTrySocks[n] # None => p2pTrySocks[n] \in Socks
        /\ \A n \in Macs : p2pSocks[n] # None => p2pSocks[n] \in Socks
        /\ \A u \in Threads : pc[u].at = "dialPeer" => pc[u].ctx \in Socks
        /\ \A r \in Socks : success[r].at # "none" => success[r].ctx \in Socks
    BY PcCases, SuccessCases DEF TypeOK
  <1>6. EntriesNamed'
    <2>1. \A n \in Macs : p2pTrySocks'[n] # None
                             => sock'[p2pTrySocks'[n]].mac = n
      BY <1>2, <1>4, <1>5 DEF ServiceInv, ContextsSeparate, EntriesNamed
    <2>2. \A n \in Macs : p2pSocks'[n] # None => sock'[p2pSocks'[n]].mac = n
      BY <1>1, <1>4, <1>5 DEF ServiceInv, ContextsSeparate, EntriesNamed
    <2>. QED
      BY <2>1, <2>2 DEF EntriesNamed
  <1>7. SharedInPromotion'
    <2>. SUFFICES ASSUME NEW n \in Macs, NEW k \in Macs,
                         p2pTrySocks'[n] # None, p2pTrySocks'[n] = p2pSocks'[k]
                  PROVE  \E r \in Socks :
                            success'[r] = [at |-> "delete", ctx |-> p2pTrySocks'[n]]
      BY DEF SharedInPromotion
    <2>1. /\ n # m /\ p2pTrySocks'[n] = p2pTrySocks[n]
          /\ sock[p2pTrySocks[n]].mac = n
      BY <1>2 DEF ServiceInv, ContextsSeparate, EntriesNamed
    <2>2. PICK r \in Socks :
             success[r] = [at |-> "delete", ctx |-> p2pTrySocks[n]]
      BY <2>1, <1>1 DEF ServiceInv, ContextsSeparate, SharedInPromotion
    <2>3. sock[success[s].ctx].mac = m
      BY <1>1 DEF ServiceInv, SuccessKnown
    <2>4. r # s
      BY <2>1, <2>2, <2>3
    <2>. QED
      BY <2>1, <2>2, <2>4, <1>3
  <1>8. SuccessKnown'
    BY <1>2, <1>3, <1>4, <1>5, ConstantsAssumption
       DEF ServiceInv, SuccessKnown
  <1>9. TryIsDialedOrOpen'
    <2>. SUFFICES ASSUME NEW n \in Macs, p2pTrySocks'[n] # None,
                         ~ HandlerSet(sock'[p2pTrySocks'[n]])
                  PROVE  \E u \in Readers : /\ pc'[u].at = "dialPeer"
                                            /\ pc'[u].ctx = p2pTrySocks'[n]
      BY DEF TryIsDialedOrOpen
    <2>1. /\ p2pTrySocks'[n] = p2pTrySocks[n] /\ p2pTrySocks[n] # None
          /\ ~ HandlerSet(sock[p2pTrySocks[n]])
      BY <1>2, <1>4, <1>5
    <2>. QED
      BY <2>1, <1>1 DEF ServiceInv, TryIsDialedOrOpen
  <1>10. DialersKnown'
    BY <1>1, <1>4, <1>5 DEF ServiceInv, DialersKnown
  <1>11. RoundsCounted'
    BY <1>1, <1>4 DEF ServiceInv, RoundsCounted
  <1>. QED
    BY <1>6, <1>7, <1>8, <1>9, <1>10, <1>11 DEF ServiceInv, ContextsSeparate

\* A step that stops contexts and takes their entries out.
LEMMA StopsAndRemoves ==
    ASSUME TypeOK, ServiceInv, NEW C, sock' = StopAll(C, sock),
           \A m \in Macs : /\ p2pTrySocks'[m] \in {None, p2pTrySocks[m]}
                           /\ p2pSocks'[m] \in {None, p2pSocks[m]},
           UNCHANGED <<pc, success, silentRounds>>
    PROVE  ServiceInv'
  <1>1. \A s \in Socks : /\ sock'[s].mac = sock[s].mac
                         /\ HandlerSet(sock[s]) => HandlerSet(sock'[s])
                         /\ sock'[s].pings = sock[s].pings
    BY StopAllPeers DEF TypeOK
  <1>2. \A s \in Socks : silentRounds'[s] <= sock'[s].pings
    BY <1>1 DEF ServiceInv, RoundsCounted
  <1>. QED
    BY <1>1, <1>2, OnlyRemoves

\* Every step keeps the invariant, action by action.
LEMMA ServiceNext == TypeOK /\ ServiceInv /\ [Next]_vars => ServiceInv'
  <1>. SUFFICES ASSUME TypeOK, ServiceInv, [Next]_vars PROVE ServiceInv'
    OBVIOUS
  <1>. USE DEF maps, fails
  <1>1. ASSUME NEW m \in Macs, TryForwardMessage(m) PROVE ServiceInv'
    <2>1. Tap \in Threads /\ pc[Tap] = Idle /\ StartPunch(Tap, m)
      BY <1>1 DEF TryForwardMessage, Threads
    <2>. QED
      BY <1>1, <2>1, StartPunchMoves, PeersUntouched DEF TryForwardMessage
  <1>2. ASSUME NEW t \in Threads, newPunchSock(t) PROVE ServiceInv'
    <2>1. PICK p : pc' = [pc EXCEPT ![t] = At("dialPunch", pc[t].mac, p)]
      BY <1>2 DEF newPunchSock
    <2>2. \A u \in Threads : \/ pc'[u] = pc[u]
                             \/ /\ pc[u].at # "dialPeer"
                                /\ pc'[u].at # "dialPeer"
      BY <1>2, <2>1 DEF newPunchSock, TypeOK, At
    <2>. QED
      BY <1>2, <2>2, PeersUntouched DEF newPunchSock
  <1>3. ASSUME NEW t \in Threads, PunchActive(t) PROVE ServiceInv'
    <2>1. \A u \in Threads : \/ pc'[u] = pc[u]
                             \/ /\ pc[u].at # "dialPeer"
                                /\ pc'[u].at # "dialPeer"
      BY <1>3 DEF PunchActive, TypeOK, At
    <2>. QED
      BY <1>3, <2>1, PeersUntouched DEF PunchActive
  <1>4. ASSUME NEW t \in Threads, PunchRefused(t) PROVE ServiceInv'
    <2>1. \A u \in Threads : \/ pc'[u] = pc[u]
                             \/ /\ pc[u].at # "dialPeer"
                                /\ pc'[u].at # "dialPeer"
      BY <1>4, PcValues DEF PunchRefused, TypeOK
    <2>. QED
      BY <1>4, <2>1, PeersUntouched DEF PunchRefused
  <1>5. ASSUME NEW t \in Threads, PunchBound(t) PROVE ServiceInv'
    <2>1. \A u \in Threads : \/ pc'[u] = pc[u]
                             \/ /\ pc[u].at # "dialPeer"
                                /\ pc'[u].at # "dialPeer"
      BY <1>5, PcValues DEF PunchBound, TypeOK
    <2>. QED
      BY <1>5, <2>1, PeersUntouched DEF PunchBound
  <1>6. ASSUME NEW t \in Threads, PeerActive(t) \/ PeerRefused(t)
        PROVE  ServiceInv'
    BY <1>6, DialEnds
  <1>7. ASSUME NEW t \in Readers, NEW m \in Macs, ProcessP2PTrigger(t, m)
        PROVE  ServiceInv'
    <2>1. t \in Threads /\ pc[t] = Idle /\ StartPunch(t, m)
      BY <1>7 DEF ProcessP2PTrigger, Threads
    <2>. QED
      BY <1>7, <2>1, StartPunchMoves, PeersUntouched DEF ProcessP2PTrigger
  <1>8. ASSUME NEW t \in Readers, NEW m \in Macs, ProcessP2PAckInvalid(t, m)
        PROVE  ServiceInv'
    BY <1>8, PeersUntouched DEF ProcessP2PAckInvalid
  <1>9. ASSUME NEW t \in Readers, NEW m \in Macs, ProcessP2PAck(t, m)
        PROVE  ServiceInv'
    BY <1>9, AckStep
  <1>10. ASSUME NEW t \in Readers, NEW m \in Macs, PeerStateChanged(t, m)
         PROVE  ServiceInv'
    <2>1. \A n \in Macs : /\ p2pTrySocks'[n] \in {None, p2pTrySocks[n]}
                          /\ p2pSocks'[n] \in {None, p2pSocks[n]}
      BY <1>10, DroppedEntries DEF PeerStateChanged, TypeOK
    <2>. QED
      BY <1>10, <2>1, StopsAndRemoves DEF PeerStateChanged
  <1>11. ASSUME NEW t \in Readers, ResetP2PSocks(t) PROVE ServiceInv'
    <2>1. \A n \in Macs : /\ p2pTrySocks'[n] \in {None, p2pTrySocks[n]}
                          /\ p2pSocks'[n] \in {None, p2pSocks[n]}
      BY <1>11, DroppedEntries DEF ResetP2PSocks, TypeOK
    <2>. QED
      BY <1>11, <2>1, StopsAndRemoves DEF ResetP2PSocks
  <1>12. ASSUME NEW s \in Socks, PeerRead(s) PROVE ServiceInv'
    <2>1. PICK n \in AfterRead(s) : sock' = [sock EXCEPT ![s] = Heard(s, n)]
      BY <1>12 DEF PeerRead
    <2>2. silentRounds' = [silentRounds EXCEPT ![s] = 0]
      BY <1>12 DEF PeerRead
    <2>3. /\ sock'[s].mac = sock[s].mac
          /\ sock'[s].chan = sock[s].chan
          /\ silentRounds'[s] <= sock'[s].pings
      <3>1. sock'[s] = Heard(s, n) /\ silentRounds'[s] = 0
        BY <2>1, <2>2 DEF TypeOK
      <3>. QED
        BY <3>1, HeardType
    <2>4. \A c \in Socks \ {s} : /\ sock'[c] = sock[c]
                                 /\ silentRounds'[c] = silentRounds[c]
      BY <2>1, <2>2 DEF TypeOK
    <2>5. \A c \in Socks : /\ sock'[c].mac = sock[c].mac
                           /\ HandlerSet(sock[c]) => HandlerSet(sock'[c])
                           /\ silentRounds'[c] <= sock'[c].pings
      BY <2>3, <2>4 DEF HandlerSet, ServiceInv, RoundsCounted
    <2>. QED
      BY <1>12, <2>5, OnlyRemoves DEF PeerRead
  <1>13. ASSUME NEW s \in Socks, PeerReadTry(s) PROVE ServiceInv'
    BY <1>13, ReadTryStep
  <1>26. ASSUME NEW s \in Socks, P2PSuccess(s) PROVE ServiceInv'
    BY <1>26, StoreStep, DeleteStep DEF P2PSuccess
  <1>14. ASSUME NEW s \in Socks, ReadIdle(s) PROVE ServiceInv'
    <2>1. /\ Saturate(sock[s].pings, PingLimit) \in 0..PingLimit
          /\ sock[s].pings <= Saturate(sock[s].pings, PingLimit)
          /\ sock[s].pings \in 0..PingLimit
      BY SaturateRange, ConstantsAssumption DEF TypeOK, PeerCtx
    <2>2. /\ sock'[s].mac = sock[s].mac
          /\ sock'[s].chan = sock[s].chan
          /\ sock'[s].pings = Saturate(sock[s].pings, PingLimit)
          /\ \A c \in Socks \ {s} : sock'[c] = sock[c]
          /\ silentRounds' = silentRounds
      BY <1>14 DEF ReadIdle, TypeOK, PeerCtx
    <2>3. silentRounds'[s] <= sock'[s].pings
      BY <2>1, <2>2, ConstantsAssumption
         DEF ServiceInv, RoundsCounted, TypeOK
    <2>4. \A c \in Socks : /\ sock'[c].mac = sock[c].mac
                           /\ HandlerSet(sock[c]) => HandlerSet(sock'[c])
                           /\ silentRounds'[c] <= sock'[c].pings
      BY <2>2, <2>3 DEF HandlerSet, ServiceInv, RoundsCounted
    <2>. QED
      BY <1>14, <2>4, OnlyRemoves DEF ReadIdle
  <1>15. ASSUME NEW s \in Socks, SockClosed(s) \/ GoSilent(s)
         PROVE  ServiceInv'
    <2>1. \A c \in Socks : /\ sock'[c].mac = sock[c].mac
                           /\ HandlerSet(sock[c]) => HandlerSet(sock'[c])
                           /\ sock'[c].pings = sock[c].pings
      <3>1. CASE SockClosed(s)
        BY <3>1 DEF SockClosed, TypeOK, PeerCtx, HandlerSet
      <3>2. CASE GoSilent(s)
        BY <3>2 DEF GoSilent, TypeOK, PeerCtx, HandlerSet
      <3>. QED
        BY <1>15, <3>1, <3>2
    <2>2. UNCHANGED <<p2pTrySocks, p2pSocks, pc, success, silentRounds>>
      BY <1>15 DEF SockClosed, GoSilent
    <2>3. \A c \in Socks : silentRounds'[c] <= sock'[c].pings
      BY <2>1, <2>2 DEF ServiceInv, RoundsCounted
    <2>. QED
      BY <2>1, <2>2, <2>3, OnlyRemoves
  <1>16. ASSUME NEW p \in Punches, PunchClosed(p) \/ Expire(p)
         PROVE  ServiceInv'
    BY <1>16, PeersUntouched DEF PunchClosed, Expire
  <1>17. ASSUME NEW m \in Macs, CoolDown(m) PROVE ServiceInv'
    BY <1>17, PeersUntouched DEF CoolDown
  <1>18. CASE RangeP2P
    <2>1. PICK late \in SUBSET Socks : RangeP2PStep(late)
      BY <1>18, RangeP2PSteps
    <2>2. \A s \in Socks : /\ sock'[s].mac = sock[s].mac
                           /\ HandlerSet(sock[s]) => HandlerSet(sock'[s])
                           /\ silentRounds'[s] <= sock'[s].pings
      BY <2>1, RangeP2PTypes DEF ServiceInv, RoundsCounted
    <2>. QED
      BY <1>18, <2>2, OnlyRemoves DEF RangeP2P
  <1>19. CASE DeleteP2P
    <2>1. \A n \in Macs : /\ p2pTrySocks'[n] \in {None, p2pTrySocks[n]}
                          /\ p2pSocks'[n] \in {None, p2pSocks[n]}
      BY <1>19, DroppedEntries DEF DeleteP2P, TypeOK
    <2>2. UNCHANGED <<sock, pc, success, silentRounds>>
      BY <1>19 DEF DeleteP2P
    <2>. QED
      BY <2>1, <2>2, OnlyRemoves DEF ServiceInv, RoundsCounted
  <1>20. CASE RangeTry
    <2>1. UNCHANGED <<p2pSocks, pc, success, silentRounds>>
      BY <1>20 DEF RangeTry
    <2>2. \A s \in Socks : /\ sock'[s].mac = sock[s].mac
                           /\ HandlerSet(sock[s]) => HandlerSet(sock'[s])
                           /\ silentRounds'[s] <= sock'[s].pings
      BY <1>20, <2>1, RangeTryTypes DEF ServiceInv, RoundsCounted
    <2>. QED
      BY <1>20, <2>1, <2>2, RangeTryTypes, OnlyRemoves
  <1>21. CASE DeleteTry
    <2>1. \A n \in Macs : /\ p2pTrySocks'[n] \in {None, p2pTrySocks[n]}
                          /\ p2pSocks'[n] \in {None, p2pSocks[n]}
      BY <1>21, DroppedEntries DEF DeleteTry, TypeOK
    <2>2. UNCHANGED <<sock, pc, success, silentRounds>>
      BY <1>21 DEF DeleteTry
    <2>. QED
      BY <2>1, <2>2, OnlyRemoves DEF ServiceInv, RoundsCounted
  <1>22. CASE Stop
    BY <1>22, PeersUntouched DEF Stop
  <1>25. CASE Start
    <2>1. \A n \in Macs : /\ p2pTrySocks'[n] \in {None, p2pTrySocks[n]}
                          /\ p2pSocks'[n] \in {None, p2pSocks[n]}
      BY <1>25, DroppedEntries DEF Start, TypeOK
    <2>2. UNCHANGED <<sock, pc, success, silentRounds>>
      BY <1>25 DEF Start
    <2>. QED
      BY <2>1, <2>2, OnlyRemoves DEF ServiceInv, RoundsCounted
  <1>23. CASE stopP2pSockets
    <2>1. \A n \in Macs : /\ p2pTrySocks'[n] \in {None, p2pTrySocks[n]}
                          /\ p2pSocks'[n] \in {None, p2pSocks[n]}
      BY <1>23, DroppedEntries DEF stopP2pSockets, TypeOK
    <2>. QED
      BY <1>23, <2>1, StopsAndRemoves DEF stopP2pSockets
  <1>24. CASE UNCHANGED vars
    BY <1>24, PeersUntouched DEF vars
  <1>. QED
    BY <1>1, <1>2, <1>3, <1>4, <1>5, <1>6, <1>7, <1>8, <1>9, <1>10, <1>11,
       <1>12, <1>13, <1>14, <1>15, <1>16, <1>17, <1>18, <1>19, <1>20, <1>21,
       <1>22, <1>23, <1>24, <1>25, <1>26
    DEF Next, Dialing, ServerMessage, stateCheck

\* The inductive invariant holds in every state, together with the types it
\* is relative to.
THEOREM ServiceInvariant == Spec => [](TypeOK /\ ServiceInv)
  <1>1. Init => TypeOK /\ ServiceInv
    BY TypeInit, ServiceInit
  <1>2. TypeOK /\ ServiceInv /\ [Next]_vars => (TypeOK /\ ServiceInv)'
    BY TypeNext, ServiceNext
  <1>. QED
    BY <1>1, <1>2, PTL DEF Spec

\* For any number of peers, contexts and read loops: an entry of p2pTrySocks
\* or p2pSocks is for the mac of its context, and a context is in both maps
\* only while its promotion is between Store and Delete.
THEOREM ContextsAreSeparate == Spec => []ContextsSeparate
  BY ServiceInvariant, PTL DEF ServiceInv

\* No failed dial stays in p2pTrySocks, however many acknowledgements are
\* processed at once.
THEOREM TriesAreDialedOrOpen == Spec => []TryIsDialedOrOpen
  BY ServiceInvariant, PTL DEF ServiceInv

\* A silent context survives at most PingLimit sweeps, whatever resets of
\* PingTryCount are lost and however often stopped contexts come back.
THEOREM SilenceIsBounded == Spec => []SilenceBounded
  <1>1. TypeOK /\ ServiceInv => SilenceBounded
    BY ConstantsAssumption
    DEF TypeOK, ServiceInv, RoundsCounted, SilenceBounded, PeerCtx
  <1>. QED
    BY <1>1, ServiceInvariant, PTL

-----------------------------------------------------------------------------
(***************************************************************************)
(* The punch contexts.  Entries are given up by mac, so what keeps a live  *)
(* entry from being stopped by the failure of another is that an entry, a  *)
(* dialing goroutine and a context about to be removed agree on the mac.   *)
(***************************************************************************)

\* The contexts of a sweep come from the maps, where they have a mac.
LEMMA EntriesHaveMacs ==
    ASSUME TypeOK, ContextsSeparate
    PROVE  \A s \in Entries(p2pSocks, Macs) \cup Entries(p2pTrySocks, Macs) :
              s \in Socks /\ sock[s].mac \in Macs
  BY EntriesOf DEF ContextsSeparate, EntriesNamed, Entries, TypeOK

\* What the sweeps have marked for removal keeps its mac until it is removed.
LEMMA RemovedNext ==
    TypeOK /\ ServiceInv /\ RemovedKnown /\ [Next]_vars => RemovedKnown'
  <1>. SUFFICES ASSUME TypeOK, ServiceInv, RemovedKnown, [Next]_vars
                PROVE  RemovedKnown'
    OBVIOUS
  <1>0. ASSUME toRemove' = toRemove,
               \A s \in Socks : sock'[s].mac = sock[s].mac \/ sock'[s].mac \in Macs
        PROVE  RemovedKnown'
    BY <1>0 DEF RemovedKnown, TypeOK
  <1>1. CASE UNCHANGED <<sock, toRemove>>
    BY <1>0, <1>1
  <1>2. ASSUME NEW C, sock' = StopAll(C, sock), toRemove' = toRemove
        PROVE  RemovedKnown'
    BY <1>0, <1>2, StopAllPeers DEF TypeOK
  <1>3. ASSUME NEW t \in Readers, NEW m \in Macs, ProcessP2PAck(t, m)
        PROVE  RemovedKnown'
    <2>1. PICK s \in Socks : sock' = [sock EXCEPT ![s] = NewPeerCtx(m)]
      BY <1>3 DEF ProcessP2PAck
    <2>2. \A c \in Socks : sock'[c].mac = sock[c].mac \/ sock'[c].mac \in Macs
      BY <2>1, NewContexts DEF TypeOK
    <2>. QED
      BY <1>0, <1>3, <2>2 DEF ProcessP2PAck
  <1>4. ASSUME NEW t \in Threads, PeerActive(t) \/ PeerRefused(t)
        PROVE  RemovedKnown'
    <2>1. PICK ch : sock' = [sock EXCEPT ![pc[t].ctx].chan = ch]
      BY <1>4 DEF PeerActive, PeerRefused
    <2>2. \A c \in Socks : sock'[c].mac = sock[c].mac
      BY <2>1 DEF TypeOK, PeerCtx
    <2>. QED
      BY <1>0, <1>4, <2>2 DEF PeerActive, PeerRefused
  <1>5. ASSUME NEW s \in Socks, PeerRead(s) PROVE RemovedKnown'
    <2>1. PICK n \in AfterRead(s) : sock' = [sock EXCEPT ![s] = Heard(s, n)]
      BY <1>5 DEF PeerRead
    <2>2. \A c \in Socks : sock'[c].mac = sock[c].mac
      BY <2>1, HeardType DEF TypeOK
    <2>. QED
      BY <1>0, <1>5, <2>2 DEF PeerRead
  <1>6. ASSUME NEW s \in Socks, PeerReadTry(s) PROVE RemovedKnown'
    <2>1. PICK n \in AfterRead(s) : sock' = [sock EXCEPT ![s] = Heard(s, n)]
      BY <1>6 DEF PeerReadTry
    <2>2. \A c \in Socks : sock'[c].mac = sock[c].mac
      BY <2>1, HeardType DEF TypeOK
    <2>. QED
      BY <1>0, <1>6, <2>2 DEF PeerReadTry
  <1>21. ASSUME NEW s \in Socks, P2PSuccess(s) PROVE RemovedKnown'
    <2>1. sock' = sock \/ sock' = [sock EXCEPT ![s].chan = "closed"]
      BY <1>21 DEF P2PSuccess, P2PSuccessStore, P2PSuccessOwn, P2PSuccessDelete
    <2>2. \A c \in Socks : sock'[c].mac = sock[c].mac
      BY <2>1 DEF TypeOK, PeerCtx
    <2>3. toRemove' = toRemove
      BY <1>21 DEF P2PSuccess, P2PSuccessStore, P2PSuccessOwn, P2PSuccessDelete
    <2>. QED
      BY <1>0, <2>2, <2>3
  <1>7. ASSUME NEW s \in Socks, ReadIdle(s) PROVE RemovedKnown'
    <2>1. \A c \in Socks : sock'[c].mac = sock[c].mac
      BY <1>7 DEF ReadIdle, TypeOK, PeerCtx
    <2>. QED
      BY <1>0, <1>7, <2>1 DEF ReadIdle
  <1>8. ASSUME NEW s \in Socks, SockClosed(s) PROVE RemovedKnown'
    <2>1. \A c \in Socks : sock'[c].mac = sock[c].mac
      BY <1>8 DEF SockClosed, TypeOK, PeerCtx
    <2>. QED
      BY <1>0, <1>8, <2>1 DEF SockClosed
  <1>9. ASSUME NEW s \in Socks, GoSilent(s) PROVE RemovedKnown'
    <2>1. \A c \in Socks : sock'[c].mac = sock[c].mac
      BY <1>9 DEF GoSilent, TypeOK, PeerCtx
    <2>. QED
      BY <1>0, <1>9, <2>1 DEF GoSilent
  <1>10. CASE RangeP2P
    <2>1. PICK late \in SUBSET Socks : RangeP2PStep(late)
      BY <1>10, RangeP2PSteps
    <2>2. toRemove' \subseteq Entries(p2pSocks, Macs)
      BY <2>1 DEF RangeP2PStep, DeadIn, SilentIn
    <2>3. \A s \in Socks : sock'[s].mac = sock[s].mac
      BY <2>1, RangeP2PTypes
    <2>. QED
      BY <2>2, <2>3, EntriesHaveMacs DEF ServiceInv, RemovedKnown
  <1>11. CASE RangeTry
    <2>1. toRemove' \subseteq Entries(p2pTrySocks, Macs)
      BY <1>11 DEF RangeTry
    <2>2. \A s \in Socks : sock'[s].mac = sock[s].mac
      BY <1>11, RangeTryTypes
    <2>. QED
      BY <2>1, <2>2, EntriesHaveMacs DEF ServiceInv, RemovedKnown
  <1>12. CASE DeleteP2P \/ DeleteTry
    BY <1>12 DEF DeleteP2P, DeleteTry, RemovedKnown
  <1>13. ASSUME NEW t \in Readers, NEW m \in Macs, PeerStateChanged(t, m)
         PROVE  RemovedKnown'
    BY <1>2, <1>13 DEF PeerStateChanged
  <1>14. ASSUME NEW t \in Readers, ResetP2PSocks(t) PROVE RemovedKnown'
    BY <1>2, <1>14 DEF ResetP2PSocks
  <1>15. CASE stopP2pSockets
    BY <1>2, <1>15 DEF stopP2pSockets
  <1>16. ASSUME NEW t \in Threads,
                \/ newPunchSock(t) \/ PunchActive(t) \/ PunchRefused(t)
                \/ PunchBound(t)
         PROVE  RemovedKnown'
    BY <1>1, <1>16 DEF newPunchSock, PunchActive, PunchRefused, PunchBound
  <1>17. ASSUME NEW t \in Readers, NEW m \in Macs,
                ProcessP2PTrigger(t, m) \/ ProcessP2PAckInvalid(t, m)
         PROVE  RemovedKnown'
    BY <1>1, <1>17 DEF ProcessP2PTrigger, ProcessP2PAckInvalid
  <1>18. ASSUME NEW m \in Macs, TryForwardMessage(m) \/ CoolDown(m)
         PROVE  RemovedKnown'
    BY <1>1, <1>18 DEF TryForwardMessage, CoolDown
  <1>19. ASSUME NEW p \in Punches, PunchClosed(p) \/ Expire(p)
         PROVE  RemovedKnown'
    BY <1>1, <1>19 DEF PunchClosed, Expire
  <1>20. CASE Stop \/ Start \/ UNCHANGED vars
    BY <1>1, <1>20 DEF Stop, Start, vars
  <1>. QED
    BY <1>3, <1>4, <1>5, <1>6, <1>7, <1>8, <1>9, <1>10, <1>11, <1>12, <1>13,
       <1>14, <1>15, <1>16, <1>17, <1>18, <1>19, <1>20, <1>21
    DEF Next, Dialing, ServerMessage, stateCheck

\* A step that keeps or drops entries, where the context of an entry that is
\* kept is left alone, with the goroutine dialing it, or is opened.
LEMMA PunchesKept ==
    ASSUME TypeOK, PunchIsDialedOrOpen, PunchersKnown,
           \A m \in Macs : punchSocks'[m] # None =>
               /\ punchSocks'[m] = punchSocks[m]
               /\ \/ HandlerSet(punch'[punchSocks[m]])
                  \/ /\ punch'[punchSocks[m]].chan = punch[punchSocks[m]].chan
                     /\ \A t \in Threads :
                           pc[t] = At("dialPunch", m, punchSocks[m])
                              => pc'[t] = pc[t],
           \A p \in Punches : punch'[p].mac = punch[p].mac,
           \A t \in Threads : pc'[t].at = "dialPunch" => pc'[t] = pc[t]
    PROVE  PunchIsDialedOrOpen' /\ PunchersKnown'
  <1>1. /\ \A m \in Macs : punchSocks[m] # None => punchSocks[m] \in Punches
        /\ \A t \in Threads : pc[t].at = "dialPunch" => pc[t].ctx \in Punches
    BY PcCases DEF TypeOK
  <1>2. PunchIsDialedOrOpen'
    <2>. SUFFICES ASSUME NEW m \in Macs, punchSocks'[m] # None
                  PROVE  LET p == punchSocks'[m] IN
                           /\ punch'[p].mac = m
                           /\ \/ HandlerSet(punch'[p])
                              \/ /\ punch'[p].chan = "dialing"
                                 /\ \E t \in Threads :
                                       pc'[t] = At("dialPunch", m, p)
      BY DEF PunchIsDialedOrOpen
    <2>1. punchSocks'[m] = punchSocks[m] /\ punchSocks[m] \in Punches
      BY <1>1
    <2>2. punch'[punchSocks[m]].mac = m
      BY <2>1 DEF PunchIsDialedOrOpen
    <2>3. CASE HandlerSet(punch'[punchSocks[m]])
      BY <2>1, <2>2, <2>3
    <2>4. CASE ~ HandlerSet(punch'[punchSocks[m]])
      <3>1. ~ HandlerSet(punch[punchSocks[m]])
        BY <2>1, <2>4 DEF HandlerSet
      <3>2. PICK t \in Threads : pc[t] = At("dialPunch", m, punchSocks[m])
        BY <2>1, <3>1 DEF PunchIsDialedOrOpen
      <3>3. punch[punchSocks[m]].chan = "dialing"
        BY <2>1, <3>1 DEF PunchIsDialedOrOpen
      <3>. QED
        BY <2>1, <2>2, <2>4, <3>2, <3>3
    <2>. QED
      BY <2>3, <2>4
  <1>3. PunchersKnown'
    BY <1>1 DEF PunchersKnown
  <1>. QED
    BY <1>2, <1>3

\* A step of the peer contexts.
LEMMA PunchesUntouched ==
    ASSUME TypeOK, PunchIsDialedOrOpen, PunchersKnown,
           UNCHANGED <<punch, punchSocks>>,
           \A t \in Threads : \/ pc'[t] = pc[t]
                              \/ /\ pc[t].at # "dialPunch"
                                 /\ pc'[t].at # "dialPunch"
    PROVE  PunchIsDialedOrOpen' /\ PunchersKnown'
  <1>1. \A m \in Macs, t \in Threads :
           pc[t] = At("dialPunch", m, punchSocks[m]) => pc'[t] = pc[t]
    BY DEF At
  <1>. QED
    BY <1>1, PunchesKept

\* Giving up the macs of M stops no context that keeps its entry.
LEMMA StopAllOthers ==
    ASSUME TypeOK, PunchIsDialedOrOpen, NEW P \in [Punches -> PunchCtx],
           NEW M \in SUBSET Macs, NEW C \in SUBSET Entries(punchSocks, M),
           NEW m \in Macs \ M, punchSocks[m] # None
    PROVE  StopAll(C, P)[punchSocks[m]] = P[punchSocks[m]]
  <1>1. punchSocks[m] \in Punches /\ punch[punchSocks[m]].mac = m
    BY DEF TypeOK, PunchIsDialedOrOpen
  <1>2. \A q \in Entries(punchSocks, M) : punch[q].mac \in M
    BY DEF Entries, PunchIsDialedOrOpen
  <1>. QED
    BY <1>1, <1>2 DEF StopAll

\* Bootstrap.Stop keeps the mac of a punch context.
LEMMA StopKeepsMac ==
    ASSUME NEW P \in [Punches -> PunchCtx], NEW C, NEW p \in Punches
    PROVE  StopAll(C, P)[p].mac = P[p].mac
  <1>1. Stopped(P[p]).mac = P[p].mac
    BY DEF Stopped, PunchCtx
  <1>. QED
    BY <1>1 DEF StopAll

\* saveFailPunchInfo drops what it stops, and keeps the rest.
LEMMA SaveFailKeeps ==
    ASSUME TypeOK, PunchIsDialedOrOpen, PunchersKnown, NEW M \in SUBSET Macs,
           saveFailPunchInfo(M, punch), pc' = pc
    PROVE  PunchIsDialedOrOpen' /\ PunchersKnown'
  <1>1. /\ punch' = StopAll(Entries(punchSocks, M), punch)
        /\ punchSocks' = Without(punchSocks, M)
        /\ punch \in [Punches -> PunchCtx]
    BY DEF saveFailPunchInfo, TypeOK
  <1>2. \A m \in Macs : punchSocks'[m] # None =>
           /\ m \notin M
           /\ punchSocks'[m] = punchSocks[m]
    BY <1>1 DEF Without
  <1>3. \A m \in Macs : punchSocks'[m] # None =>
           punch'[punchSocks[m]] = punch[punchSocks[m]]
    BY <1>1, <1>2, StopAllOthers
  <1>4. \A p \in Punches : punch'[p].mac = punch[p].mac
    BY <1>1, StopKeepsMac
  <1>. QED
    BY <1>2, <1>3, <1>4, PunchesKept

\* The test of StartPunch, and the expired context it drops.
LEMMA StartPunchKeeps ==
    ASSUME TypeOK, PunchIsDialedOrOpen, PunchersKnown, NEW t \in Threads,
           pc[t] = Idle, NEW m \in Macs, StartPunch(t, m)
    PROVE  PunchIsDialedOrOpen' /\ PunchersKnown'
  <1>1. CASE /\ punchSocks[m] # None
             /\ punch' = StopAll({punchSocks[m]}, punch)
             /\ punchSocks' = Without(punchSocks, {m})
             /\ UNCHANGED pc
    <2>1. /\ punch \in [Punches -> PunchCtx]
          /\ {punchSocks[m]} \in SUBSET Entries(punchSocks, {m})
      BY <1>1 DEF TypeOK, Entries
    <2>2. \A n \in Macs : punchSocks'[n] # None =>
             n # m /\ punchSocks'[n] = punchSocks[n]
      BY <1>1 DEF Without
    <2>3. \A n \in Macs : punchSocks'[n] # None =>
             punch'[punchSocks[n]] = punch[punchSocks[n]]
      BY <1>1, <2>1, <2>2, StopAllOthers
    <2>4. \A p \in Punches : punch'[p].mac = punch[p].mac
      BY <1>1, <2>1, StopKeepsMac
    <2>. QED
      BY <1>1, <2>2, <2>3, <2>4, PunchesKept
  <1>2. CASE /\ pc' = [pc EXCEPT ![t] = At("store", m, None)]
             /\ UNCHANGED <<punch, punchSocks>>
    <2>1. \A u \in Threads : \/ pc'[u] = pc[u]
                             \/ /\ pc[u].at # "dialPunch"
                                /\ pc'[u].at # "dialPunch"
      BY <1>2 DEF TypeOK, Idle, At
    <2>. QED
      BY <1>2, <2>1, PunchesUntouched
  <1>. QED
    BY <1>1, <1>2 DEF StartPunch

\* A new context is dialed by the goroutine that stored it.
LEMMA NewPunchStep ==
    ASSUME TypeOK, PunchIsDialedOrOpen, PunchersKnown, NEW t \in Threads,
           newPunchSock(t)
    PROVE  PunchIsDialedOrOpen' /\ PunchersKnown'
  <1>. DEFINE m == pc[t].mac
  <1>1. PICK p \in Punches :
          /\ FreePunch(p)
          /\ punch' = [punch EXCEPT ![p] = NewPunchCtx(m)]
          /\ punchSocks' = [punchSocks EXCEPT ![m] = p]
          /\ pc' = [pc EXCEPT ![t] = At("dialPunch", m, p)]
    BY DEF newPunchSock
  <1>2. m \in Macs /\ pc[t].at = "store"
    BY PcCases DEF newPunchSock, TypeOK
  <1>. HIDE DEF m
  <1>3. /\ pc'[t] = At("dialPunch", m, p)
        /\ \A u \in Threads \ {t} : pc'[u] = pc[u]
        /\ punchSocks'[m] = p
        /\ \A n \in Macs \ {m} : punchSocks'[n] = punchSocks[n]
        /\ punch'[p].mac = m /\ punch'[p].chan = "dialing"
        /\ \A q \in Punches \ {p} : punch'[q] = punch[q]
    BY <1>1, <1>2 DEF TypeOK, NewPunchCtx
  <1>4. /\ \A n \in Macs : punchSocks[n] # p
        /\ \A n \in Macs : punchSocks[n] # None => punchSocks[n] \in Punches
        /\ \A u \in Threads : pc[u].ctx # p
        /\ \A u \in Threads : pc[u].at = "dialPunch" => pc[u].ctx \in Punches
    BY <1>1, PcCases DEF FreePunch, TypeOK
  <1>5. PunchIsDialedOrOpen'
    <2>. SUFFICES ASSUME NEW n \in Macs, punchSocks'[n] # None
                  PROVE  LET q == punchSocks'[n] IN
                           /\ punch'[q].mac = n
                           /\ \/ HandlerSet(punch'[q])
                              \/ /\ punch'[q].chan = "dialing"
                                 /\ \E u \in Threads :
                                       pc'[u] = At("dialPunch", n, q)
      BY DEF PunchIsDialedOrOpen
    <2>1. CASE n = m
      BY <2>1, <1>3
    <2>2. CASE n # m
      <3>1. /\ punchSocks'[n] = punchSocks[n]
            /\ punch'[punchSocks[n]] = punch[punchSocks[n]]
        BY <2>2, <1>3, <1>4
      <3>2. CASE HandlerSet(punch[punchSocks[n]])
        BY <3>1, <3>2 DEF PunchIsDialedOrOpen
      <3>3. CASE ~ HandlerSet(punch[punchSocks[n]])
        <4>1. PICK u \in Threads : pc[u] = At("dialPunch", n, punchSocks[n])
          BY <3>1, <3>3 DEF PunchIsDialedOrOpen
        <4>2. u # t
          BY <4>1, <1>2 DEF At
        <4>. QED
          BY <3>1, <3>3, <4>1, <4>2, <1>3 DEF PunchIsDialedOrOpen
      <3>. QED
        BY <3>2, <3>3
    <2>. QED
      BY <2>1, <2>2
  <1>6. PunchersKnown'
    BY <1>3, <1>4 DEF PunchersKnown, At
  <1>. QED
    BY <1>5, <1>6

\* What the end of the dial of goroutine t does to the other entries: nothing,
\* because they are for other macs.
LEMMA DialedPunch ==
    ASSUME TypeOK, PunchIsDialedOrOpen, PunchersKnown, NEW t \in Threads,
           pc[t].at = "dialPunch", NEW ch \in ChanStates
    PROVE  LET P == [punch EXCEPT ![pc[t].ctx].chan = ch] IN
           /\ pc[t].mac \in Macs /\ pc[t].ctx \in Punches
           /\ P \in [Punches -> PunchCtx]
           /\ P[pc[t].ctx].chan = ch
           /\ \A p \in Punches : P[p].mac = punch[p].mac
           /\ \A p \in Punches \ {pc[t].ctx} : P[p] = punch[p]
           /\ \A m \in Macs \ {pc[t].mac} : punchSocks[m] # pc[t].ctx
  <1>1. pc[t].mac \in Macs /\ pc[t].ctx \in Punches
    BY PcCases DEF TypeOK
  <1>2. pc[t].ctx # None /\ punch[pc[t].ctx].mac = pc[t].mac
    BY <1>1, ConstantsAssumption DEF PunchersKnown
  <1>3. \A m \in Macs \ {pc[t].mac} : punchSocks[m] # pc[t].ctx
    BY <1>2 DEF PunchIsDialedOrOpen
  <1>4. \A p \in Punches : [punch[p] EXCEPT !.chan = ch] \in PunchCtx
    BY DEF TypeOK, PunchCtx
  <1>5. [punch EXCEPT ![pc[t].ctx].chan = ch] \in [Punches -> PunchCtx]
    BY <1>4 DEF TypeOK
  <1>6. \A p \in Punches : [punch[p] EXCEPT !.chan = ch].mac = punch[p].mac
    BY DEF TypeOK, PunchCtx
  <1>7. [punch[pc[t].ctx] EXCEPT !.chan = ch].chan = ch
    BY <1>1 DEF TypeOK, PunchCtx
  <1>. QED
    BY <1>1, <1>3, <1>5, <1>6, <1>7 DEF TypeOK

\* The end of a dial opens the context, or finds it already dropped.
LEMMA PunchActiveStep ==
    ASSUME TypeOK, PunchIsDialedOrOpen, PunchersKnown, NEW t \in Threads,
           PunchActive(t)
    PROVE  PunchIsDialedOrOpen' /\ PunchersKnown'
  <1>. DEFINE m == pc[t].mac
              c == pc[t].ctx
              P == [punch EXCEPT ![pc[t].ctx].chan = "open"]
              dead == {p \in Entries(punchSocks, {m}) : P[p].expired}
  <1>1. /\ pc[t].at = "dialPunch"
        /\ punch' = StopAll(dead, P)
        /\ punchSocks' = IF dead = {} THEN punchSocks
                                      ELSE Without(punchSocks, {m})
        /\ pc' = [pc EXCEPT ![t] = At("bind", m, c)]
    BY DEF PunchActive, SendP2PTrigger
  <1>2. /\ m \in Macs /\ c \in Punches
        /\ P \in [Punches -> PunchCtx]
        /\ P[c].chan = "open"
        /\ \A p \in Punches : P[p].mac = punch[p].mac
        /\ \A p \in Punches \ {c} : P[p] = punch[p]
        /\ \A n \in Macs \ {m} : punchSocks[n] # c
    <2>1. "open" \in ChanStates
      BY DEF ChanStates
    <2>. QED
      BY <1>1, <2>1, DialedPunch
  <1>3. dead \in SUBSET Entries(punchSocks, {m}) /\ {m} \in SUBSET Macs
    BY <1>2
  <1>4. \A p \in Punches : punch'[p].mac = punch[p].mac
    <2>. HIDE DEF P, dead
    <2>. QED
      BY <1>1, <1>2, StopKeepsMac
  <1>5. /\ pc'[t].at = "bind" /\ pc[t].ctx = c /\ pc[t].mac = m
        /\ \A u \in Threads \ {t} : pc'[u] = pc[u]
    BY <1>1 DEF TypeOK, At
  <1>6. \A n \in Macs : punchSocks[n] # None => punchSocks[n] \in Punches
    BY DEF TypeOK
  <1>. HIDE DEF P, dead, m, c
  <1>7. ASSUME NEW n \in Macs, punchSocks'[n] # None
        PROVE  /\ punchSocks'[n] = punchSocks[n]
               /\ \/ HandlerSet(punch'[punchSocks[n]])
                  \/ /\ punch'[punchSocks[n]].chan = punch[punchSocks[n]].chan
                     /\ \A u \in Threads :
                           pc[u] = At("dialPunch", n, punchSocks[n])
                              => pc'[u] = pc[u]
    <2>1. /\ punchSocks'[n] = punchSocks[n] /\ punchSocks[n] \in Punches
          /\ n = m => dead = {}
      BY <1>1, <1>6, <1>7 DEF Without
    <2>2. punch'[punchSocks[n]] = P[punchSocks[n]]
      <3>1. CASE n = m
        BY <1>1, <1>2, <2>1, <3>1 DEF StopAll
      <3>2. CASE n # m
        BY <1>1, <1>2, <1>3, <1>7, <2>1, <3>2, StopAllOthers
      <3>. QED
        BY <3>1, <3>2
    <2>3. CASE punchSocks[n] = c
      BY <1>2, <2>1, <2>2, <2>3 DEF HandlerSet
    <2>4. CASE punchSocks[n] # c
      <3>1. punch'[punchSocks[n]] = punch[punchSocks[n]]
        BY <1>2, <2>1, <2>2, <2>4
      <3>2. \A u \in Threads :
               pc[u] = At("dialPunch", n, punchSocks[n]) => u # t
        BY <1>5, <2>4 DEF At
      <3>. QED
        BY <1>5, <2>1, <3>1, <3>2
    <2>. QED
      BY <2>3, <2>4
  <1>8. \A u \in Threads : pc'[u].at = "dialPunch" => pc'[u] = pc[u]
    BY <1>5
  <1>. QED
    BY <1>4, <1>7, <1>8, PunchesKept

\* A failed dial gives up its mac, and with it the entry of its context.
LEMMA PunchRefusedStep ==
    ASSUME TypeOK, PunchIsDialedOrOpen, PunchersKnown, NEW t \in Threads,
           PunchRefused(t)
    PROVE  PunchIsDialedOrOpen' /\ PunchersKnown'
  <1>. DEFINE m == pc[t].mac
              c == pc[t].ctx
              P == [punch EXCEPT ![pc[t].ctx].chan = "refused"]
  <1>1. /\ pc[t].at = "dialPunch"
        /\ punch' = StopAll(Entries(punchSocks, {m}), P)
        /\ punchSocks' = Without(punchSocks, {m})
        /\ pc' = [pc EXCEPT ![t] = Idle]
    BY DEF PunchRefused, saveFailPunchInfo
  <1>2. /\ m \in Macs /\ c \in Punches
        /\ P \in [Punches -> PunchCtx]
        /\ \A p \in Punches : P[p].mac = punch[p].mac
        /\ \A p \in Punches \ {c} : P[p] = punch[p]
        /\ \A n \in Macs \ {m} : punchSocks[n] # c
    <2>1. "refused" \in ChanStates
      BY DEF ChanStates
    <2>. QED
      BY <1>1, <2>1, DialedPunch, SMTT(30)
  <1>3. \A p \in Punches : punch'[p].mac = punch[p].mac
    <2>. HIDE DEF P
    <2>. QED
      BY <1>1, <1>2, StopKeepsMac
  <1>4. /\ pc'[t].at = "idle" /\ pc[t].mac = m
        /\ \A u \in Threads \ {t} : pc'[u] = pc[u]
    BY <1>1, PcValues DEF TypeOK
  <1>5. \A n \in Macs : punchSocks[n] # None => punchSocks[n] \in Punches
    BY DEF TypeOK
  <1>. HIDE DEF P, m, c
  <1>6. ASSUME NEW n \in Macs, punchSocks'[n] # None
        PROVE  /\ punchSocks'[n] = punchSocks[n]
               /\ punch'[punchSocks[n]] = punch[punchSocks[n]]
               /\ \A u \in Threads :
                     pc[u] = At("dialPunch", n, punchSocks[n])
                        => pc'[u] = pc[u]
    <2>1. /\ punchSocks'[n] = punchSocks[n] /\ n # m
          /\ punchSocks[n] \in Punches
      BY <1>1, <1>5, <1>6 DEF Without
    <2>2. punch'[punchSocks[n]] = P[punchSocks[n]]
      BY <1>1, <1>2, <1>6, <2>1, StopAllOthers
    <2>3. \A u \in Threads :
             pc[u] = At("dialPunch", n, punchSocks[n]) => u # t
      BY <1>4, <2>1 DEF At
    <2>. QED
      BY <1>2, <1>4, <2>1, <2>2, <2>3
  <1>7. \A u \in Threads : pc'[u].at = "dialPunch" => pc'[u] = pc[u]
    BY <1>4
  <1>. QED
    BY <1>3, <1>6, <1>7, PunchesKept

\* Every step keeps the invariant of the punch contexts.
LEMMA PunchNext ==
    ASSUME TypeOK, PunchInv, [Next]_vars
    PROVE  PunchIsDialedOrOpen' /\ PunchersKnown'
  <1>. USE DEF maps, fails
  <1>0. PunchIsDialedOrOpen /\ PunchersKnown /\ RemovedKnown
    BY DEF PunchInv
  <1>. DEFINE Kept == PunchIsDialedOrOpen' /\ PunchersKnown'
  <1>. SUFFICES Kept
    OBVIOUS
  <1>1. ASSUME NEW m \in Macs, TryForwardMessage(m) PROVE Kept
    <2>1. Tap \in Threads /\ pc[Tap] = Idle /\ StartPunch(Tap, m)
      BY <1>1 DEF TryForwardMessage, Threads
    <2>. QED
      BY <1>0, <2>1, StartPunchKeeps
  <1>2. ASSUME NEW t \in Threads, newPunchSock(t) PROVE Kept
    BY <1>0, <1>2, NewPunchStep
  <1>3. ASSUME NEW t \in Threads, PunchActive(t) PROVE Kept
    BY <1>0, <1>3, PunchActiveStep
  <1>4. ASSUME NEW t \in Threads, PunchRefused(t) PROVE Kept
    BY <1>0, <1>4, PunchRefusedStep
  <1>5. ASSUME NEW t \in Threads, PunchBound(t) PROVE Kept
    <2>1. PICK b \in BOOLEAN : punch' = [punch EXCEPT ![pc[t].ctx].local = b]
      BY <1>5 DEF PunchBound
    <2>2. \A p \in Punches : /\ punch'[p].mac = punch[p].mac
                             /\ punch'[p].chan = punch[p].chan
      BY <2>1 DEF TypeOK, PunchCtx
    <2>3. /\ punchSocks' = punchSocks /\ pc[t].at = "bind"
          /\ pc'[t].at # "dialPunch"
          /\ \A u \in Threads \ {t} : pc'[u] = pc[u]
      BY <1>5, PcValues DEF PunchBound, TypeOK
    <2>4. \A m \in Macs : punchSocks[m] # None => punchSocks[m] \in Punches
      BY DEF TypeOK
    <2>5. \A m \in Macs, u \in Threads :
             pc[u] = At("dialPunch", m, punchSocks[m]) => pc'[u] = pc[u]
      BY <2>3 DEF At
    <2>. QED
      BY <1>0, <2>2, <2>3, <2>4, <2>5, PunchesKept
  <1>6. ASSUME NEW t \in Threads, PeerActive(t) \/ PeerRefused(t) PROVE Kept
    <2>1. \A u \in Threads : \/ pc'[u] = pc[u]
                             \/ /\ pc[u].at # "dialPunch"
                                /\ pc'[u].at # "dialPunch"
      BY <1>6, PcValues DEF PeerActive, PeerRefused, TypeOK
    <2>. QED
      BY <1>0, <1>6, <2>1, PunchesUntouched DEF PeerActive, PeerRefused
  <1>7. ASSUME NEW t \in Readers, NEW m \in Macs, ProcessP2PTrigger(t, m)
        PROVE  Kept
    <2>1. t \in Threads /\ pc[t] = Idle /\ StartPunch(t, m)
      BY <1>7 DEF ProcessP2PTrigger, Threads
    <2>. QED
      BY <1>0, <2>1, StartPunchKeeps
  <1>8. ASSUME NEW t \in Readers, NEW m \in Macs, ProcessP2PAckInvalid(t, m)
        PROVE  Kept
    <2>1. /\ saveFailPunchInfo({m}, punch) /\ pc' = pc
          /\ {m} \in SUBSET Macs
      BY <1>8 DEF ProcessP2PAckInvalid
    <2>. QED
      BY <1>0, <2>1, SaveFailKeeps
  <1>9. ASSUME NEW t \in Readers, NEW m \in Macs, ProcessP2PAck(t, m)
        PROVE  Kept
    <2>1. PICK s : pc' = [pc EXCEPT ![t] = At("dialPeer", m, s)]
      BY <1>9 DEF ProcessP2PAck
    <2>2. \A u \in Threads : \/ pc'[u] = pc[u]
                             \/ /\ pc[u].at # "dialPunch"
                                /\ pc'[u].at # "dialPunch"
      BY <1>9, <2>1 DEF ProcessP2PAck, TypeOK, Idle, At, Threads
    <2>. QED
      BY <1>0, <1>9, <2>2, PunchesUntouched DEF ProcessP2PAck
  <1>10. ASSUME NEW t \in Readers, ResetP2PSocks(t) PROVE Kept
    <2>1. \A m \in Macs : punchSocks'[m] = None
      BY <1>10 DEF ResetP2PSocks, Without
    <2>2. punch' = punch /\ pc' = pc
      BY <1>10 DEF ResetP2PSocks
    <2>. QED
      BY <1>0, <2>1, <2>2, PunchesKept
  <1>11. ASSUME NEW p \in Punches, PunchClosed(p) \/ Expire(p) PROVE Kept
    <2>1. punchSocks' = punchSocks /\ pc' = pc
      BY <1>11 DEF PunchClosed, Expire
    <2>2. \A q \in Punches :
             /\ punch'[q].mac = punch[q].mac
             /\ HandlerSet(punch'[q]) \/ punch'[q].chan = punch[q].chan
      <3>1. CASE PunchClosed(p)
        BY <3>1 DEF PunchClosed, TypeOK, PunchCtx, HandlerSet
      <3>2. CASE Expire(p)
        BY <3>2 DEF Expire, TypeOK, PunchCtx
      <3>. QED
        BY <1>11, <3>1, <3>2
    <2>3. \A m \in Macs : punchSocks[m] # None => punchSocks[m] \in Punches
      BY DEF TypeOK
    <2>. QED
      BY <1>0, <2>1, <2>2, <2>3, PunchesKept
  <1>19. CASE Start
    <2>1. \A m \in Macs : punchSocks'[m] = None
      BY <1>19 DEF Start, Without
    <2>2. punch' = punch /\ pc' = pc
      BY <1>19 DEF Start
    <2>. QED
      BY <1>0, <2>1, <2>2, PunchesKept
  <1>12. CASE DeleteTry
    <2>. DEFINE M == {sock[s].mac : s \in toRemove}
    <2>1. saveFailPunchInfo(M, punch) /\ pc' = pc
      BY <1>12 DEF DeleteTry
    <2>2. M \in SUBSET Macs
      BY <1>0 DEF RemovedKnown
    <2>. HIDE DEF M
    <2>. QED
      BY <1>0, <2>1, <2>2, SaveFailKeeps
  <1>13. CASE UNCHANGED <<punch, punchSocks, pc>>
    BY <1>0, <1>13, PunchesUntouched
  <1>14. ASSUME NEW s \in Socks,
                \/ PeerRead(s) \/ PeerReadTry(s) \/ ReadIdle(s)
                \/ SockClosed(s) \/ GoSilent(s) \/ P2PSuccess(s)
         PROVE  Kept
    BY <1>13, <1>14
    DEF PeerRead, PeerReadTry, ReadIdle, SockClosed, GoSilent, P2PSuccess,
        P2PSuccessStore, P2PSuccessOwn, P2PSuccessDelete
  <1>15. CASE RangeP2P \/ DeleteP2P \/ RangeTry \/ stopP2pSockets \/ Stop
    BY <1>13, <1>15 DEF RangeP2P, DeleteP2P, RangeTry, stopP2pSockets, Stop
  <1>16. ASSUME NEW t \in Readers, NEW m \in Macs, PeerStateChanged(t, m)
         PROVE  Kept
    BY <1>13, <1>16 DEF PeerStateChanged
  <1>17. ASSUME NEW m \in Macs, CoolDown(m) PROVE Kept
    BY <1>13, <1>17 DEF CoolDown
  <1>18. CASE UNCHANGED vars
    BY <1>13, <1>18 DEF vars
  <1>. HIDE DEF Kept
  <1>. QED
    BY <1>1, <1>2, <1>3, <1>4, <1>5, <1>6, <1>7, <1>8, <1>9, <1>10, <1>11,
       <1>12, <1>14, <1>15, <1>16, <1>17, <1>18, <1>19
    DEF Next, Dialing, ServerMessage, stateCheck

\* No failed, aborted or foreign context stays in punchSocks, for any number
\* of goroutines that punch towards the same peers.
THEOREM PunchesAreDialedOrOpen == Spec => []PunchIsDialedOrOpen
  <1>1. Init => PunchInv
    BY ConstantsAssumption
    DEF Init, PunchInv, PunchIsDialedOrOpen, PunchersKnown, RemovedKnown,
        Idle, At
  <1>2. TypeOK /\ ServiceInv /\ PunchInv /\ [Next]_vars => PunchInv'
    BY PunchNext, RemovedNext DEF PunchInv
  <1>3. PunchInv => PunchIsDialedOrOpen
    BY DEF PunchInv
  <1>. QED
    BY <1>1, <1>2, <1>3, ServiceInvariant, PTL DEF Spec

=============================================================================
