--------------------------- MODULE ServiceProofs ---------------------------
(***************************************************************************)
(* Proofs about four parts of a peer: the virtual network card and the     *)
(* requests to other peers, for every number of devices, readers, callers, *)
(* pages and polls; the configuration with its two writers, for every set  *)
(* of values of its fields and any number of saves and crashes; and the    *)
(* directory of the group, for any finite group and any number of answers, *)
(* changes and frames.                                                     *)
(***************************************************************************)
EXTENDS NetworkCard, PeerRequests, Configuration, PeerDirectory,
        FiniteSetTheorems, SequenceTheorems, TLAPS

(***************************************************************************)
(* The network card.                                                       *)
(***************************************************************************)
\* The fields of the card and its goroutines keep their types.
LEMMA CardTypeNext == CardTypeOK /\ [CardNext]_cardVars => CardTypeOK'
  <1>. SUFFICES ASSUME CardTypeOK, [CardNext]_cardVars PROVE CardTypeOK'
    OBVIOUS
  <1>. USE DEF CardTypeOK, CardStates, ReadSteps, StartSteps, Starters, Slot, StartAt, ReadAt
  <1>1. CASE CardCalled \/ CardAcked \/ CardStopping
    BY <1>1 DEF CardCalled, CardAcked, CardStopping
  <1>2. CASE CardStopped
    BY <1>2 DEF CardStopped, CloseTapper
  <1>3. ASSUME NEW g \in Starters, CardStep(g) PROVE CardTypeOK'
    <2>1. CASE CardTest(g) \/ CardSetupFails(g)
      BY <2>1 DEF CardTest, CardSetupFails
    <2>2. CASE CardCreate(g)
      BY <2>2 DEF CardCreate, CreateTap, CreateTapFails
    <2>3. CASE CardSetup(g)
      BY <2>3 DEF CardSetup
    <2>. QED
      BY <1>3, <2>1, <2>2, <2>3 DEF CardStep
  <1>4. ASSUME NEW r \in Readers, TapStep(r) \/ TapFrame(r) \/ TapFails(r) PROVE CardTypeOK'
    <2>1. CASE TapBegin(r) \/ TapFrame(r) \/ TapFails(r)
      BY <2>1 DEF TapBegin, TapFrame, TapFails
    <2>2. CASE TapLoop(r)
      <3>. DEFINE S == [at : ReadSteps, dev : Devices \cup {NoDevice}]
      <3>2. ASSUME NEW at \in {"exit", "failed", "read"}, NEW dev \in Devices \cup {NoDevice},
                   at = "read" => dev \in Devices,
                   readers' = [readers EXCEPT ![r] = [at |-> at, dev |-> dev]]
            PROVE  /\ readers' \in [Readers -> S]
                   /\ \A q \in Readers : readers'[q].at = "read" => readers'[q].dev \in Devices
        BY <3>2
      <3>1. /\ readers' \in [Readers -> S]
            /\ \A q \in Readers : readers'[q].at = "read" => readers'[q].dev \in Devices
        BY <2>2, <3>2 DEF TapLoop
      <3>. QED
        BY <2>2, <3>1 DEF TapLoop
    <2>3. CASE TapFailed(r) \/ TapStop(r) \/ TapRaise(r) \/ TapExit(r)
      BY <2>3 DEF TapFailed, TapStop, TapRaise, TapExit
    <2>4. CASE TapClose(r)
      BY <2>4 DEF TapClose, CloseTapper
    <2>5. CASE TapCreate(r)
      BY <2>5 DEF TapCreate, CreateTap, CreateTapFails
    <2>. QED
      BY <1>4, <2>1, <2>2, <2>3, <2>4, <2>5 DEF TapStep
  <1>5. CASE UNCHANGED cardVars
    BY <1>5 DEF cardVars
  <1>. QED
    BY <1>1, <1>2, <1>3, <1>4, <1>5 DEF CardNext

\* Whatever starts, stops and reads overlap, a reader never holds a nil tapper
\* and the fields keep their types.
THEOREM CardTypes == CardSpec => []CardTypeOK
  <1>1. CardInit => CardTypeOK
    BY DEF CardInit, CardTypeOK, CardStates, ReadSteps, StartSteps, Starters, Slot
  <1>. QED
    BY <1>1, CardTypeNext, PTL DEF CardSpec

\* A step takes the last reader away only together with the state Running.
LEMMA CardServedNext == CardTypeOK /\ CardServed /\ [CardNext]_cardVars => CardServed'
  <1>. SUFFICES ASSUME CardTypeOK, CardServed, [CardNext]_cardVars, cardState' = "Running"
                PROVE  \E q \in Readers : readers'[q].at \notin {"none", "begin"}
    BY DEF CardServed
  <1>. USE DEF CardTypeOK, Slot, StartAt, ReadAt
  \* A step of one reader that stays at work, or of one that was not.
  <1>m. ASSUME NEW r \in Readers, NEW s, readers' = [readers EXCEPT ![r] = s],
               \/ s.at \notin {"none", "begin"}
               \/ readers[r].at \in {"none", "begin"} /\ cardState = "Running"
        PROVE  \E q \in Readers : readers'[q].at \notin {"none", "begin"}
    BY <1>m DEF CardServed
  <1>u. ASSUME readers' = readers, cardState' = cardState
        PROVE  \E q \in Readers : readers'[q].at \notin {"none", "begin"}
    BY <1>u DEF CardServed
  <1>1. CASE CardCalled \/ CardAcked \/ CardStopping \/ CardStopped
    BY <1>1, <1>u DEF CardCalled, CardAcked, CardStopping, CardStopped, CloseTapper
  <1>2. ASSUME NEW g \in Starters, CardStep(g)
        PROVE  \E q \in Readers : readers'[q].at \notin {"none", "begin"}
    <2>1. CASE CardTest(g) \/ CardCreate(g) \/ CardSetupFails(g)
      BY <2>1, <1>u DEF CardTest, CardCreate, CardSetupFails, CreateTap, CreateTapFails
    <2>2. CASE CardSetup(g)
      BY <2>2, <1>m DEF CardSetup
    <2>. QED
      BY <1>2, <2>1, <2>2 DEF CardStep
  <1>3. ASSUME NEW r \in Readers, TapStep(r) \/ TapFrame(r) \/ TapFails(r)
        PROVE  \E q \in Readers : readers'[q].at \notin {"none", "begin"}
    <2>1. CASE TapBegin(r) \/ TapLoop(r) \/ TapFailed(r) \/ TapStop(r) \/ TapFrame(r) \/ TapFails(r)
      BY <2>1, <1>m DEF TapBegin, TapLoop, TapFailed, TapStop, TapFrame, TapFails
    <2>2. CASE TapClose(r) \/ TapCreate(r) \/ TapRaise(r)
      BY <2>2, <1>m DEF TapClose, TapCreate, TapRaise
    <2>3. CASE TapExit(r)
      BY <2>3 DEF TapExit
    <2>. QED
      BY <1>3, <2>1, <2>2, <2>3 DEF TapStep
  <1>4. CASE UNCHANGED cardVars
    BY <1>4, <1>u DEF cardVars
  <1>. QED
    BY <1>1, <1>2, <1>3, <1>4 DEF CardNext

\* A card that says Running has a readTap that set this state and takes it back
\* when it ends (tuntap_service.go), for any number of overlapping readers.
THEOREM CardIsServed == CardSpec => []CardServed
  <1>1. CardInit => CardServed
    BY DEF CardInit, CardServed
  <1>. QED
    BY <1>1, CardTypes, CardServedNext, PTL DEF CardSpec

-----------------------------------------------------------------------------
(***************************************************************************)
(* Requests to other peers.                                                *)
(***************************************************************************)
\* What a call of the user interface holds.
CallRecords == [at : CallSteps, polls : 0..(MaxPolls - 1), last : Nat,
                chan : 0..MaxCalls, result : Seq(ReqFrames)]

\* Every step of a call leaves it a record of this form.
LEMMA CallsTyped ==
    ASSUME ReqTypeOK, NEW c \in Askers, NEW v \in CallRecords, calls' = [calls EXCEPT ![c] = v]
    PROVE  calls' \in [Askers -> CallRecords]
  BY DEF ReqTypeOK, CallRecords

\* A call that is over.
LEMMA NotCallingTyped == NotCalling \in CallRecords
  BY ReqAssumption DEF NotCalling, CallRecords, CallSteps

\* The frames, the maps and the calls keep their types.
LEMMA ReqTypeNext == ReqTypeOK /\ [ReqNext]_reqVars => ReqTypeOK'
  <1>. SUFFICES ASSUME ReqTypeOK, [ReqNext]_reqVars PROVE ReqTypeOK'
    OBVIOUS
  <1>a. MaxPolls \in Nat \ {0} /\ MaxCalls \in Nat /\ LinkPages \in Nat
    BY ReqAssumption
  <1>c. calls \in [Askers -> CallRecords]
    BY DEF ReqTypeOK, CallRecords
  <1>t. /\ reqUp \subseteq {"links", "config"} /\ reqDown \subseteq ReqFrames
        /\ linkInfos \in Seq(ReqFrames) /\ linkCookie \in Seconds \cup {0}
        /\ configSend \in 0..MaxCalls /\ readLoop \in 0..MaxCalls /\ made \in 0..MaxCalls
    BY DEF ReqTypeOK
  <1>s. ASSUME calls' \in [Askers -> CallRecords],
               reqUp' \subseteq {"links", "config"}, reqDown' \subseteq ReqFrames,
               linkInfos' \in Seq(ReqFrames), linkCookie' \in Seconds \cup {0},
               configSend' \in 0..MaxCalls, readLoop' \in 0..MaxCalls, made' \in 0..MaxCalls
        PROVE  ReqTypeOK'
    BY <1>s DEF ReqTypeOK, CallRecords
  <1>1. ASSUME NEW c \in Askers, ReqLinks(c) PROVE ReqTypeOK'
    <2>1. made' \in 0..MaxCalls /\ UNCHANGED <<reqDown, linkCookie, configSend, readLoop>>
      BY <1>1, <1>a, <1>t DEF ReqLinks, ReqCall
    <2>2. linkInfos' \in Seq(ReqFrames) /\ reqUp' \subseteq {"links", "config"}
      BY <1>1, <1>t, EmptySeq DEF ReqLinks
    <2>3. [NotCalling EXCEPT !.at = "polls"] \in CallRecords
      BY NotCallingTyped DEF CallRecords, CallSteps
    <2>4. calls' \in [Askers -> CallRecords]
      BY <1>1, <2>3, NotCallingTyped, CallsTyped DEF ReqLinks
    <2>. QED
      BY <2>1, <2>2, <2>4, <1>s, <1>t
  <1>2. ASSUME NEW c \in Askers, ReqConfig(c) PROVE ReqTypeOK'
    <2>1. /\ made' \in 0..MaxCalls
          /\ UNCHANGED <<reqDown, linkInfos, linkCookie, configSend, readLoop>>
      BY <1>2, <1>a, <1>t DEF ReqConfig, ReqCall
    <2>2. reqUp' \subseteq {"links", "config"}
      BY <1>2, <1>t DEF ReqConfig
    <2>3. [NotCalling EXCEPT !.at = "written", !.chan = made'] \in CallRecords
      BY <2>1, NotCallingTyped DEF CallRecords, CallSteps
    <2>4. calls' \in [Askers -> CallRecords]
      BY <1>2, <2>3, CallsTyped DEF ReqConfig
    <2>. QED
      BY <2>1, <2>2, <2>4, <1>s, <1>t
  <1>3. ASSUME NEW c \in Askers, ReqPoll(c) PROVE ReqTypeOK'
    <2>. DEFINE n == Len(linkInfos)
    <2>1. n \in Nat
      BY <1>t
    <2>2. [calls[c] EXCEPT !.at = "reads"] \in CallRecords
      BY <1>c DEF CallRecords, CallSteps
    <2>3. ASSUME calls[c].polls + 1 # MaxPolls, NEW m \in Nat
          PROVE  [calls[c] EXCEPT !.polls = calls[c].polls + 1, !.last = m] \in CallRecords
      <3>1. calls[c] \in CallRecords /\ calls[c].polls + 1 \in 0..(MaxPolls - 1)
        BY <1>a, <1>c, <2>3 DEF CallRecords
      <3>. QED
        BY <2>3, <3>1 DEF CallRecords
    <2>4. calls' \in [Askers -> CallRecords]
      <3>1. CASE n > 0 /\ n = calls[c].last
        <4>1. calls' = [calls EXCEPT ![c] = [calls[c] EXCEPT !.at = "reads"]]
          BY <1>3, <1>c, <3>1 DEF ReqPoll
        <4>. QED
          BY <4>1, <2>2, CallsTyped
      <3>2. CASE ~ (n > 0 /\ n = calls[c].last) /\ calls[c].polls + 1 = MaxPolls
        <4>1. calls' = [calls EXCEPT ![c] = NotCalling]
          BY <1>3, <1>c, <3>2 DEF ReqPoll
        <4>. QED
          BY <4>1, NotCallingTyped, CallsTyped
      <3>3. CASE ~ (n > 0 /\ n = calls[c].last) /\ calls[c].polls + 1 # MaxPolls
        <4>. DEFINE m == IF n > 0 THEN n ELSE calls[c].last
        <4>1. m \in Nat
          BY <1>c, <2>1 DEF CallRecords
        <4>2. calls' = [calls EXCEPT ![c] = [calls[c] EXCEPT !.polls = calls[c].polls + 1, !.last = m]]
          BY <1>3, <1>c, <3>3 DEF ReqPoll
        <4>. HIDE DEF m
        <4>3. [calls[c] EXCEPT !.polls = calls[c].polls + 1, !.last = m] \in CallRecords
          BY <3>3, <4>1, <2>3
        <4>. QED
          BY <4>2, <4>3, CallsTyped
      <3>. QED
        BY <3>1, <3>2, <3>3
    <2>. QED
      BY <1>3, <2>4, <1>s, <1>t DEF ReqPoll
  <1>4. ASSUME NEW c \in Askers, ReqReturn(c) PROVE ReqTypeOK'
    <2>1. [NotCalling EXCEPT !.result = linkInfos] \in CallRecords
      BY <1>t, NotCallingTyped DEF CallRecords
    <2>2. calls' \in [Askers -> CallRecords]
      BY <1>4, <2>1, CallsTyped DEF ReqReturn
    <2>. QED
      BY <1>4, <2>2, <1>s, <1>t DEF ReqReturn
  <1>5. ASSUME NEW c \in Askers, ReqRegister(c) \/ ReqReceive(c) \/ ReqExpire(c) PROVE ReqTypeOK'
    <2>1. \A at \in CallSteps : [calls[c] EXCEPT !.at = at] \in CallRecords
      BY <1>c DEF CallRecords
    <2>2. calls' \in [Askers -> CallRecords]
      BY <1>5, <1>c, <2>1 DEF ReqRegister, ReqReceive, ReqExpire, CallSteps
    <2>3. calls[c].chan \in 0..MaxCalls
      BY <1>c DEF CallRecords
    <2>. QED
      BY <1>5, <2>2, <2>3, <1>a, <1>s, <1>t DEF ReqRegister, ReqReceive, ReqExpire
  <1>6. ASSUME NEW c \in Askers, ReqForget(c) PROVE ReqTypeOK'
    <2>1. calls' \in [Askers -> CallRecords]
      BY <1>6, NotCallingTyped, CallsTyped DEF ReqForget
    <2>. QED
      BY <1>6, <2>1, <1>a, <1>s, <1>t DEF ReqForget
  <1>7. ASSUME NEW m \in reqUp, ReqAnswer(m) PROVE ReqTypeOK'
    <2>1. ConfigAck \in ReqFrames
      BY DEF ReqFrames
    <2>2. ASSUME NEW s \in Seconds
          PROVE  {LinkPage(s, i) : i \in 1..LinkPages} \subseteq ReqFrames
      BY DEF LinkPage, ReqFrames
    <2>3. reqDown' \subseteq ReqFrames
      BY <1>7, <1>t, <2>1, <2>2 DEF ReqAnswer
    <2>. QED
      BY <1>7, <2>3, <1>c, <1>s, <1>t DEF ReqAnswer
  <1>9. ASSUME NEW m \in reqDown, ReqRead(m) PROVE ReqTypeOK'
    <2>1. m \in ReqFrames
      BY <1>t
    <2>2. CASE m.kind = "links" /\ PeerLinksResponse(m)
      <3>1. m.cookie \in Seconds
        BY <2>1, <2>2 DEF ReqFrames, ConfigAck
      <3>2. <<m>> \in Seq(ReqFrames) /\ Append(linkInfos, m) \in Seq(ReqFrames)
        BY <2>1, <1>t, AppendProperties
      <3>3. linkInfos' \in Seq(ReqFrames) /\ linkCookie' \in Seconds \cup {0}
        BY <2>2, <3>1, <3>2 DEF PeerLinksResponse
      <3>. QED
        BY <1>9, <3>3, <1>c, <1>s, <1>t DEF ReqRead
    <2>3. CASE UNCHANGED <<linkInfos, linkCookie>>
      BY <1>9, <2>3, <1>c, <1>s, <1>t DEF ReqRead
    <2>. QED
      BY <1>9, <2>2, <2>3 DEF ReqRead
  <1>10. CASE UNCHANGED reqVars
    BY <1>10, <1>c, <1>s, <1>t DEF reqVars
  <1>. QED
    BY <1>1, <1>2, <1>3, <1>4, <1>5, <1>6, <1>7, <1>9, <1>10 DEF ReqNext, ReqStep

\* The requests and what they wait for keep their types, and GetLinkInfos looks
\* at most MaxPolls times, whatever is lost, late or repeated.
THEOREM ReqTypes == ReqSpec => []ReqTypeOK
  <1>1. ReqInit => ReqTypeOK
    <2>. SUFFICES ASSUME ReqInit PROVE ReqTypeOK
      OBVIOUS
    <2>1. calls \in [Askers -> CallRecords]
      BY NotCallingTyped DEF ReqInit
    <2>. QED
      BY <2>1, ReqAssumption, EmptySeq DEF ReqInit, ReqTypeOK, CallRecords
  <1>. QED
    BY <1>1, ReqTypeNext, PTL DEF ReqSpec

\* How a step changes the stored pages: they are forgotten, replaced or
\* extended by a page, or left alone.
LEMMA LinkSteps ==
    [ReqNext]_reqVars => \/ linkInfos' = <<>> /\ linkCookie' = linkCookie
                         \/ \E m \in reqDown : PeerLinksResponse(m)
                         \/ UNCHANGED <<linkInfos, linkCookie>>
  BY DEF ReqNext, reqVars, ReqStep, ReqLinks, ReqCall, ReqConfig, ReqPoll, ReqReturn, ReqRegister,
         ReqReceive, ReqExpire, ReqForget, ReqAnswer, ReqRead

\* A look at the stored pages changes one call, and gives it no result.
LEMMA PollSteps ==
    ASSUME ReqTypeOK, NEW c \in Askers, ReqPoll(c)
    PROVE  \E v : calls' = [calls EXCEPT ![c] = v] /\ v.result \in {calls[c].result, <<>>}
  <1>. DEFINE n == Len(linkInfos)
  <1>. USE DEF ReqTypeOK, NotCalling
  <1>1. CASE n > 0 /\ n = calls[c].last
    <2>. DEFINE v == [calls[c] EXCEPT !.at = "reads"]
    <2>1. calls' = [calls EXCEPT ![c] = v] /\ v.result = calls[c].result
      BY <1>1 DEF ReqPoll
    <2>. QED
      BY <2>1
  <1>2. CASE ~ (n > 0 /\ n = calls[c].last) /\ calls[c].polls + 1 = MaxPolls
    <2>1. calls' = [calls EXCEPT ![c] = NotCalling] /\ NotCalling.result = <<>>
      BY <1>2 DEF ReqPoll
    <2>. QED
      BY <2>1
  <1>3. CASE ~ (n > 0 /\ n = calls[c].last) /\ calls[c].polls + 1 # MaxPolls
    <2>. DEFINE v == [calls[c] EXCEPT !.polls = calls[c].polls + 1,
                                      !.last = IF n > 0 THEN n ELSE calls[c].last]
    <2>1. calls' = [calls EXCEPT ![c] = v] /\ v.result = calls[c].result
      BY <1>3 DEF ReqPoll
    <2>. QED
      BY <2>1
  <1>. QED
    BY <1>1, <1>2, <1>3

\* How a step changes the result of a call: it gets none, or the stored pages.
LEMMA ResultSteps ==
    ASSUME ReqTypeOK, [ReqNext]_reqVars, NEW a \in Askers
    PROVE  calls'[a].result \in {calls[a].result, <<>>, linkInfos}
  <1>. USE DEF ReqTypeOK, NotCalling
  <1>m. ASSUME NEW c \in Askers, NEW v, calls' = [calls EXCEPT ![c] = v],
               v.result \in {calls[c].result, <<>>, linkInfos}
        PROVE  calls'[a].result \in {calls[a].result, <<>>, linkInfos}
    BY <1>m
  <1>1. ASSUME NEW c \in Askers, ReqLinks(c) \/ ReqConfig(c) \/ ReqForget(c)
        PROVE  calls'[a].result \in {calls[a].result, <<>>, linkInfos}
    BY <1>1, <1>m DEF ReqLinks, ReqConfig, ReqForget
  <1>2. ASSUME NEW c \in Askers, ReqPoll(c)
        PROVE  calls'[a].result \in {calls[a].result, <<>>, linkInfos}
    <2>1. PICK v : calls' = [calls EXCEPT ![c] = v] /\ v.result \in {calls[c].result, <<>>}
      BY <1>2, PollSteps
    <2>. QED
      BY <2>1, <1>m
  <1>5. ASSUME NEW c \in Askers, ReqReturn(c)
        PROVE  calls'[a].result \in {calls[a].result, <<>>, linkInfos}
    BY <1>5, <1>m DEF ReqReturn
  <1>3. ASSUME NEW c \in Askers, ReqRegister(c) \/ ReqReceive(c) \/ ReqExpire(c)
        PROVE  calls'[a].result \in {calls[a].result, <<>>, linkInfos}
    <2>1. PICK at : calls' = [calls EXCEPT ![c].at = at]
      BY <1>3 DEF ReqRegister, ReqReceive, ReqExpire
    <2>2. calls'[a].result = calls[a].result
      BY <2>1
    <2>. QED
      BY <2>2
  <1>4. CASE calls' = calls
    BY <1>4
  <1>. QED
    BY <1>1, <1>2, <1>3, <1>4, <1>5 DEF ReqNext, ReqStep, ReqAnswer, ReqRead, reqVars

\* Stored pages belong to the noted cookie, and so a list read in one look is of
\* one second.
LEMMA LinksNext == ReqTypeOK /\ LinksOfOneSecond /\ [ReqNext]_reqVars => LinksOfOneSecond'
  <1>. SUFFICES ASSUME ReqTypeOK, LinksOfOneSecond, [ReqNext]_reqVars PROVE LinksOfOneSecond'
    OBVIOUS
  <1>1. \A i \in 1..Len(linkInfos') : linkInfos'[i].cookie = linkCookie'
    <2>1. CASE linkInfos' = <<>> /\ linkCookie' = linkCookie
      BY <2>1, EmptySeq
    <2>2. ASSUME NEW m \in reqDown, PeerLinksResponse(m)
          PROVE  \A i \in 1..Len(linkInfos') : linkInfos'[i].cookie = linkCookie'
      <3>1. m \in ReqFrames /\ linkInfos \in Seq(ReqFrames)
        BY DEF ReqTypeOK
      <3>2. CASE linkCookie # m.cookie
        <4>1. linkInfos' = <<m>> /\ linkCookie' = m.cookie
          BY <2>2, <3>2 DEF PeerLinksResponse
        <4>. QED
          BY <4>1
      <3>3. CASE linkCookie = m.cookie
        <4>1. linkInfos' = Append(linkInfos, m) /\ linkCookie' = linkCookie
          BY <2>2, <3>3 DEF PeerLinksResponse
        <4>2. /\ Len(linkInfos') = Len(linkInfos) + 1 /\ Len(linkInfos) \in Nat
              /\ \A i \in 1..Len(linkInfos) : linkInfos'[i] = linkInfos[i]
              /\ linkInfos'[Len(linkInfos) + 1] = m
          BY <3>1, <4>1, AppendProperties
        <4>. QED
          BY <3>3, <4>1, <4>2 DEF LinksOfOneSecond
      <3>. QED
        BY <3>2, <3>3
    <2>3. CASE UNCHANGED <<linkInfos, linkCookie>>
      BY <2>3 DEF LinksOfOneSecond
    <2>. QED
      BY <2>1, <2>2, <2>3, LinkSteps
  <1>2. ASSUME NEW a \in Askers PROVE OfOneSecond(calls'[a].result)
    <2>1. OfOneSecond(<<>>)
      BY EmptySeq DEF OfOneSecond
    <2>2. OfOneSecond(linkInfos) /\ OfOneSecond(calls[a].result)
      BY DEF LinksOfOneSecond, OfOneSecond
    <2>. QED
      BY <2>1, <2>2, ResultSteps
  <1>. QED
    BY <1>1, <1>2 DEF LinksOfOneSecond

\* The user gets pages of two answers only if they were drawn in the same second
\* of the other peer's clock, which seeds the cookie (ProcessPeerLinksRequest,
\* ProcessPeerLinksResponse and GetLinkInfos of runtime_service.go), although
\* the poll takes no lock and a page of an earlier answer may arrive during it.
THEOREM LinksShareSecond == ReqSpec => []LinksOfOneSecond
  <1>1. ReqInit => LinksOfOneSecond
    BY EmptySeq DEF ReqInit, LinksOfOneSecond, OfOneSecond, NotCalling
  <1>. QED
    BY <1>1, ReqTypes, LinksNext, PTL DEF ReqSpec

\* A channel is registered by its call and deleted before the call returns.
LEMMA NoStaleNext == ReqTypeOK /\ NoStaleChannel /\ [ReqNext]_reqVars => NoStaleChannel'
  <1>. SUFFICES ASSUME ReqTypeOK, NoStaleChannel, [ReqNext]_reqVars, configSend' # 0
                PROVE  \E a \in Askers : /\ calls'[a].chan = configSend'
                                         /\ calls'[a].at \in {"waiting", "got", "expired"}
    BY DEF NoStaleChannel
  <1>. DEFINE Waits == \E a \in Askers : /\ calls'[a].chan = configSend'
                                         /\ calls'[a].at \in {"waiting", "got", "expired"}
  <1>. USE DEF ReqTypeOK
  \* A step of a call that is not waiting.
  <1>m. ASSUME NEW c \in Askers, NEW v, calls' = [calls EXCEPT ![c] = v], configSend' = configSend,
               calls[c].at \notin {"waiting", "got", "expired"}
        PROVE  Waits
    BY <1>m DEF NoStaleChannel
  <1>1. ASSUME NEW c \in Askers, ReqLinks(c) \/ ReqConfig(c) PROVE Waits
    BY <1>1, <1>m DEF ReqLinks, ReqConfig, ReqCall
  <1>2. ASSUME NEW c \in Askers, ReqPoll(c) \/ ReqReturn(c) PROVE Waits
    <2>1. PICK v : calls' = [calls EXCEPT ![c] = v]
      BY <1>2, PollSteps DEF ReqReturn
    <2>. QED
      BY <1>2, <2>1, <1>m DEF ReqPoll, ReqReturn
  <1>3. ASSUME NEW c \in Askers, ReqRegister(c) PROVE Waits
    BY <1>3 DEF ReqRegister
  <1>4. ASSUME NEW c \in Askers, ReqReceive(c) \/ ReqExpire(c) PROVE Waits
    <2>1. PICK at \in {"got", "expired"} : calls' = [calls EXCEPT ![c].at = at]
      BY <1>4 DEF ReqReceive, ReqExpire
    <2>2. configSend' = configSend
      BY <1>4 DEF ReqReceive, ReqExpire
    <2>3. PICK a \in Askers : /\ calls[a].chan = configSend
                              /\ calls[a].at \in {"waiting", "got", "expired"}
      BY <2>2 DEF NoStaleChannel
    <2>4. calls'[a].chan = calls[a].chan /\ calls'[a].at \in {calls[a].at, at}
      BY <2>1
    <2>. QED
      BY <2>1, <2>2, <2>3, <2>4
  <1>5. ASSUME NEW c \in Askers, ReqForget(c) PROVE Waits
    BY <1>5 DEF ReqForget
  <1>6. CASE UNCHANGED <<calls, configSend>>
    BY <1>6 DEF NoStaleChannel
  <1>. QED
    BY <1>1, <1>2, <1>3, <1>4, <1>5, <1>6 DEF ReqNext, ReqStep, ReqAnswer, ReqRead, reqVars

\* No entry of configSend outlives its call of UpdateConfig, although calls to
\* the same peer overwrite and delete each other's: a late acknowledgement finds
\* nobody to send to.
THEOREM ChannelsNeverStale == ReqSpec => []NoStaleChannel
  <1>1. ReqInit => NoStaleChannel
    BY DEF ReqInit, NoStaleChannel
  <1>. QED
    BY <1>1, ReqTypes, NoStaleNext, PTL DEF ReqSpec

-----------------------------------------------------------------------------
(***************************************************************************)
(* The configuration: ConfInv is inductive, and the file and the services  *)
(* follow AppConfig.                                                       *)
(***************************************************************************)
UiRecords == [at : {"idle", "form", "write", "swap", "restart"}, conf : Configs,
              pwd : Pwds, enc : Nat]
AckRecords == [at : {"idle", "encode", "marshal", "write"}, conf : Configs,
               pwd : Pwds, enc : Nat]
FileRecords == [is : {"ok", "partial", "missing", "broken"}, conf : Configs]

\* What ConfInv says besides the types.
Follows == SavesApart /\ InPlaceEncoding /\ FileFollows /\ RuntimeFollows

-----------------------------------------------------------------------------
(***************************************************************************)
(* Encoding a password and the records of the model.                       *)
(***************************************************************************)

\* Decoding undoes an encoding, and neither changes another field.
LEMMA Encoding ==
    ASSUME NEW c \in Configs
    PROVE  /\ Encoded(c) \in Configs /\ Encoded(c).enc = c.enc + 1 /\ Encoded(c).enc > 0
           /\ Encoded(c).pwd = c.pwd /\ Encoded(c).net = c.net /\ Encoded(c).addr = c.addr
           /\ Decoded(Encoded(c)) = c
  <1>1. c.enc \in Nat
    BY DEF Configs
  <1>2. /\ Encoded(c) \in Configs /\ Encoded(c).enc = c.enc + 1
        /\ Encoded(c).pwd = c.pwd /\ Encoded(c).net = c.net /\ Encoded(c).addr = c.addr
    BY <1>1 DEF Configs, Encoded
  <1>3. Encoded(c).enc > 0 /\ c.enc + 1 > 0 /\ (c.enc + 1) - 1 = c.enc
    BY <1>1, <1>2
  <1>4. Decoded(Encoded(c)) = c
    BY <1>1, <1>3 DEF Configs, Encoded, Decoded
  <1>. QED
    BY <1>2, <1>3, <1>4

LEMMA DecodedTyped == \A c \in Configs : Decoded(c) \in Configs
  <1>. TAKE c \in Configs
  <1>1. c.enc \in Nat
    BY DEF Configs
  <1>2. (IF c.enc > 0 THEN c.enc - 1 ELSE 0) \in Nat
    BY <1>1
  <1>. QED
    BY <1>2 DEF Configs, Decoded

LEMMA Defaults ==
    /\ DefaultConfig \in Configs /\ NotSaving \in UiRecords /\ NotSaving \in AckRecords
    /\ NotSaving.at = "idle" /\ NoFile("broken") \in FileRecords /\ NoFile("missing") \in FileRecords
  <1>1. DefaultConfig \in Configs /\ Default \in Pwds
    BY ConfAssumption DEF Configs, DefaultConfig
  <1>. QED
    BY <1>1 DEF UiRecords, AckRecords, FileRecords, NotSaving, NoFile

LEMMA Files ==
    ASSUME NEW c \in Configs
    PROVE  FileOf(c) \in FileRecords /\ FileOf(c).is = "ok" /\ FileOf(c).conf = c
  BY DEF FileRecords, FileOf

\* Where UiAt leaves the user interface.
LEMMA UiMoves ==
    ASSUME NEW c \in Configs, NEW at \in {"idle", "form", "write", "swap", "restart"}, UiAt(at, c)
    PROVE  ui' \in UiRecords /\ ui'.at = at /\ ui'.conf = c
  <1>1. NotSaving \in UiRecords
    BY Defaults
  <1>. QED
    BY <1>1 DEF UiAt, UiRecords

\* The types, with the sets named.
LEMMA ConfTyped ==
    ConfTypeOK <=> /\ app \in {"down", "up", "crashed"}
                   /\ mem \in Configs /\ run \in Configs
                   /\ file \in FileRecords
                   /\ file.is = "ok" /\ ~clash => file.conf.enc > 0
                   /\ running \in BOOLEAN /\ defaulted \in BOOLEAN /\ clash \in BOOLEAN
                   /\ ui \in UiRecords /\ ack \in AckRecords
  BY Zenon DEF ConfTypeOK, UiRecords, AckRecords, FileRecords

-----------------------------------------------------------------------------
(***************************************************************************)
(* The types.  Only a file that WriteAssigned writes needs more than them: *)
(* that its password is encoded is InPlaceEncoding.                        *)
(***************************************************************************)
LEMMA ConfTypeNext == ConfInv /\ [ConfNext]_confVars => ConfTypeOK'
  <1>. SUFFICES ASSUME ConfInv, [ConfNext]_confVars PROVE ConfTypeOK'
    OBVIOUS
  <1>t. /\ app \in {"down", "up", "crashed"} /\ mem \in Configs /\ run \in Configs
        /\ file \in FileRecords /\ ui \in UiRecords /\ ack \in AckRecords
        /\ (file.is = "ok" /\ ~clash => file.conf.enc > 0)
        /\ running \in BOOLEAN /\ defaulted \in BOOLEAN /\ clash \in BOOLEAN
    BY ConfTyped DEF ConfInv
  <1>s. ASSUME app' \in {"down", "up", "crashed"}, mem' \in Configs, run' \in Configs,
               file' \in FileRecords, ui' \in UiRecords, ack' \in AckRecords,
               file'.is = "ok" /\ ~clash' => file'.conf.enc > 0,
               running' \in BOOLEAN, defaulted' \in BOOLEAN, clash' \in BOOLEAN
        PROVE  ConfTypeOK'
    BY <1>s, Zenon DEF ConfTypeOK, UiRecords, AckRecords, FileRecords
  <1>f. file.conf \in Configs /\ ui.conf \in Configs /\ ack.conf \in Configs
        /\ ack.pwd \in Pwds /\ ack.enc \in Nat
    BY <1>t DEF FileRecords, UiRecords, AckRecords
  <1>e. /\ \A c \in Configs : FileOf(c) \in FileRecords /\ FileOf(c).conf = c
        /\ \A c \in Configs : Encoded(c) \in Configs /\ Encoded(c).enc > 0
    BY Files, Encoding
  <1>a. \A at \in {"idle", "encode", "marshal", "write"} : [ack EXCEPT !.at = at] \in AckRecords
    BY <1>t DEF AckRecords
  <1>1. ASSUME NEW c \in Configs, Boots(c), file' \in FileRecords, defaulted' \in BOOLEAN,
               file'.is = "ok" /\ ~clash => file'.conf.enc > 0
        PROVE  ConfTypeOK'
    BY <1>1, <1>s, <1>t, Defaults, Zenon DEF Boots
  <1>2. CASE Load
    <2>1. Decoded(file.conf) \in Configs
      BY <1>f, DecodedTyped
    <2>2. file' \in FileRecords /\ (file'.is = "ok" /\ ~clash => file'.conf.enc > 0)
      BY <1>2, <2>1, <1>t, <1>e DEF Load
    <2>. QED
      BY <1>2, <2>1, <2>2, <1>1, <1>t DEF Load
  <1>3. CASE LoadDefaults
    <2>1. file' \in FileRecords /\ file'.conf.enc > 0
      BY <1>3, <1>e, Defaults DEF LoadDefaults
    <2>. QED
      BY <1>3, <2>1, <1>1, Defaults DEF LoadDefaults
  <1>4. CASE LoadNothing
    BY <1>4, <1>s, <1>t, Zenon DEF LoadNothing
  <1>5. ASSUME NEW at \in {"idle", "form", "write", "swap", "restart"}, NEW c \in Configs, UiAt(at, c),
               app' = app, mem' \in Configs, file' = file \/ file' = FileOf(Encoded(ui.conf)),
               run' = run, running' \in BOOLEAN, ack' = ack, defaulted' \in BOOLEAN,
               clash' = clash \/ clash' = (clash \/ ack.at # "idle")
        PROVE  ConfTypeOK'
    <2>1. ui' \in UiRecords
      BY <1>5, UiMoves
    <2>2. clash' \in BOOLEAN /\ (clash => clash')
      BY <1>5, <1>t, Zenon
    <2>3. file' \in FileRecords /\ (file'.is = "ok" /\ ~clash' => file'.conf.enc > 0)
      BY <1>5, <2>2, <1>t, <1>e, <1>f
    <2>. QED
      BY <1>5, <2>1, <2>2, <2>3, <1>s, <1>t, Zenon
  <1>6. CASE GetConfig
    BY <1>6, <1>5, <1>t DEF GetConfig
  <1>7. ASSUME NEW n \in Nets, NEW a \in NetAddrs, NEW p \in Pwds, NEW m \in Names, SubmitForm(n, a, p, m)
        PROVE  ConfTypeOK'
    <2>. DEFINE c == [net |-> n, addr |-> a, name |-> m, pwd |-> p,
                      enc |-> IF p = ui.conf.pwd THEN ui.conf.enc ELSE 0]
    <2>1. c \in Configs
      BY <1>f DEF Configs
    <2>2. UiAt("write", c)
      BY <1>7 DEF SubmitForm
    <2>. HIDE DEF c
    <2>. QED
      BY <1>7, <2>1, <2>2, <1>5, <1>t DEF SubmitForm
  <1>8. CASE RefuseForm
    BY <1>8, <1>s, <1>t, Defaults, Zenon DEF RefuseForm
  <1>9. CASE WriteForm
    BY <1>9, <1>5, <1>t, <1>f DEF WriteForm
  <1>10. CASE SwapConfig
    <2>1. PICK at \in {"idle", "restart"} : UiAt(at, ui.conf)
      BY <1>10 DEF SwapConfig
    <2>2. running' \in BOOLEAN
      BY <1>10, Zenon DEF SwapConfig
    <2>. QED
      BY <1>10, <2>1, <2>2, <1>5, <1>t, <1>f DEF SwapConfig
  <1>11. CASE RestartServices
    <2>1. run' \in Configs /\ running' \in BOOLEAN
      BY <1>11, <1>t, Zenon DEF RestartServices
    <2>. QED
      BY <1>11, <2>1, <1>s, <1>t, Defaults, Zenon DEF RestartServices
  <1>12. ASSUME NEW a \in NetAddrs, AssignAddress(a) PROVE ConfTypeOK'
    <2>1. run' \in Configs /\ mem' \in Configs
      BY <1>12, <1>t DEF AssignAddress, Configs
    <2>2. ack' \in AckRecords
      BY <1>12, <1>a DEF AssignAddress, AckAt
    <2>3. clash' \in BOOLEAN /\ (clash => clash')
      BY <1>12, <1>t, Zenon DEF AssignAddress
    <2>. QED
      BY <1>12, <2>1, <2>2, <2>3, <1>s, <1>t, Zenon DEF AssignAddress
  <1>13. CASE EncodeInPlace
    <2>1. mem' \in Configs
      BY <1>13, <1>t, <1>e DEF EncodeInPlace
    <2>2. mem.pwd \in Pwds /\ mem.enc \in Nat
      BY <1>t DEF Configs
    <2>3. ack' \in AckRecords
      BY <1>13, <1>t, <2>2 DEF EncodeInPlace, AckRecords
    <2>. QED
      BY <1>13, <2>1, <2>3, <1>s, <1>t, Zenon DEF EncodeInPlace
  <1>14. CASE MarshalAndRestore
    <2>1. mem' \in Configs
      BY <1>14, <1>t, <1>f DEF MarshalAndRestore, Configs
    <2>2. ack' \in AckRecords
      BY <1>14, <1>t DEF MarshalAndRestore, AckRecords
    <2>. QED
      BY <1>14, <2>1, <2>2, <1>s, <1>t, Zenon DEF MarshalAndRestore
  <1>15. CASE WriteAssigned
    <2>1. file' \in FileRecords /\ file'.conf = ack.conf
      BY <1>15, <1>f, <1>e DEF WriteAssigned
    <2>2. ~clash => ack.conf.enc > 0
      BY <1>15, <1>t, <1>e DEF WriteAssigned, ConfInv, InPlaceEncoding
    <2>. QED
      BY <1>15, <2>1, <2>2, <1>s, <1>t, Defaults, Zenon DEF WriteAssigned
  <1>16. CASE Crash
    <2>1. file' = file \/ file' = NoFile("broken")
      BY <1>16, Zenon DEF Crash
    <2>2. file' \in FileRecords /\ (file'.is = "ok" /\ ~clash => file'.conf.enc > 0)
      BY <2>1, <1>t, Defaults DEF NoFile
    <2>. QED
      BY <1>16, <2>2, <1>s, <1>t, Defaults, Zenon DEF Crash
  <1>17. CASE UNCHANGED confVars
    BY <1>17, <1>s, <1>t, Zenon DEF confVars
  <1>. QED
    BY <1>2, <1>3, <1>4, <1>6, <1>7, <1>8, <1>9, <1>10, <1>11, <1>12, <1>13, <1>14, <1>15, <1>16, <1>17
       DEF ConfNext

-----------------------------------------------------------------------------
(***************************************************************************)
(* The file and the services follow AppConfig, step by step.               *)
(***************************************************************************)
LEMMA FollowsNext ==
    ConfInv /\ [ConfNext]_confVars /\ app' = "up" /\ ~clash' => Follows'
  <1>. SUFFICES ASSUME ConfInv, [ConfNext]_confVars, app' = "up", ~clash' PROVE Follows'
    OBVIOUS
  <1>t. /\ mem \in Configs /\ run \in Configs /\ file \in FileRecords
        /\ ui \in UiRecords /\ ack \in AckRecords
    BY ConfTyped DEF ConfInv
  <1>f. file.conf \in Configs /\ ui.conf \in Configs /\ ack.conf \in Configs /\ ack.enc \in Nat
    BY <1>t DEF FileRecords, UiRecords, AckRecords
  \* A save that has not overlapped with another one began in a state that follows.
  <1>h. ASSUME app = "up", clash => clash'
        PROVE  SavesApart /\ InPlaceEncoding /\ FileFollows /\ RuntimeFollows
    BY <1>h DEF ConfInv
  \* A step that leaves the file alone.
  <1>k. ASSUME UNCHANGED <<file, defaulted>>, app = "up", ~clash, FileFollows,
               ui'.at = "swap" => ui.at = "swap",
               \A c \in Configs : Current(c) => Current(c)'
        PROVE  FileFollows'
    <2>1. Decoded(file.conf) \in Configs /\ Decoded(Decoded(file.conf)) \in Configs
      BY <1>f, DecodedTyped
    <2>. QED
      BY <1>k, <2>1 DEF FileFollows, ConfigDurable
  <1>1. ASSUME NEW c \in Configs, Boots(c), file'.is = "ok",
               \/ ~defaulted' /\ Decoded(file'.conf) = c
               \/ /\ defaulted' /\ Decoded(file'.conf).enc > 0
                  /\ Decoded(Decoded(file'.conf)) = c
        PROVE  Follows'
    <2>1. mem' = c /\ run' = c /\ ui'.at = "idle" /\ ack'.at = "idle"
      BY <1>1, Defaults DEF Boots
    <2>2. FileFollows'
      BY <1>1, <2>1 DEF FileFollows, ConfigDurable, Current
    <2>. QED
      BY <2>1, <2>2 DEF Follows, SavesApart, InPlaceEncoding, RuntimeFollows
  <1>2. CASE Load
    <2>1. Decoded(file.conf) \in Configs
      BY <1>f, DecodedTyped
    <2>2. file'.is = "ok" /\ Decoded(file'.conf) = Decoded(file.conf)
      BY <1>2, <2>1, Encoding, Files DEF Load
    <2>. QED
      BY <1>2, <2>1, <2>2, <1>1 DEF Load
  <1>3. CASE LoadDefaults
    <2>1. PICK c \in Configs : c = DefaultConfig
      BY Defaults
    <2>2. Encoded(c) \in Configs /\ Encoded(c).enc > 0 /\ Decoded(Encoded(c)) = c
      BY Encoding
    <2>3. Encoded(Encoded(c)) \in Configs /\ Decoded(Encoded(Encoded(c))) = Encoded(c)
      BY <2>2, Encoding
    <2>4. file'.is = "ok" /\ file'.conf = Encoded(Encoded(c))
      BY <1>3, <2>1, <2>3, Files DEF LoadDefaults
    <2>. QED
      BY <1>3, <1>1, <2>1, <2>2, <2>3, <2>4 DEF LoadDefaults
  <1>4. CASE LoadNothing
    BY <1>4 DEF LoadNothing
  <1>5. CASE GetConfig
    <2>1. SavesApart /\ InPlaceEncoding /\ FileFollows /\ RuntimeFollows /\ ack.at = "idle"
      BY <1>5, <1>h DEF GetConfig
    <2>2. ui'.at = "form"
      BY <1>5, <1>t, UiMoves DEF GetConfig
    <2>3. FileFollows'
      BY <1>5, <1>k, <2>1, <2>2 DEF GetConfig, Current
    <2>. QED
      BY <1>5, <2>1, <2>2, <2>3 DEF GetConfig, Follows, SavesApart, InPlaceEncoding, RuntimeFollows
  <1>6. ASSUME NEW n \in Nets, NEW a \in NetAddrs, NEW p \in Pwds, NEW m \in Names, SubmitForm(n, a, p, m)
        PROVE  Follows'
    <2>1. SavesApart /\ InPlaceEncoding /\ FileFollows /\ RuntimeFollows /\ ack.at = "idle"
      BY <1>6, <1>h DEF SubmitForm
    <2>2. ui'.at = "write"
      BY <1>6, Defaults DEF SubmitForm, UiAt, NotSaving
    <2>3. FileFollows'
      BY <1>6, <1>k, <2>1, <2>2 DEF SubmitForm, Current
    <2>. QED
      BY <1>6, <2>1, <2>2, <2>3 DEF SubmitForm, Follows, SavesApart, InPlaceEncoding, RuntimeFollows
  <1>7. CASE RefuseForm
    <2>1. SavesApart /\ InPlaceEncoding /\ FileFollows /\ RuntimeFollows
      BY <1>7, <1>h DEF RefuseForm
    <2>2. ui'.at = "idle"
      BY <1>7, Defaults DEF RefuseForm
    <2>3. FileFollows'
      BY <1>7, <1>k, <2>1, <2>2 DEF RefuseForm, Current, Plain
    <2>. QED
      BY <1>7, <2>1, <2>2, <2>3 DEF RefuseForm, Follows, SavesApart, InPlaceEncoding, RuntimeFollows
  <1>8. CASE WriteForm
    <2>1. SavesApart /\ InPlaceEncoding /\ RuntimeFollows
      BY <1>8, <1>h DEF WriteForm
    <2>2. ui'.at = "swap" /\ ui'.conf = ui.conf
      BY <1>8, <1>f, UiMoves DEF WriteForm
    <2>3. file'.is = "ok" /\ Decoded(file'.conf) = ui.conf /\ ~defaulted'
      BY <1>8, <1>f, Encoding, Files DEF WriteForm
    <2>4. FileFollows'
      BY <2>2, <2>3 DEF FileFollows, ConfigDurable, Current
    <2>. QED
      BY <1>8, <2>1, <2>2, <2>4 DEF WriteForm, Follows, SavesApart, InPlaceEncoding, RuntimeFollows
  \* The file already holds what replaces AppConfig.
  <1>9. CASE SwapConfig
    <2>1. SavesApart /\ InPlaceEncoding /\ FileFollows /\ RuntimeFollows /\ ack.at = "idle"
      BY <1>9, <1>h DEF SwapConfig, SavesApart
    <2>2. ui'.at \in {"idle", "restart"}
      BY <1>9, <1>f, UiMoves DEF SwapConfig
    <2>3. SavesApart' /\ InPlaceEncoding'
      BY <1>9, <2>1 DEF SwapConfig, SavesApart, InPlaceEncoding
    <2>4. FileFollows'
      <3>1. file.is = "ok" /\ Decoded(file.conf) = ui.conf /\ ~defaulted
        BY <1>9, <2>1 DEF SwapConfig, FileFollows, ConfigDurable, Current
      <3>2. ack' = ack /\ mem' = ui.conf /\ UNCHANGED <<file, defaulted>>
        BY <1>9 DEF SwapConfig
      <3>. QED
        BY <2>1, <2>2, <3>1, <3>2 DEF FileFollows, ConfigDurable, Current
    <2>5. RuntimeFollows'
      BY <1>9, <2>1 DEF SwapConfig, RuntimeFollows, NeedRestart
    <2>. QED
      BY <2>3, <2>4, <2>5 DEF Follows
  <1>10. CASE RestartServices
    <2>1. SavesApart /\ InPlaceEncoding /\ FileFollows /\ RuntimeFollows /\ ack.at = "idle"
      BY <1>10, <1>h DEF RestartServices, SavesApart
    <2>2. ui'.at = "idle"
      BY <1>10, Defaults DEF RestartServices
    <2>3. FileFollows'
      BY <1>10, <1>k, <2>1, <2>2 DEF RestartServices, Current
    <2>. QED
      BY <1>10, <2>1, <2>2, <2>3 DEF RestartServices, Follows, SavesApart, InPlaceEncoding, RuntimeFollows
  <1>11. ASSUME NEW a \in NetAddrs, AssignAddress(a) PROVE Follows'
    <2>1. SavesApart /\ InPlaceEncoding /\ FileFollows /\ RuntimeFollows /\ ui.at \in {"idle", "form"}
      BY <1>11, <1>h DEF AssignAddress
    <2>2. ack'.at = "encode"
      BY <1>11, <1>t DEF AssignAddress, AckAt, AckRecords
    <2>3. /\ mem'.net = mem.net /\ mem'.pwd = mem.pwd /\ mem'.enc = mem.enc /\ mem'.addr = a
          /\ run'.net = run.net /\ run'.pwd = run.pwd /\ run'.enc = run.enc /\ run'.addr = a
      BY <1>11, <1>t DEF AssignAddress, Configs
    <2>4. mem' = [mem EXCEPT !.addr = a] /\ ui' = ui /\ app = "up" /\ ack.at = "idle"
      BY <1>11 DEF AssignAddress
    <2>5. \A c \in Configs : Current(c) => Current(c)'
      <3>. SUFFICES ASSUME NEW c \in Configs, Current(c) PROVE Current(c)'
        OBVIOUS
      <3>1. c = mem
        BY <2>1, <2>4 DEF Current
      <3>2. c = [mem' EXCEPT !.addr = c.addr]
        BY <1>t, <2>4, <3>1 DEF Configs
      <3>. QED
        BY <2>1, <2>2, <2>4, <3>2 DEF Current, Plain
    <2>6. FileFollows'
      BY <1>11, <1>k, <2>1, <2>4, <2>5 DEF AssignAddress
    <2>. QED
      BY <1>11, <2>1, <2>2, <2>3, <2>6
         DEF AssignAddress, Follows, SavesApart, InPlaceEncoding, RuntimeFollows
  <1>12. CASE EncodeInPlace
    <2>1. SavesApart /\ InPlaceEncoding /\ FileFollows /\ RuntimeFollows
      BY <1>12, <1>h DEF EncodeInPlace
    <2>2. ack'.at = "marshal" /\ ack'.pwd = mem.pwd /\ ack'.enc = mem.enc
      BY <1>12, <1>t DEF EncodeInPlace, AckRecords
    <2>3. mem'.net = mem.net /\ mem'.addr = mem.addr /\ mem'.pwd = mem.pwd /\ mem'.enc = mem.enc + 1
      BY <1>12, <1>t, Encoding DEF EncodeInPlace
    <2>4. ui' = ui /\ app = "up" /\ ack.at = "encode" /\ ui.at # "swap" /\ mem' = Encoded(mem)
      BY <1>12, <2>1 DEF EncodeInPlace, SavesApart
    <2>5. Plain' = Plain
      <3>1. Plain = mem /\ Plain' = [mem' EXCEPT !.pwd = mem.pwd, !.enc = mem.enc]
        BY <2>2, <2>4 DEF Plain
      <3>2. [Encoded(mem) EXCEPT !.pwd = mem.pwd, !.enc = mem.enc] = mem
        BY <1>t DEF Encoded, Configs
      <3>. QED
        BY <2>4, <3>1, <3>2
    <2>6. FileFollows'
      BY <1>12, <1>k, <2>1, <2>2, <2>4, <2>5 DEF EncodeInPlace, Current
    <2>. QED
      BY <1>12, <2>1, <2>2, <2>3, <2>6
         DEF EncodeInPlace, Follows, SavesApart, InPlaceEncoding, RuntimeFollows
  <1>13. CASE MarshalAndRestore
    <2>1. SavesApart /\ InPlaceEncoding /\ FileFollows /\ RuntimeFollows
      BY <1>13, <1>h DEF MarshalAndRestore
    <2>2. ack'.at = "write" /\ ack'.conf = mem
      BY <1>13, <1>t DEF MarshalAndRestore, AckRecords
    <2>3. mem'.net = mem.net /\ mem'.addr = mem.addr /\ mem'.pwd = ack.pwd /\ mem'.enc = ack.enc
      BY <1>13, <1>t DEF MarshalAndRestore, Configs
    \* What is written is the encoding of what is put back.
    <2>4. Encoded(mem') = mem
      BY <1>13, <1>t, <1>f, <2>1 DEF MarshalAndRestore, InPlaceEncoding, Encoded, Configs
    <2>5. ui' = ui /\ app = "up" /\ ack.at = "marshal" /\ ui.at # "swap" /\ Plain' = Plain
      BY <1>13, <2>1, <2>2 DEF MarshalAndRestore, SavesApart, Plain
    <2>6. FileFollows'
      BY <1>13, <1>k, <2>1, <2>2, <2>5 DEF MarshalAndRestore, Current
    <2>. QED
      BY <1>13, <2>1, <2>2, <2>3, <2>4, <2>6
         DEF MarshalAndRestore, Follows, SavesApart, InPlaceEncoding, RuntimeFollows
  <1>14. CASE WriteAssigned
    <2>1. SavesApart /\ InPlaceEncoding /\ FileFollows /\ RuntimeFollows
      BY <1>14, <1>h DEF WriteAssigned
    <2>2. file'.is = "ok" /\ Decoded(file'.conf) = mem
      BY <1>14, <1>t, <2>1, Encoding, Files DEF WriteAssigned, InPlaceEncoding
    <2>3. ui' = ui /\ mem' = mem /\ ui.at # "swap" /\ ack'.at = "idle" /\ ~defaulted'
      BY <1>14, <2>1, Defaults DEF WriteAssigned, SavesApart
    <2>4. FileFollows'
      BY <2>2, <2>3 DEF FileFollows, ConfigDurable, Current
    <2>. QED
      BY <1>14, <2>1, <2>3, <2>4
         DEF WriteAssigned, Follows, SavesApart, InPlaceEncoding, RuntimeFollows
  <1>15. CASE Crash
    BY <1>15 DEF Crash
  <1>16. CASE UNCHANGED confVars
    BY <1>16, <1>h
       DEF confVars, Follows, SavesApart, InPlaceEncoding, FileFollows, ConfigDurable, Current, Plain, RuntimeFollows
  <1>. QED
    BY <1>2, <1>3, <1>4, <1>5, <1>6, <1>7, <1>8, <1>9, <1>10, <1>11, <1>12, <1>13, <1>14, <1>15, <1>16
       DEF ConfNext

-----------------------------------------------------------------------------
(***************************************************************************)
(* The theorems.                                                           *)
(***************************************************************************)

\* ConfInv is an invariant: in particular the configurations keep their types,
\* and no plain password is in a complete file (SaveConfig and SaveAppConfig of
\* config_app.go) unless two saves have overlapped.
THEOREM ConfInvariant == ConfSpec => []ConfInv
  <1>1. ConfInit => ConfInv
    <2>. SUFFICES ASSUME ConfInit PROVE ConfInv
      OBVIOUS
    <2>1. Encoded(DefaultConfig) \in Configs /\ Encoded(DefaultConfig).enc > 0
      BY Encoding, Defaults
    <2>2. file \in FileRecords /\ (file.is = "ok" => file.conf.enc > 0)
      BY <2>1, Defaults, Files DEF ConfInit, NoFile, FileRecords
    <2>3. ConfTypeOK
      BY <2>2, ConfTyped, Defaults, Zenon DEF ConfInit
    <2>. QED
      BY <2>3 DEF ConfInit, ConfInv
  <1>2. ConfInv /\ [ConfNext]_confVars => ConfInv'
    BY ConfTypeNext, FollowsNext DEF ConfInv, Follows
  <1>. QED
    BY <1>1, <1>2, PTL DEF ConfSpec

\* As long as the two savers of config.AppConfig have not overlapped: wherever
\* the program ends, other than inside WriteFile, the next start loads what was
\* saved last or what the save in progress was about to replace (SaveAppConfig,
\* SaveConfig); the defaults that replace a file cut off by WriteFile would be
\* loaded with their passwords encoded once.
THEOREM ConfigIsDurable == ConfSpec => []ConfigDurable
  <1>1. ConfInv => ConfigDurable
    BY DEF ConfInv, FileFollows, ConfigDurable
  <1>. QED
    BY <1>1, ConfInvariant, PTL

\* Services that run work with the server, the group, the passwords and the
\* static address of AppConfig (SaveConfig and its reasons to restart).
THEOREM RuntimeIsCurrent == ConfSpec => []RuntimeCurrent
  <1>1. ConfInv => RuntimeCurrent
    BY DEF ConfInv, RuntimeCurrent, Quiet, RuntimeFollows
  <1>. QED
    BY <1>1, ConfInvariant, PTL

-----------------------------------------------------------------------------
(***************************************************************************)
(* The directory of the group.                                             *)
(***************************************************************************)
Dirs == [Peers -> PeerStatus]

\* What the frames are.
LEMMA FrameKinds ==
    ASSUME NEW m \in DirFrames
    PROVE  \/ m.kind = "page" /\ m.cookie \in Cookies /\ m.peers \in Dirs
           \/ m.kind = "state" /\ m.peer \in Peers /\ m.status \in {"offline", "online"}
           \/ m.kind = "authAck"
  BY DEF DirFrames, AuthAck, Dirs

\* The pages of an answer are pages of its cookie that list the peers of the
\* group, each with its status; there is at least one.
LEMMA PagesOfGroup ==
    ASSUME group \in Dirs, NEW c \in Cookies
    PROVE  /\ Pages(c) \subseteq DirFrames /\ Pages(c) # {}
           /\ \A m \in Pages(c) : /\ m.kind = "page" /\ m.cookie = c /\ m.peers \in Dirs
                                  /\ \A p \in Peers : m.peers[p] \in {"absent", group[p]}
           /\ \A p \in Peers : group[p] = "absent" \/ \E m \in Pages(c) : m.peers[p] = group[p]
  <1>. DEFINE listed == {p \in Peers : group[p] # "absent"}
              Only(p) == [Nobody EXCEPT ![p] = group[p]]
  <1>0. Nobody \in Dirs /\ \A q \in Peers : Nobody[q] = "absent"
    BY DEF Nobody, Dirs, PeerStatus
  <1>1. \A p \in Peers : /\ Only(p) \in Dirs /\ Only(p)[p] = group[p]
                         /\ \A q \in Peers : Only(p)[q] \in {"absent", group[q]}
    BY <1>0 DEF Dirs
  <1>2. \A of \in Dirs : /\ Page(c, of) \in DirFrames /\ Page(c, of).kind = "page"
                         /\ Page(c, of).cookie = c /\ Page(c, of).peers = of
    BY DEF Page, DirFrames, Dirs
  <1>3. CASE listed = {}
    <2>1. Pages(c) = {Page(c, Nobody)}
      BY <1>3 DEF Pages
    <2>. QED
      BY <1>0, <1>2, <1>3, <2>1
  <1>4. CASE listed # {}
    <2>1. Pages(c) = {Page(c, Only(p)) : p \in listed}
      BY <1>4 DEF Pages
    <2>. HIDE DEF Only
    <2>. QED
      BY <1>1, <1>2, <1>4, <2>1
  <1>. QED
    BY <1>3, <1>4

LEMMA DirTypeNext == DirTypeOK /\ [DirNext]_dirVars => DirTypeOK'
  <1>. SUFFICES ASSUME DirTypeOK, [DirNext]_dirVars PROVE DirTypeOK'
    OBVIOUS
  <1>. USE DirAssumption DEF DirTypeOK
  <1>0. Nobody \in Dirs
    BY DEF Nobody, Dirs, PeerStatus
  <1>1. CASE DirAnswer
    <2>1. PICK c \in Cookies : told' = told \cup Pages(c) /\ unread' = unread \cup Pages(c)
      BY <1>1 DEF DirAnswer
    <2>2. Pages(c) \subseteq DirFrames
      BY PagesOfGroup DEF Dirs
    <2>3. asked' \in 0..MaxFrames
      BY <1>1 DEF DirAnswer
    <2>. QED
      BY <1>1, <2>1, <2>2, <2>3 DEF DirAnswer, peerVars
  <1>2. ASSUME NEW p \in Peers, NEW s \in PeerStatus, DirChange(p, s) PROVE DirTypeOK'
    <2>1. group' \in [Peers -> PeerStatus] /\ removed' \subseteq Peers /\ changes' \in 0..MaxChanges
      <3>1. changes < MaxChanges /\ changes' = changes + 1 /\ group' = [group EXCEPT ![p] = s]
            /\ removed' \in {removed \cup {p}, removed \ {p}}
        BY <1>2 DEF DirChange
      <3>. QED
        BY <3>1
    <2>2. told' \subseteq DirFrames /\ unread' \subseteq told' /\ sure' \in BOOLEAN /\ asked' = asked
      <3>1. CASE s = "absent"
        BY <1>2, <3>1 DEF DirChange, netVars
      <3>2. CASE s # "absent"
        <4>1. Changed(p, s) \in DirFrames
          BY <3>2 DEF Changed, DirFrames, PeerStatus
        <4>2. told' = told \cup {Changed(p, s)} /\ unread' = unread \cup {Changed(p, s)} /\ asked' = asked
          BY <1>2, <3>2 DEF DirChange
        <4>3. sure' \in BOOLEAN
          BY <1>2, <3>2 DEF DirChange
        <4>. QED
          BY <4>1, <4>2, <4>3
      <3>. QED
        BY <3>1, <3>2
    <2>. QED
      BY <1>2, <2>1, <2>2 DEF DirChange, peerVars
  <1>3. CASE DirLose
    <2>1. told' \subseteq DirFrames /\ unread' \subseteq told' /\ asked' \in 0..MaxFrames
      BY <1>3 DEF DirLose
    <2>2. sure' \in BOOLEAN
      BY <1>3 DEF DirLose
    <2>. QED
      BY <1>3, <2>1, <2>2 DEF DirLose, peerVars, serverVars
  <1>4. CASE DirRegister
    BY <1>4 DEF DirRegister, DirFrames, peerVars, serverVars
  <1>5. ASSUME NEW m \in told, DirRead(m) PROVE DirTypeOK'
    <2>1. told' \subseteq DirFrames /\ unread' \subseteq told'
      BY <1>5 DEF DirRead
    <2>2. asked' \in 0..MaxFrames /\ groupCookie' \in Cookies \cup {0}
          /\ groupPeers' \in [Peers -> PeerStatus] /\ view' \in [Peers -> PeerStatus]
      <3>. m \in DirFrames
        OBVIOUS
      <3>1. CASE m.kind = "page" /\ GroupPeersResponse(m) /\ UNCHANGED asked
        <4>1. m.cookie \in Cookies /\ m.peers \in Dirs
          BY <3>1, FrameKinds
        <4>. QED
          BY <1>0, <3>1, <4>1 DEF GroupPeersResponse, Stored, Dirs
      <3>2. CASE m.kind = "state" /\ PeerStateChanged(m) /\ UNCHANGED asked
        <4>1. m.peer \in Peers /\ m.status \in PeerStatus
          BY <3>2, FrameKinds DEF PeerStatus
        <4>. QED
          BY <3>2, <4>1 DEF PeerStateChanged
      <3>3. CASE m.kind = "authAck"
        BY <1>0, <1>5, <3>3 DEF DirRead, Dirs
      <3>. QED
        BY <1>5, <3>1, <3>2, <3>3 DEF DirRead
    <2>. QED
      BY <1>5, <2>1, <2>2 DEF DirRead, serverVars
  <1>6. CASE DirRefresh
    BY <1>6 DEF DirRefresh, serverVars, netVars
  <1>7. CASE DirRequest
    <2>1. asked' \in 0..MaxFrames /\ refreshing' = FALSE /\ clearing' = {}
      BY <1>7 DEF DirRequest
    <2>. QED
      BY <1>7, <2>1 DEF DirRequest, serverVars
  <1>8. CASE DirShow
    BY <1>8 DEF DirShow, serverVars, netVars
  <1>9. ASSUME NEW p \in Peers, DirDelete(p) PROVE DirTypeOK'
    BY <1>9 DEF DirDelete, serverVars, netVars, PeerStatus
  <1>10. CASE UNCHANGED dirVars
    BY <1>10 DEF dirVars, serverVars, netVars, peerVars
  <1>. QED
    BY <1>1, <1>2, <1>3, <1>4, <1>5, <1>6, <1>7, <1>8, <1>9, <1>10 DEF DirNext

(***************************************************************************)
(* The steps that keep the frames on the way completing the directory.     *)
(***************************************************************************)

\* What DirInv says once nothing has disturbed the last answer.
Completing == Truthful /\ (Arriving \/ Arrived)

\* An undisturbed answer begins: its pages are the only ones.
LEMMA AnswerArrives ==
    ASSUME DirTypeOK, DirAnswer, sure'
    PROVE  Completing'
  <1>1. PICK c \in Cookies : Fresh(c) /\ told' = told \cup Pages(c) /\ unread' = unread \cup Pages(c)
    BY DEF DirAnswer
  <1>2. group \in Dirs /\ PagesIn(told) = {} /\ StatesIn(told) = {}
    BY DEF DirTypeOK, DirAnswer, Dirs
  <1>p. /\ Pages(c) # {}
        /\ \A m \in Pages(c) : /\ m.kind = "page" /\ m.cookie = c
                               /\ \A p \in Peers : m.peers[p] \in {"absent", group[p]}
        /\ \A p \in Peers : group[p] = "absent" \/ \E m \in Pages(c) : m.peers[p] = group[p]
    BY <1>2, PagesOfGroup
  <1>3. PagesIn(told') = Pages(c) /\ StatesIn(told') = {}
    BY <1>1, <1>2, <1>p DEF PagesIn, StatesIn
  <1>4. removed' = {} /\ group' = group /\ groupCookie' = groupCookie /\ c # groupCookie
    BY <1>1 DEF DirAnswer, Fresh, peerVars
  <1>5. \A p \in Peers : About(p)' = {m \in Pages(c) : m.peers[p] # "absent"}
    BY <1>3 DEF About
  <1>6. Truthful'
    BY <1>4, <1>5, <1>p DEF Truthful, Says
  <1>7. \A p \in Peers : group[p] = "absent" \/ About(p)' # {}
    BY <1>5, <1>p
  <1>8. Arriving'
    BY <1>1, <1>3, <1>4, <1>7, <1>p DEF Arriving
  <1>. QED
    BY <1>6, <1>8 DEF Completing

\* News that overtakes nothing completes the directory.
LEMMA ChangeCompletes ==
    ASSUME DirTypeOK, \A q \in removed : group[q] = "absent",
           NEW p \in Peers, NEW s \in PeerStatus, DirChange(p, s), sure', Completing
    PROVE  Completing'
  <1>1. /\ group[p] # s /\ (s = "offline" => group[p] = "online")
        /\ group' = [group EXCEPT ![p] = s] /\ group \in Dirs
        /\ UNCHANGED <<groupPeers, groupCookie, view>>
    BY DEF DirChange, DirTypeOK, Dirs, peerVars
  <1>2. CASE s = "absent"
    <2>1. removed' = removed \cup {p} /\ told' = told /\ unread' = unread
      BY <1>2 DEF DirChange, netVars
    <2>2. \A q \in Peers \ removed' : q \in Peers \ removed /\ group'[q] = group[q]
      BY <1>1, <2>1 DEF Dirs
    <2>3. \A q \in Peers : About(q)' = About(q)
      BY <2>1 DEF About
    <2>4. Truthful'
      BY <2>2, <2>3 DEF Completing, Truthful
    <2>5. Arriving => Arriving'
      BY <1>1, <2>1, <2>2, <2>3 DEF Arriving
    <2>6. Arrived => Arrived'
      BY <1>1, <2>1, <2>2, <2>3 DEF Arrived, Completes
    <2>. QED
      BY <2>4, <2>5, <2>6 DEF Completing
  <1>3. CASE s # "absent"
    <2>. DEFINE n == Changed(p, s)
    <2>1. /\ removed' = removed \ {p} /\ told' = told \cup {n} /\ unread' = unread \cup {n}
          /\ About(p) = {} /\ \A m \in PagesIn(told) : m.cookie = groupCookie
      BY <1>3 DEF DirChange
    <2>2. n.kind = "state" /\ n.peer = p /\ n.status = s
      BY DEF Changed
    <2>. HIDE DEF n
    <2>3. /\ PagesIn(told') = PagesIn(told) /\ StatesIn(told') = StatesIn(told) \cup {n}
          /\ About(p)' = {n} /\ \A q \in Peers \ {p} : About(q)' = About(q)
      BY <2>1, <2>2 DEF PagesIn, StatesIn, About
    <2>4. \A q \in Peers \ {p} : group'[q] = group[q]
      BY <1>1 DEF Dirs
    <2>5. group'[p] = s
      BY <1>1 DEF Dirs
    <2>6. Truthful'
      <3>1. ASSUME NEW q \in Peers \ removed', NEW m \in About(q)' PROVE Says(m, q) = group'[q]
        <4>1. CASE q = p
          BY <2>2, <2>3, <2>5, <3>1, <4>1 DEF Says
        <4>2. CASE q # p
          BY <2>1, <2>3, <2>4, <3>1, <4>2 DEF Completing, Truthful
        <4>. QED
          BY <4>1, <4>2
      <3>. QED
        BY <3>1 DEF Truthful
    <2>7. Arrived
      BY <2>1 DEF Completing, Arriving
    <2>8. Completes(n, p)'
      <3>1. CASE s = "online"
        BY <2>2, <3>1 DEF Completes
      <3>2. CASE s = "offline"
        <4>1. group[p] = "online" /\ p \in Peers \ removed
          BY <1>1, <3>2
        <4>2. groupPeers[p] = "online"
          BY <2>1, <2>7, <4>1 DEF Arrived
        <4>. QED
          BY <1>1, <4>2 DEF Completes
      <3>. QED
        BY <1>3, <3>1, <3>2 DEF PeerStatus
    <2>9. ASSUME NEW q \in Peers \ removed', groupPeers'[q] # group'[q]
          PROVE  \E m \in About(q)' \cap unread' : Completes(m, q)'
      <3>1. CASE q = p
        BY <2>1, <2>3, <2>8, <3>1
      <3>2. CASE q # p
        <4>1. q \in Peers \ removed /\ groupPeers[q] # group[q]
          BY <1>1, <2>1, <2>4, <2>9, <3>2
        <4>2. PICK m \in About(q) \cap unread : Completes(m, q)
          BY <2>7, <4>1 DEF Arrived
        <4>. QED
          BY <1>1, <2>1, <2>3, <3>2, <4>2 DEF Completes
      <3>. QED
        BY <3>1, <3>2
    <2>10. Arrived'
      BY <1>1, <2>1, <2>3, <2>7, <2>9 DEF Arrived
    <2>. QED
      BY <2>6, <2>10 DEF Completing
  <1>. QED
    BY <1>2, <1>3

\* Fewer copies on the way, but every unread frame, and nothing else moves.
LEMMA CopiesComplete ==
    ASSUME Completing, told' \subseteq told, PagesIn(unread) \cup StatesIn(unread) \subseteq told',
           unread \subseteq told, unread' \cap (PagesIn(told) \cup StatesIn(told)) = PagesIn(unread) \cup StatesIn(unread),
           UNCHANGED <<group, removed, groupPeers, groupCookie>>, view' \in {view, groupPeers}
    PROVE  Completing'
  <1>1. /\ PagesIn(told') \subseteq PagesIn(told) /\ StatesIn(told') \subseteq StatesIn(told)
        /\ PagesIn(unread) \subseteq PagesIn(told')
    BY DEF PagesIn, StatesIn
  <1>2. \A p \in Peers : About(p)' \subseteq About(p) /\ About(p) \cap unread \subseteq About(p)' \cap unread'
    BY DEF About, PagesIn, StatesIn
  <1>3. Truthful'
    BY <1>2 DEF Completing, Truthful
  <1>4. Arriving => Arriving'
    <2>. SUFFICES ASSUME Arriving PROVE Arriving'
      OBVIOUS
    <2>1. PagesIn(told') = PagesIn(told) /\ StatesIn(told') = {}
      BY <1>1 DEF Arriving, PagesIn
    <2>2. PagesIn(told) \subseteq unread'
      BY DEF Arriving, PagesIn
    <2>3. \A p \in Peers : About(p)' = About(p)
      BY <2>1 DEF About, Arriving
    <2>. QED
      BY <2>1, <2>2, <2>3 DEF Arriving
  <1>5. Arrived => Arrived'
    <2>. SUFFICES ASSUME Arrived PROVE Arrived'
      OBVIOUS
    <2>1. ASSUME NEW p \in Peers \ removed, groupPeers[p] # group[p]
          PROVE  \E m \in About(p)' \cap unread' : Completes(m, p)'
      <3>1. PICK m \in About(p) \cap unread : Completes(m, p)
        BY <2>1 DEF Arrived
      <3>. QED
        BY <1>2, <3>1 DEF Completes
    <2>. QED
      BY <1>1, <2>1 DEF Arrived
  <1>. QED
    BY <1>3, <1>4, <1>5 DEF Completing

\* A page or a change is read: what it says is in the directory, and what is
\* still missing is unread.
LEMMA ReadCompletes ==
    ASSUME DirTypeOK, Completing, NEW m \in told, told' \in {told, told \ {m}}, unread' = unread \ {m},
           \/ m.kind = "page" /\ GroupPeersResponse(m)
           \/ m.kind = "state" /\ PeerStateChanged(m),
           UNCHANGED <<group, removed>>
    PROVE  Completing'
  <1>1. /\ PagesIn(told') \subseteq PagesIn(told)
        /\ \A p \in Peers : About(p)' \subseteq About(p)
        /\ \A p \in Peers : (About(p) \cap unread) \ {m} \subseteq About(p)' \cap unread'
    BY DEF PagesIn, StatesIn, About, DirTypeOK
  <1>2. Truthful'
    BY <1>1 DEF Completing, Truthful
  <1>3. view' = groupPeers' /\ groupPeers \in Dirs /\ group \in Dirs /\ m \in DirFrames
    BY DEF GroupPeersResponse, PeerStateChanged, DirTypeOK, Dirs
  <1>4. CASE m.kind = "page"
    <2>1. /\ groupCookie' = m.cookie /\ m \in PagesIn(told) /\ m.peers \in Dirs
          /\ groupPeers' = Stored(IF groupCookie # m.cookie THEN Nobody ELSE groupPeers, m.peers)
      BY <1>4, FrameKinds, <1>3 DEF GroupPeersResponse, PagesIn, PeerStateChanged
    <2>2. \A p \in Peers \ removed : m.peers[p] # "absent" => groupPeers'[p] = group[p]
      <3>1. ASSUME NEW p \in Peers \ removed, m.peers[p] # "absent" PROVE groupPeers'[p] = group[p]
        <4>1. m \in About(p)
          BY <2>1, <3>1 DEF About
        <4>2. m.peers[p] = group[p]
          BY <1>4, <4>1 DEF Completing, Truthful, Says
        <4>. QED
          BY <2>1, <3>1, <4>2 DEF Stored
      <3>. QED
        BY <3>1
    <2>3. \A n \in PagesIn(told) : n.cookie = m.cookie
      BY <2>1 DEF Completing, Arriving, Arrived
    <2>4. ASSUME NEW p \in Peers \ removed, groupPeers'[p] # group[p]
          PROVE  \E n \in About(p)' \cap unread' : Completes(n, p)'
      <3>0. m.peers[p] = "absent" /\ m \notin About(p)
        BY <1>4, <2>2, <2>4 DEF About, StatesIn
      <3>1. CASE Arriving
        <4>1. groupPeers'[p] = "absent"
          BY <2>1, <3>0, <3>1 DEF Arriving, Stored, Nobody
        <4>2. PICK n \in About(p) : TRUE
          BY <2>4, <3>1, <4>1 DEF Arriving
        <4>3. n \in PagesIn(told) /\ n \in unread /\ n # m
          BY <3>0, <3>1, <4>2 DEF Arriving, About
        <4>. QED
          BY <1>1, <4>2, <4>3 DEF Completes, PagesIn
      <3>2. CASE Arrived
        <4>1. groupPeers'[p] = groupPeers[p]
          BY <2>1, <3>0, <3>2 DEF Arrived, Stored
        <4>2. PICK n \in About(p) \cap unread : Completes(n, p)
          BY <2>4, <3>2, <4>1 DEF Arrived
        <4>. QED
          BY <1>1, <3>0, <4>1, <4>2 DEF Completes
      <3>. QED
        BY <3>1, <3>2 DEF Completing
    <2>5. Arrived'
      BY <1>1, <1>3, <2>1, <2>3, <2>4 DEF Arrived
    <2>. QED
      BY <1>2, <2>5 DEF Completing
  <1>5. CASE m.kind = "state"
    <2>1. /\ groupCookie' = groupCookie /\ m \in StatesIn(told) /\ m.peer \in Peers /\ m.status # "absent"
          /\ groupPeers' = IF m.status = "online" \/ groupPeers[m.peer] # "absent"
                           THEN [groupPeers EXCEPT ![m.peer] = m.status] ELSE groupPeers
      BY <1>5, FrameKinds, <1>3 DEF GroupPeersResponse, StatesIn, PeerStateChanged
    <2>2. Arrived
      BY <2>1 DEF Completing, Arriving
    <2>3. \A p \in Peers : groupPeers[p] # "absent" => groupPeers'[p] # "absent"
      BY <1>3, <2>1 DEF Dirs
    <2>4. ASSUME NEW p \in Peers \ removed, groupPeers'[p] # group[p]
          PROVE  \E n \in About(p)' \cap unread' : Completes(n, p)'
      <3>1. CASE p # m.peer
        <4>1. groupPeers'[p] = groupPeers[p] /\ m \notin About(p)
          BY <1>3, <1>5, <2>1, <3>1 DEF Dirs, About, PagesIn, StatesIn
        <4>2. PICK n \in About(p) \cap unread : Completes(n, p)
          BY <2>2, <2>4, <4>1 DEF Arrived
        <4>. QED
          BY <1>1, <4>1, <4>2 DEF Completes
      <3>2. CASE p = m.peer
        <4>1. m \in About(p) /\ m.status = group[p]
          <5>1. m \in About(p)
            BY <2>1, <3>2 DEF About
          <5>2. Says(m, p) = group[p]
            BY <5>1, <2>4 DEF Completing, Truthful
          <5>. QED
            BY <1>5, <5>1, <5>2 DEF Says
        <4>2. m.status # "online" /\ groupPeers[p] = "absent" /\ groupPeers' = groupPeers
          BY <1>3, <2>1, <2>4, <3>2, <4>1 DEF Dirs
        <4>3. PICK n \in About(p) \cap unread : Completes(n, p)
          BY <2>2, <2>4, <4>2 DEF Arrived
        <4>4. n.kind = "page"
          <5>1. CASE n.kind # "page"
            <6>1. n.status = "online"
              BY <4>2, <4>3, <5>1 DEF Completes
            <6>2. Says(n, p) = group[p]
              BY <4>3, <2>4 DEF Completing, Truthful
            <6>. QED
              BY <4>1, <4>2, <5>1, <6>1, <6>2 DEF Says
          <5>. QED
            BY <5>1
        <4>5. n # m
          BY <1>5, <4>4
        <4>. QED
          BY <1>1, <4>3, <4>4, <4>5 DEF Completes
      <3>. QED
        BY <3>1, <3>2
    <2>5. Arrived'
      BY <1>1, <1>3, <2>1, <2>2, <2>4 DEF Arrived
    <2>. QED
      BY <1>2, <2>5 DEF Completing
  <1>. QED
    BY <1>4, <1>5

-----------------------------------------------------------------------------
(***************************************************************************)
(* The invariant.                                                          *)
(***************************************************************************)
LEMMA DirInvNext == DirInv /\ [DirNext]_dirVars => DirInv'
  <1>. SUFFICES ASSUME DirInv, [DirNext]_dirVars PROVE DirInv'
    OBVIOUS
  <1>t. DirTypeOK /\ (\A p \in removed : group[p] = "absent") /\ (sure /\ NoRequest => Completing)
    BY DEF DirInv, Completing
  <1>y. unread \subseteq told /\ told \subseteq DirFrames /\ group \in Dirs /\ asked \in Nat
        /\ (clearing # {} => refreshing)
    BY <1>t, DirAssumption DEF DirTypeOK, Dirs
  <1>1. DirTypeOK'
    BY <1>t, DirTypeNext
  <1>2. \A p \in removed' : group'[p] = "absent"
    <2>1. CASE UNCHANGED <<group, removed>>
      BY <1>t, <2>1
    <2>2. CASE removed' = {}
      BY <2>2
    <2>3. ASSUME NEW p \in Peers, NEW s \in PeerStatus, DirChange(p, s)
          PROVE  \A q \in removed' : group'[q] = "absent"
      BY <1>t, <1>y, <2>3 DEF DirChange, Dirs, DirTypeOK
    <2>. QED
      BY <2>1, <2>2, <2>3
         DEF DirNext, DirAnswer, DirLose, DirRegister, DirRefresh, DirRequest, DirRead, DirShow, DirDelete,
             dirVars, serverVars
  <1>3. ASSUME sure', NoRequest' PROVE Completing'
    <2>1. CASE DirAnswer
      BY <1>3, <1>t, <2>1, AnswerArrives
    <2>2. ASSUME NEW p \in Peers, NEW st \in PeerStatus, DirChange(p, st) PROVE Completing'
      <3>1. sure /\ NoRequest
        BY <1>3, <2>2 DEF DirChange, netVars, peerVars, NoRequest
      <3>. QED
        BY <1>3, <1>t, <2>2, <3>1, ChangeCompletes
    <2>3. ASSUME NEW m \in told, DirRead(m) PROVE Completing'
      <3>1. m.kind \in {"page", "state"} /\ sure /\ NoRequest
        BY <1>3, <1>y, <2>3 DEF DirRead, NoRequest
      <3>. QED
        BY <1>t, <2>3, <3>1, ReadCompletes DEF DirRead, serverVars
    <2>4. CASE DirLose
      <3>1. PICK m \in told : told' = told \ {m} /\ unread' = unread \ {m} /\ sure /\ m \notin unread /\ asked' = asked
        BY <1>3, <2>4 DEF DirLose
      <3>2. UNCHANGED <<group, removed, groupPeers, groupCookie, view, refreshing>>
        BY <2>4 DEF DirLose, serverVars, peerVars
      <3>3. Completing
        BY <1>3, <1>t, <3>1, <3>2 DEF NoRequest
      <3>4. unread' = unread /\ unread \subseteq told'
        BY <1>y, <3>1
      <3>. QED
        BY <1>y, <3>1, <3>2, <3>3, <3>4, CopiesComplete DEF PagesIn, StatesIn
    <2>5. CASE DirRegister
      <3>1. /\ PagesIn(told') = PagesIn(told) /\ StatesIn(told') = StatesIn(told) /\ sure /\ NoRequest
            /\ UNCHANGED <<group, removed, groupPeers, groupCookie, view, unread>>
        BY <1>3, <2>5 DEF DirRegister, AuthAck, PagesIn, StatesIn, NoRequest, serverVars, peerVars
      <3>2. \A p \in Peers : About(p)' = About(p)
        BY <3>1 DEF About
      <3>3. Truthful'
        BY <1>t, <3>1, <3>2 DEF Completing, Truthful
      <3>4. (Arriving => Arriving') /\ (Arrived => Arrived')
        BY <3>1, <3>2 DEF Arriving, Arrived, Completes
      <3>. QED
        BY <1>t, <3>1, <3>3, <3>4 DEF Completing
    <2>6. CASE DirRefresh
      BY <1>3, <2>6 DEF DirRefresh, NoRequest
    <2>7. CASE DirRequest
      BY <1>3, <1>y, <2>7 DEF DirRequest, NoRequest
    <2>8. ASSUME NEW p \in Peers, DirDelete(p) PROVE Completing'
      BY <1>3, <1>y, <2>8 DEF DirDelete, NoRequest
    <2>9. CASE DirShow \/ UNCHANGED dirVars
      <3>1. /\ UNCHANGED <<group, removed, asked, told, unread, sure, groupPeers, groupCookie, refreshing>>
            /\ view' \in {view, groupPeers}
        BY <2>9 DEF DirShow, dirVars, serverVars, netVars, peerVars
      <3>2. Completing
        BY <1>3, <1>t, <3>1 DEF NoRequest
      <3>. QED
        BY <1>y, <3>1, <3>2, CopiesComplete DEF PagesIn, StatesIn
    <2>. QED
      BY <2>1, <2>2, <2>3, <2>4, <2>5, <2>6, <2>7, <2>8, <2>9 DEF DirNext
  <1>. QED
    BY <1>1, <1>2, <1>3 DEF DirInv, Completing

LEMMA DirInvariant == DirSpec => []DirInv
  <1>1. DirInit => DirInv
    <2>. SUFFICES ASSUME DirInit PROVE DirInv
      OBVIOUS
    <2>1. DirTypeOK
      <3>1. 0 \in 0..MaxFrames /\ 0 \in 0..MaxChanges
        BY DirAssumption
      <3>2. /\ group \in [Peers -> PeerStatus] /\ groupPeers \in [Peers -> PeerStatus]
            /\ view \in [Peers -> PeerStatus]
        BY DEF DirInit, Nobody, PeerStatus
      <3>. QED
        BY <3>1, <3>2 DEF DirInit, DirTypeOK
    <2>. QED
      BY <2>1 DEF DirInit, DirInv
  <1>. QED
    BY <1>1, DirInvNext, PTL DEF DirSpec

\* The directory, the list on the screen, the cookie and the frames keep their
\* types, and ClearMap runs only within a request (runtime_service.go).
THEOREM DirTypes == DirSpec => []DirTypeOK
  <1>1. DirInv => DirTypeOK
    BY DEF DirInv
  <1>. QED
    BY <1>1, DirInvariant, PTL

\* The directory heals: once an answer that nothing disturbs has arrived in
\* full, in any order, the directory and the screen are the group, whatever was
\* lost, duplicated or mixed before (ProcessGroupPeersResponse,
\* ProcessPeerStateChanged and ClearMap beside them).
THEOREM DirectoryIsCurrent == DirSpec => []DirectoryCurrent
  <1>1. DirInv => DirectoryCurrent
    <2>. SUFFICES ASSUME DirInv, sure, NoRequest, unread = {}, NEW p \in Peers \ removed
                  PROVE  groupPeers[p] = group[p] /\ view[p] = group[p]
      BY DEF DirectoryCurrent
    <2>1. Arrived
      BY DEF DirInv, Arriving
    <2>. QED
      BY <2>1 DEF Arrived
  <1>. QED
    BY <1>1, DirInvariant, PTL
=============================================================================
