-------------------------- MODULE ServerLinkProofs --------------------------
(***************************************************************************)
(* Proofs about ServerLink, for every number of channels and of goroutines *)
(* that run stateCheck.                                                    *)
(***************************************************************************)
EXTENDS ServerLink, TLAPS

\* What stateCheck holds at each place it can be at.
LEMMA PcCases ==
    ASSUME NEW x \in PcStates
    PROVE  /\ x.chan \in Chans \cup {None}
           /\ x.at = "bound" => x.chan \in Chans /\ x = At("bound", x.chan)
           /\ x.at \in {"none", "start", "select", "leave", "startPing",
                        "tickPing", "reset", "ping", "dial", "sent", "bound"}
  BY DEF PcStates, At

\* The places stateCheck moves to are in PcStates.
LEMMA PcValues ==
    /\ \A w \in {"none", "start", "select", "leave", "startPing", "tickPing",
                 "reset", "ping", "dial", "sent"} :
          At(w, None) \in PcStates /\ At(w, None).at = w
    /\ \A c \in Chans : /\ At("bound", c) \in PcStates
                        /\ At("bound", c).at = "bound"
                        /\ At("bound", c).chan = c
  BY DEF PcStates, At

\* The program starts with the variables in their types.
LEMMA TypeInit == Init => TypeOK
  <1>. SUFFICES ASSUME Init PROVE TypeOK
    OBVIOUS
  <1>1. pc \in [Checkers -> PcStates]
    BY PcValues DEF Init
  <1>. QED
    BY <1>1 DEF Init, TypeOK, PeerStates, Ages, ChanStates

\* SendAuthRequest and its caller change asked and the place of stateCheck.
LEMMA RegisteredTypes ==
    ASSUME TypeOK, NEW k \in Checkers, Registered(k)
    PROVE  /\ asked' \in SUBSET Chans
           /\ pc' \in [Checkers -> PcStates]
           /\ \E w \in {"select", "leave", "sent"} : Goto(k, w)
  <1>1. \E w \in {"select", "leave", "sent"} : Goto(k, w)
    BY DEF Registered, SendAuthRequest, Loop
  <1>2. pc' \in [Checkers -> PcStates]
    BY <1>1, PcValues DEF Goto, TypeOK
  <1>3. asked' \in SUBSET Chans
    BY DEF Registered, SendAuthRequest, TypeOK
  <1>. QED
    BY <1>1, <1>2, <1>3

\* stopAllSockets keeps the types.
LEMMA StopTypes ==
    ASSUME TypeOK, stopAllSockets
    PROVE  /\ chan' \in [Chans -> ChanStates]
           /\ connected' \in BOOLEAN
           /\ peerState' \in PeerStates
           /\ serverChannel' \in Chans \cup {None}
  BY DEF stopAllSockets, TypeOK, ChanStates, PeerStates

\* Every step keeps the types.
LEMMA TypeNext == TypeOK /\ [Next]_vars => TypeOK'
  <1>. SUFFICES ASSUME TypeOK, [Next]_vars PROVE TypeOK'
    OBVIOUS
  <1>1. ASSUME NEW k \in Checkers, FirstTest(k) PROVE TypeOK'
    <2>1. pc' \in [Checkers -> PcStates]
      BY <1>1, PcValues DEF FirstTest, Loop, Goto, TypeOK
    <2>. QED
      BY <1>1, <2>1 DEF FirstTest, life, sockCtx, TypeOK
  <1>2. ASSUME NEW k \in Checkers, Tick(k) PROVE TypeOK'
    <2>1. asked' \in SUBSET Chans /\ pc' \in [Checkers -> PcStates]
      <3>1. CASE Registered(k)
        BY <3>1, RegisteredTypes
      <3>2. CASE ~ Registered(k)
        BY <1>2, <3>2, PcValues DEF Tick, Goto, TypeOK
      <3>. QED
        BY <3>1, <3>2
    <2>. QED
      BY <1>2, <2>1 DEF Tick, life, sockCtx, TypeOK
  <1>3. ASSUME NEW k \in Checkers, NetPing(k) PROVE TypeOK'
    <2>1. asked' \in SUBSET Chans /\ pc' \in [Checkers -> PcStates]
      <3>1. CASE Registered(k)
        BY <3>1, RegisteredTypes
      <3>2. CASE ~ Registered(k)
        BY <1>3, <3>2, PcValues DEF NetPing, Loop, Goto, TypeOK
      <3>. QED
        BY <3>1, <3>2
    <2>. QED
      BY <1>3, <2>1 DEF NetPing, life, sockCtx, TypeOK
  <1>4. ASSUME NEW k \in Checkers, AuthSent(k) PROVE TypeOK'
    <2>1. pc' \in [Checkers -> PcStates]
      BY <1>4, PcValues DEF AuthSent, Loop, Goto, TypeOK
    <2>. QED
      BY <1>4, <2>1 DEF AuthSent, life, sockCtx, TypeOK, PeerStates
  <1>5. ASSUME NEW k \in Checkers, Reset(k) PROVE TypeOK'
    <2>1. pc' \in [Checkers -> PcStates]
      BY <1>5, PcValues DEF Reset, Goto, TypeOK
    <2>. QED
      BY <1>5, <2>1, StopTypes DEF Reset, life, TypeOK
  <1>6. ASSUME NEW k \in Checkers, ServerPing(k) PROVE TypeOK'
    <2>1. pc' \in [Checkers -> PcStates]
      BY <1>6, PcValues DEF ServerPing, Loop, Goto, TypeOK
    <2>. QED
      BY <1>6, <2>1 DEF ServerPing, life, sockCtx, TypeOK, PeerStates
  <1>7. ASSUME NEW k \in Checkers, HandleActive(k) PROVE TypeOK'
    <2>1. PICK c \in Chans :
             /\ chan' = [chan EXCEPT ![c] = "open"]
             /\ boot' = c
             /\ handler' = c
             /\ asked' = IF running THEN asked \cup {c} ELSE asked
             /\ pc' = [pc EXCEPT ![k] = At("bound", c)]
      BY <1>7 DEF HandleActive
    <2>2. pc' \in [Checkers -> PcStates]
      BY <2>1, PcValues DEF TypeOK
    <2>3. chan' \in [Chans -> ChanStates] /\ asked' \in SUBSET Chans
      BY <2>1 DEF TypeOK, ChanStates
    <2>. QED
      BY <1>7, <2>1, <2>2, <2>3
      DEF HandleActive, life, TypeOK, PeerStates, Ages
  <1>8. ASSUME NEW k \in Checkers, DialFails(k) PROVE TypeOK'
    <2>1. pc' \in [Checkers -> PcStates]
      BY <1>8, PcValues DEF DialFails, Loop, Goto, TypeOK
    <2>. QED
      BY <1>8, <2>1 DEF DialFails, life, TypeOK, PeerStates
  <1>9. ASSUME NEW k \in Checkers, Bound(k) PROVE TypeOK'
    <2>1. pc' \in [Checkers -> PcStates] /\ pc[k].chan \in Chans
      BY <1>9, PcValues, PcCases DEF Bound, Loop, Goto, TypeOK
    <2>. QED
      BY <1>9, <2>1 DEF Bound, life, TypeOK, PeerStates
  <1>10. ASSUME NEW k \in Checkers, Leave(k) PROVE TypeOK'
    <2>1. pc' \in [Checkers -> PcStates]
      BY <1>10, PcValues DEF Leave, Goto, TypeOK
    <2>. QED
      BY <1>10, <2>1, StopTypes DEF Leave, TypeOK
  <1>11. CASE Stop
    BY <1>11 DEF Stop, sockCtx, TypeOK, PeerStates
  <1>12. ASSUME NEW k \in Checkers, Start(k) PROVE TypeOK'
    <2>1. pc' \in [Checkers -> PcStates]
      BY <1>12, PcValues DEF Start, Goto, TypeOK
    <2>. QED
      BY <1>12, <2>1 DEF Start, sockCtx, TypeOK
  <1>13. ASSUME NEW c \in Chans, Frame(c) PROVE TypeOK'
    BY <1>13 DEF Frame, HandleRead, life, TypeOK, Ages
  <1>14. ASSUME NEW c \in Chans, AuthAck(c) \/ AuthRefused(c) PROVE TypeOK'
    BY <1>14 DEF AuthAck, AuthRefused, HandleRead, life, TypeOK, Ages, PeerStates
  <1>15. ASSUME NEW c \in Chans, Lose(c) PROVE TypeOK'
    BY <1>15 DEF Lose, life, sockCtx, TypeOK
  <1>16. ASSUME NEW c \in Chans, BeginClose(c) PROVE TypeOK'
    BY <1>16 DEF BeginClose, life, sockCtx, TypeOK, ChanStates
  <1>17. ASSUME NEW c \in Chans, HandleInactive(c) PROVE TypeOK'
    BY <1>17 DEF HandleInactive, life, TypeOK, ChanStates
  <1>18. ASSUME NEW c \in Chans, HandleException(c) PROVE TypeOK'
    BY <1>18 DEF HandleException, life, TypeOK, ChanStates
  <1>19. ASSUME NEW c \in Chans, ReadLoopEnds(c) PROVE TypeOK'
    BY <1>19 DEF ReadLoopEnds, life, sockCtx, TypeOK, ChanStates
  <1>20. CASE GrowLate
    BY <1>20 DEF GrowLate, life, TypeOK, Ages
  <1>21. CASE NetChange
    BY <1>21 DEF NetChange, life, sockCtx, TypeOK
  <1>22. CASE UNCHANGED vars
    BY <1>22 DEF vars, TypeOK
  <1>. QED
    BY <1>1, <1>2, <1>3, <1>4, <1>5, <1>6, <1>7, <1>8, <1>9, <1>10, <1>11,
       <1>12, <1>13, <1>14, <1>15, <1>16, <1>17, <1>18, <1>19, <1>20, <1>21,
       <1>22
    DEF Next, stateCheck

\* The types hold in every state (TypeOK of ServerLink), so peerState is never
\* StateConnOk.
THEOREM TypeCorrect == Spec => []TypeOK
  BY TypeInit, TypeNext, PTL DEF Spec


-----------------------------------------------------------------------------
(***************************************************************************)
(* The invariant LinkInv.                                                  *)
(***************************************************************************)

\* Nothing is open when the program starts.
LEMMA LinkInit == Init => LinkInv
  <1>. SUFFICES ASSUME Init PROVE LinkInv
    OBVIOUS
  <1>1. NoneOpen /\ serverChannel = None
    BY DEF Init, NoneOpen
  <1>2. OneChecker
    BY DEF Init, OneChecker, At
  <1>. QED
    BY <1>1, <1>2 DEF LinkInv, OneLink, Unlinked, NoneOpen

\* Steps that open no channel and move no stateCheck.
LEMMA LinkQuiet ==
    ASSUME LinkInv, UNCHANGED <<boot, serverChannel, pc, overlapped>>,
           \A c \in Chans : chan'[c] = "open" => chan[c] = "open"
    PROVE  LinkInv'
  <1>1. OneLink'
    BY DEF LinkInv, OneLink
  <1>2. ~ overlapped => OneChecker' /\ Unlinked'
    BY DEF LinkInv, OneChecker, Unlinked, NoneOpen
  <1>. QED
    BY <1>1, <1>2 DEF LinkInv

\* A stateCheck that moves is the only one, before and after.
LEMMA MoverAlone ==
    ASSUME TypeOK, OneChecker, NEW k \in Checkers, pc[k].at # "none",
           NEW x \in PcStates, pc' = [pc EXCEPT ![k] = x]
    PROVE  /\ OneChecker'
           /\ pc'[k] = x
           /\ \A j \in Checkers : j # k => pc'[j] = pc[j] /\ pc[j].at = "none"
  BY DEF TypeOK, OneChecker

\* Steps in which a stateCheck goes on and the link is left as it is.
LEMMA LinkMove ==
    ASSUME TypeOK, LinkInv, NEW k \in Checkers,
           pc[k].at \notin {"none", "bound"},
           NEW w \in {"start", "select", "leave", "startPing", "tickPing",
                      "reset", "ping", "dial", "sent"},
           Goto(k, w), UNCHANGED <<boot, serverChannel, chan, overlapped>>,
           ~ overlapped /\ w \in {"start", "startPing", "ping", "dial"} => NoneOpen,
           ~ overlapped /\ w \in {"ping", "dial"} => serverChannel = None
    PROVE  LinkInv'
  <1>. SUFFICES ASSUME ~ overlapped PROVE LinkInv'
    BY DEF LinkInv, OneLink
  <1>1. OneLink /\ OneChecker /\ Unlinked
    BY DEF LinkInv
  <1>2. At(w, None) \in PcStates /\ At(w, None).at = w
    BY PcValues
  <1>3. /\ OneChecker'
        /\ pc'[k].at = w
        /\ \A j \in Checkers : j # k => pc'[j] = pc[j] /\ pc[j].at = "none"
    <2>1. pc[k].at # "none" /\ pc' = [pc EXCEPT ![k] = At(w, None)]
      BY DEF Goto
    <2>2. /\ OneChecker'
          /\ pc'[k] = At(w, None)
          /\ \A j \in Checkers : j # k => pc'[j] = pc[j] /\ pc[j].at = "none"
      BY <1>1, <1>2, <2>1, MoverAlone
    <2>. QED
      BY <1>2, <2>2
  <1>4. OneLink'
    <2>. SUFFICES ASSUME NEW c \in Chans, chan[c] = "open"
                  PROVE  boot = c /\ serverChannel = c
      BY DEF OneLink
    <2>1. \A j \in Checkers : pc[j] # At("bound", c)
      BY <1>3, PcValues
    <2>. QED
      BY <1>1, <2>1 DEF OneLink
  <1>5. Unlinked'
    BY <1>3 DEF Unlinked, NoneOpen
  <1>. QED
    BY <1>3, <1>4, <1>5 DEF LinkInv

\* stopAllSockets leaves no open channel when it is called by the only
\* stateCheck and no channel is between Connect and its assignment.
LEMMA StopCloses ==
    ASSUME TypeOK, OneLink, ~ overlapped, stopAllSockets,
           \A k \in Checkers : pc[k].at # "bound"
    PROVE  NoneOpen' /\ serverChannel' = None
  <1>1. ASSUME NEW c \in Chans, chan'[c] = "open" PROVE FALSE
    <2>1. chan[c] = "open" /\ c # serverChannel
      BY <1>1 DEF stopAllSockets
    <2>2. PICK k \in Checkers : pc[k] = At("bound", c)
      BY <2>1 DEF OneLink
    <2>. QED
      BY <2>2, PcValues
  <1>. QED
    BY <1>1 DEF NoneOpen, stopAllSockets

\* Every step keeps the invariant.
LEMMA LinkNext == TypeOK /\ LinkInv /\ [Next]_vars => LinkInv'
  <1>. SUFFICES ASSUME TypeOK, LinkInv, [Next]_vars PROVE LinkInv'
    OBVIOUS
  <1>1. ASSUME NEW k \in Checkers, FirstTest(k) PROVE LinkInv'
    <2>1. PICK w \in {"reset", "startPing", "select", "leave"} : Goto(k, w)
      BY <1>1 DEF FirstTest, Loop
    <2>2. ~ overlapped => NoneOpen
      BY <1>1 DEF FirstTest, LinkInv, Unlinked
    <2>. QED
      BY <1>1, <2>1, <2>2, LinkMove DEF FirstTest, sockCtx
  <1>2. ASSUME NEW k \in Checkers, Tick(k) PROVE LinkInv'
    <2>1. PICK w \in {"reset", "tickPing", "select", "leave", "sent"} : Goto(k, w)
      BY <1>2, RegisteredTypes DEF Tick
    <2>. QED
      BY <1>2, <2>1, LinkMove DEF Tick, sockCtx
  <1>3. ASSUME NEW k \in Checkers, NetPing(k) PROVE LinkInv'
    <2>1. PICK w \in {"reset", "select", "leave", "sent"} : Goto(k, w)
      BY <1>3, RegisteredTypes DEF NetPing, Loop
    <2>. QED
      BY <1>3, <2>1, LinkMove DEF NetPing, sockCtx
  <1>4. ASSUME NEW k \in Checkers, AuthSent(k) PROVE LinkInv'
    <2>1. PICK w \in {"select", "leave"} : Goto(k, w)
      BY <1>4 DEF AuthSent, Loop
    <2>. QED
      BY <1>4, <2>1, LinkMove DEF AuthSent, sockCtx
  <1>5. ASSUME NEW k \in Checkers, Reset(k) PROVE LinkInv'
    <2>. SUFFICES ASSUME ~ overlapped PROVE LinkInv'
      BY <1>5 DEF Reset, LinkInv, OneLink
    <2>1. OneLink /\ OneChecker
      BY DEF LinkInv
    <2>2. pc[k].at = "reset" /\ \A j \in Checkers : pc[j].at # "bound"
      BY <1>5, <2>1 DEF Reset, OneChecker
    <2>3. NoneOpen' /\ serverChannel' = None
      BY <1>5, <2>1, <2>2, StopCloses DEF Reset
    <2>4. OneChecker'
      BY <1>5, <2>1, <2>2, PcValues, MoverAlone DEF Reset, Goto
    <2>. QED
      BY <2>3, <2>4 DEF LinkInv, OneLink, Unlinked, NoneOpen
  <1>6. ASSUME NEW k \in Checkers, ServerPing(k) PROVE LinkInv'
    <2>1. PICK w \in {"dial", "select", "leave"} : Goto(k, w)
      BY <1>6 DEF ServerPing, Loop
    <2>2. ~ overlapped => NoneOpen /\ serverChannel = None
      BY <1>6 DEF ServerPing, LinkInv, Unlinked
    <2>. QED
      BY <1>6, <2>1, <2>2, LinkMove DEF ServerPing, sockCtx
  <1>7. ASSUME NEW k \in Checkers, HandleActive(k) PROVE LinkInv'
    <2>. SUFFICES ASSUME ~ overlapped PROVE LinkInv'
      BY <1>7 DEF HandleActive, LinkInv, OneLink
    <2>1. PICK c \in Chans : /\ chan' = [chan EXCEPT ![c] = "open"]
                             /\ boot' = c
                             /\ pc' = [pc EXCEPT ![k] = At("bound", c)]
      BY <1>7 DEF HandleActive
    <2>2. OneChecker /\ NoneOpen /\ serverChannel = None
      BY <1>7 DEF HandleActive, LinkInv, Unlinked
    <2>3. /\ OneChecker'
          /\ pc'[k] = At("bound", c)
          /\ \A j \in Checkers : j # k => pc'[j] = pc[j] /\ pc[j].at = "none"
      BY <1>7, <2>1, <2>2, PcValues, MoverAlone DEF HandleActive
    <2>4. OneLink'
      <3>1. \A d \in Chans : chan'[d] = "open" => d = c
        BY <2>1, <2>2 DEF NoneOpen, TypeOK
      <3>. QED
        BY <2>1, <2>3, <3>1 DEF OneLink
    <2>5. Unlinked'
      <3>1. pc'[k].at = "bound" /\ serverChannel' = None
        BY <1>7, <2>2, <2>3, PcValues DEF HandleActive
      <3>. QED
        BY <2>3, <3>1 DEF Unlinked
    <2>. QED
      BY <2>3, <2>4, <2>5 DEF LinkInv
  <1>8. ASSUME NEW k \in Checkers, DialFails(k) PROVE LinkInv'
    <2>. SUFFICES ASSUME ~ overlapped PROVE LinkInv'
      BY <1>8 DEF DialFails, LinkInv, OneLink
    <2>1. OneChecker /\ NoneOpen'
      BY <1>8 DEF DialFails, LinkInv, Unlinked, NoneOpen
    <2>2. OneChecker' /\ serverChannel' = None
      BY <1>8, <2>1, PcValues, MoverAlone DEF DialFails, Loop, Goto
    <2>. QED
      BY <2>1, <2>2 DEF LinkInv, OneLink, Unlinked, NoneOpen
  <1>9. ASSUME NEW k \in Checkers, Bound(k) PROVE LinkInv'
    <2>. SUFFICES ASSUME ~ overlapped PROVE LinkInv'
      BY <1>9 DEF Bound, LinkInv, OneLink
    <2>1. OneLink /\ OneChecker /\ serverChannel = None
      BY <1>9 DEF Bound, LinkInv, Unlinked
    <2>2. PICK w \in {"select", "leave"} : Goto(k, w)
      BY <1>9 DEF Bound, Loop
    <2>3. /\ OneChecker'
          /\ pc'[k] = At(w, None)
          /\ \A j \in Checkers : j # k => pc'[j] = pc[j] /\ pc[j].at = "none"
      BY <1>9, <2>1, <2>2, PcValues, MoverAlone DEF Bound, Goto
    <2>4. OneLink'
      <3>. SUFFICES ASSUME NEW c \in Chans, chan[c] = "open"
                    PROVE  boot = c /\ pc[k].chan = c
        BY <1>9 DEF Bound, OneLink
      <3>1. serverChannel # c
        BY <2>1, LinkAssumption
      <3>2. PICK j \in Checkers : boot = c /\ pc[j] = At("bound", c)
        BY <2>1, <3>1 DEF OneLink
      <3>3. j = k
        BY <2>3, <3>2, PcValues
      <3>. QED
        BY <3>2, <3>3, PcValues
    <2>5. Unlinked'
      <3>1. pc'[k].at = w
        BY <2>3, PcValues
      <3>. QED
        BY <2>3, <3>1 DEF Unlinked
    <2>. QED
      BY <2>3, <2>4, <2>5 DEF LinkInv
  <1>10. ASSUME NEW k \in Checkers, Leave(k) PROVE LinkInv'
    <2>. SUFFICES ASSUME ~ overlapped PROVE LinkInv'
      BY <1>10 DEF Leave, LinkInv, OneLink
    <2>1. OneLink /\ OneChecker
      BY DEF LinkInv
    <2>2. /\ pc[k].at \in {"select", "leave"}
          /\ \A j \in Checkers : pc[j].at # "bound"
      BY <1>10, <2>1 DEF Leave, OneChecker
    <2>3. NoneOpen' /\ serverChannel' = None
      BY <1>10, <2>1, <2>2, StopCloses DEF Leave
    <2>4. OneChecker'
      BY <1>10, <2>1, <2>2, PcValues, MoverAlone DEF Leave, Goto
    <2>. QED
      BY <2>3, <2>4 DEF LinkInv, OneLink, Unlinked, NoneOpen
  <1>11. CASE Stop
    BY <1>11, LinkQuiet DEF Stop, sockCtx
  <1>12. ASSUME NEW k \in Checkers, Start(k) PROVE LinkInv'
    <2>. SUFFICES ASSUME ~ overlapped' PROVE LinkInv'
      BY DEF LinkInv, OneLink
    <2>1. ~ overlapped /\ \A j \in Checkers : pc[j].at = "none"
      BY <1>12 DEF Start
    <2>2. NoneOpen'
      BY <1>12, <2>1 DEF Start, LinkInv, Unlinked, NoneOpen
    <2>3. /\ pc'[k].at = "start"
          /\ \A j \in Checkers : j # k => pc'[j].at = "none"
      BY <1>12, <2>1, PcValues DEF Start, Goto, TypeOK
    <2>4. OneChecker'
      BY <2>3 DEF OneChecker
    <2>. QED
      BY <2>2, <2>3, <2>4 DEF LinkInv, OneLink, Unlinked, NoneOpen
  <1>13. ASSUME NEW c \in Chans, Frame(c) \/ AuthAck(c) \/ AuthRefused(c) \/ Lose(c)
         PROVE  LinkInv'
    BY <1>13, LinkQuiet DEF Frame, AuthAck, AuthRefused, Lose, sockCtx
  <1>14. ASSUME NEW c \in Chans,
                \/ BeginClose(c) \/ HandleInactive(c)
                \/ HandleException(c) \/ ReadLoopEnds(c)
         PROVE  LinkInv'
    <2>1. \A d \in Chans : chan'[d] = "open" => chan[d] = "open"
      BY <1>14 DEF BeginClose, HandleInactive, HandleException, ReadLoopEnds, TypeOK
    <2>. QED
      BY <1>14, <2>1, LinkQuiet
      DEF BeginClose, HandleInactive, HandleException, ReadLoopEnds, sockCtx
  <1>15. CASE GrowLate \/ NetChange \/ UNCHANGED vars
    BY <1>15, LinkQuiet DEF GrowLate, NetChange, vars, sockCtx
  <1>. QED
    BY <1>1, <1>2, <1>3, <1>4, <1>5, <1>6, <1>7, <1>8, <1>9, <1>10, <1>11,
       <1>12, <1>13, <1>14, <1>15
    DEF Next, stateCheck

\* The inductive invariant of the link (LinkInv of ServerLink): with one
\* stateCheck at a time, nothing is open where it is about to connect.
THEOREM LinkInvariant == Spec => []LinkInv
  <1>1. Init => TypeOK /\ LinkInv
    BY TypeInit, LinkInit
  <1>2. TypeOK /\ LinkInv /\ [Next]_vars => (TypeOK /\ LinkInv)'
    BY TypeNext, LinkNext
  <1>. QED
    BY <1>1, <1>2, PTL DEF Spec

\* No socket to the server leaks, however connects, losses, restarts and late
\* events of old channels interleave (OneLink of ServerLink).
THEOREM LinksNeverLeak == Spec => []OneLink
  <1>1. LinkInv => OneLink
    BY DEF LinkInv
  <1>. QED
    BY <1>1, LinkInvariant, PTL

=============================================================================
