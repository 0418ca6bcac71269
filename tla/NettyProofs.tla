---------------------------- MODULE NettyProofs ----------------------------
(***************************************************************************)
(* Proofs about a channel of the netty library, for every number of        *)
(* services, timer callbacks and packets and every capacity of sendQueue,  *)
(* and about the transports, for any number of calls, connections,         *)
(* addresses and packets: a TCP listener that is open has a loop that      *)
(* accepts from it, and the UDP acceptor keeps its peers apart.            *)
(***************************************************************************)
EXTENDS NettyChannel, Listener, UdpAcceptor, SequenceTheorems, TLAPS

\* The goroutines have different names.
LEMMA Names ==
    /\ {"serve", "read", "write"} \subseteq Goroutines
    /\ Users \subseteq Goroutines /\ Ticks \subseteq Goroutines
    /\ "serve" \notin Users \cup Ticks /\ "read" \notin Users \cup Ticks
    /\ "write" \notin Users \cup Ticks
    /\ \A u \in Users : u \notin Ticks
  BY ChannelAssumption DEF Goroutines

-----------------------------------------------------------------------------
(***************************************************************************)
(* Types.                                                                  *)
(***************************************************************************)
\* The control part of the types: all variables but the sequences and packets.
FlagsOK ==
    /\ closed \in BOOLEAN /\ posted \in BOOLEAN /\ done \in BOOLEAN
    /\ transport \in {"open", "broken", "closed"}
    /\ pipeline \in BOOLEAN /\ watch \in IdleHandlers
    /\ timer \in {"nil", "armed", "fired"}
    /\ pc \in [Goroutines -> PcStates] /\ ret \in [Goroutines -> PcStates]

\* Every step keeps the types of the flags, the timer and the goroutines.
LEMMA FlagsNext == FlagsOK /\ [Next]_vars => FlagsOK'
  <1>. SUFFICES ASSUME FlagsOK, [Next]_vars PROVE FlagsOK'
    OBVIOUS
  <1>. USE Names DEF FlagsOK, PcStates, IdleHandlers, Goto, Return, ResetTimer, ResetByWrite,
                     ResetByRead, Issue, CallClose, flags
  <1>1. ASSUME NEW g \in Goroutines, Write(g) PROVE FlagsOK'
    BY <1>1 DEF Write
  <1>2. ASSUME NEW g \in Goroutines, Close(g) \/ Cancel(g) \/ Shut(g) PROVE FlagsOK'
    <2>1. /\ pc' \in [Goroutines -> PcStates] /\ ret' \in [Goroutines -> PcStates]
          /\ transport' \in {"open", "broken", "closed"} /\ UNCHANGED <<watch, timer>>
      BY <1>2 DEF Close, Cancel, Shut
    <2>2. closed' \in BOOLEAN /\ done' \in BOOLEAN /\ UNCHANGED <<posted, pipeline>>
      BY <1>2, Zenon DEF Close, Cancel, Shut
    <2>. QED
      BY <2>1, <2>2
  <1>3. ASSUME NEW g \in Goroutines, FireInactive(g) \/ Forget(g) PROVE FlagsOK'
    BY <1>3 DEF FireInactive, Forget
  <1>4. ASSUME NEW g \in Goroutines, FireException(g) PROVE FlagsOK'
    BY <1>4 DEF FireException
  <1>5. ASSUME NEW g \in Goroutines, PostCloseEvent(g) \/ Posted(g) PROVE FlagsOK'
    <2>1. /\ pc' \in [Goroutines -> PcStates] /\ UNCHANGED <<ret, transport, watch, timer>>
      BY <1>5 DEF PostCloseEvent, Posted
    <2>2. posted' \in BOOLEAN /\ UNCHANGED <<closed, done, pipeline>>
      BY <1>5, Zenon DEF PostCloseEvent, Posted
    <2>. QED
      BY <2>1, <2>2
  <1>6. CASE Serve
    BY <1>6 DEF Serve, FireActive, ServeChannel
  <1>7. CASE ReadLoop
    BY <1>7 DEF ReadLoop, ReadTop, Read, Handle, ReadDone
  <1>8. CASE WriteLoop
    BY <1>8 DEF WriteLoop, Select, Merge, Writev, Take, WriteFailed
  <1>9. ASSUME NEW t \in Ticks, Fire(t) \/ Tick(t) PROVE FlagsOK'
    BY <1>9 DEF Fire, Tick, Expired, Trigger, SendPing, Rearm
  <1>10. ASSUME NEW u \in Users, UserCalls(u) PROVE FlagsOK'
    BY <1>10 DEF UserCalls
  <1>11. CASE BootstrapStop \/ Break
    BY <1>11 DEF BootstrapStop, Break
  <1>12. CASE UNCHANGED vars
    BY <1>12 DEF vars
  <1>. QED
    BY <1>1, <1>2, <1>3, <1>4, <1>5, <1>6, <1>7, <1>8, <1>9, <1>10, <1>11, <1>12
       DEF Next, Step, Closing
-----------------------------------------------------------------------------
(***************************************************************************)
(* Where the goroutines are, and the timer.                                *)
(***************************************************************************)
\* The channel begins with nobody in its code.
LEMMA ControlInit == Init => FlagsOK /\ ControlInv
  <1>. SUFFICES ASSUME Init PROVE FlagsOK /\ ControlInv
    OBVIOUS
  <1>. USE Names DEF Init
  <1>1. FlagsOK
    BY DEF FlagsOK, PcStates, IdleHandlers
  <1>2. InCode
    BY DEF InCode, InPlace, ClosingSteps, Starting, Goroutines
  <1>3. NotServed
    BY DEF NotServed
  <1>4. CloseFlagged
    BY DEF CloseFlagged, ClosingSteps
  <1>5. TimerKept
    BY DEF TimerKept, Starting
  <1>. QED
    BY <1>1, <1>2, <1>3, <1>4, <1>5 DEF ControlInv

\* A step of one goroutine concerns its own place only.
LEMMA OneMoves ==
    ASSUME FlagsOK, InCode, NEW g \in Goroutines, InPlace(g, pc'[g], ret'[g]),
           \A h \in Goroutines \ {g} : pc'[h] = pc[h] /\ ret'[h] = ret[h]
    PROVE  InCode'
  BY DEF InCode

\* Every goroutine stays in its code and returns to where it came from.
LEMMA InCodeNext == FlagsOK /\ InCode /\ [Next]_vars => InCode'
  <1>. SUFFICES ASSUME FlagsOK, InCode, [Next]_vars PROVE InCode'
    OBVIOUS
  <1>. USE Names DEF ClosingSteps, Starting, Goto, Return, Issue, CallClose
  \* How a goroutine that moves alone is dealt with.
  <1>m. ASSUME NEW g \in Goroutines, NEW at, NEW next,
               pc' = [pc EXCEPT ![g] = at], ret' = [ret EXCEPT ![g] = next],
               InPlace(g, pc[g], ret[g]) => InPlace(g, at, next)
        PROVE  InCode'
    BY <1>m, OneMoves DEF FlagsOK, InCode
  <1>r. \A g \in Goroutines : ret = [ret EXCEPT ![g] = ret[g]]
    BY DEF FlagsOK
  <1>n. ASSUME NEW g \in Goroutines, NEW at, pc' = [pc EXCEPT ![g] = at], ret' = ret,
               InPlace(g, at, ret[g])
        PROVE  InCode'
    BY <1>n, <1>m, <1>r
  <1>1. ASSUME NEW g \in Goroutines, Write(g) PROVE InCode'
    <2>1. InPlace(g, "enqueue", ret[g]) => InPlace(g, ret[g], "end")
      BY DEF InPlace
    <2>. QED
      BY <1>1, <2>1, <1>m DEF Write
  <1>2. ASSUME NEW g \in Goroutines, Close(g) PROVE InCode'
    <2>1. /\ InPlace(g, "close", ret[g]) => InPlace(g, ret[g], "end")
          /\ InPlace(g, "close", ret[g]) => InPlace(g, "cancel", ret[g])
      BY DEF InPlace
    <2>2. \/ pc[g] = "close" /\ Return(g)
          \/ Goto(g, "close", "cancel") /\ ret' = ret
      BY <1>2 DEF Close
    <2>. QED
      BY <2>1, <2>2, <1>m, <1>r
  <1>3. ASSUME NEW g \in Goroutines, Cancel(g) \/ Shut(g) \/ FireInactive(g) \/ Forget(g)
        PROVE  InCode'
    <2>1. /\ InPlace(g, "cancel", ret[g]) => InPlace(g, "shut", ret[g])
          /\ InPlace(g, "shut", ret[g]) => InPlace(g, "fire", ret[g])
          /\ InPlace(g, "fire", ret[g]) => InPlace(g, "forget", ret[g])
          /\ InPlace(g, "forget", ret[g]) => InPlace(g, ret[g], "end")
      BY DEF InPlace
    <2>. QED
      BY <1>3, <2>1, <1>m, <1>r DEF Cancel, Shut, FireInactive, Forget
  <1>4. ASSUME NEW g \in Goroutines, FireException(g) PROVE InCode'
    <2>1. InPlace(g, "exception", ret[g]) =>
             InPlace(g, "close", IF g \in Ticks THEN "rearm" ELSE "end")
      BY DEF InPlace
    <2>2. CASE pc' = [h \in Goroutines |-> "crashed"]
      BY <2>2 DEF InCode, InPlace
    <2>. QED
      BY <1>4, <2>1, <2>2, <1>m DEF FireException
  <1>5. ASSUME NEW g \in Goroutines, PostCloseEvent(g) \/ Posted(g) PROVE InCode'
    <2>1. /\ InPlace(g, "post", ret[g]) => InPlace(g, "end", ret[g]) /\ InPlace(g, "posted", ret[g])
          /\ InPlace(g, "posted", ret[g]) => InPlace(g, "end", ret[g]) /\ InPlace(g, "exception", ret[g])
      BY DEF InPlace
    <2>. QED
      BY <1>5, <2>1, <1>m, <1>r DEF PostCloseEvent, Posted
  <1>6. CASE Serve
    <2>1. \A r : /\ InPlace("serve", "active", r) /\ InPlace("serve", "end", r)
                 /\ InPlace("serve", "exception", r) /\ InPlace("serve", "enqueue", "written")
                 /\ InPlace("read", "top", r) /\ InPlace("write", "select", r)
      BY DEF InPlace
    <2>2. CASE /\ pc' = [pc EXCEPT !["serve"] = "end", !["read"] = "top", !["write"] = "select"]
               /\ ret' = ret
      <3>1. /\ \A h \in Goroutines \ {"serve", "read", "write"} : pc'[h] = pc[h]
            /\ pc'["serve"] = "end" /\ pc'["read"] = "top" /\ pc'["write"] = "select"
        BY <2>2 DEF FlagsOK
      <3>. QED
        BY <2>1, <2>2, <3>1 DEF InCode
    <2>3. CASE FireActive \/ Issue("serve", "active", "written")
      BY <2>1, <2>3, <1>m, <1>r DEF FireActive
    <2>4. CASE Goto("serve", pc["serve"], "exception") /\ ret' = ret
      BY <2>1, <2>4, <1>m, <1>r
    <2>. QED
      BY <1>6, <2>2, <2>3, <2>4 DEF Serve, ServeChannel
  <1>7. CASE ReadLoop
    <2>1. \A r : /\ InPlace("read", "top", r) /\ InPlace("read", "read", r)
                 /\ InPlace("read", "handle", r) /\ InPlace("read", "reset", r)
                 /\ InPlace("read", "post", r)
                 /\ InPlace("read", "enqueue", "reset") /\ InPlace("read", "close", "reset")
      BY DEF InPlace
    <2>2. CASE \E at \in {"top", "read", "handle", "reset", "post"} :
                  pc' = [pc EXCEPT !["read"] = at] /\ ret' = ret
      BY <2>1, <2>2, <1>n
    <2>3. CASE \E at \in {"enqueue", "close"} :
                  pc' = [pc EXCEPT !["read"] = at] /\ ret' = [ret EXCEPT !["read"] = "reset"]
      BY <2>1, <2>3, <1>m
    <2>. QED
      BY <1>7, <2>2, <2>3 DEF ReadLoop, ReadTop, Read, Handle, ReadDone
  <1>8. CASE WriteLoop
    <2>1. \A r : /\ InPlace("write", "select", r) /\ InPlace("write", "merge", r)
                 /\ InPlace("write", "send", r) /\ InPlace("write", "post", r)
                 /\ InPlace("write", "close", "end")
      BY DEF InPlace
    <2>2. CASE \E at \in {"select", "merge", "send", "post"} :
                  pc' = [pc EXCEPT !["write"] = at] /\ ret' = ret
      BY <2>1, <2>2, <1>n
    <2>3. CASE /\ pc' = [pc EXCEPT !["write"] = "close"]
               /\ ret' = [ret EXCEPT !["write"] = "end"]
      BY <2>1, <2>3, <1>m
    <2>. QED
      BY <1>8, <2>2, <2>3 DEF WriteLoop, Select, Merge, Writev, Take, WriteFailed
  <1>9. ASSUME NEW t \in Ticks, Fire(t) \/ Tick(t) PROVE InCode'
    <2>1. \A r : /\ InPlace(t, "idle", r) /\ InPlace(t, "run", r) /\ InPlace(t, "event", r)
                 /\ InPlace(t, "rearm", r) /\ InPlace(t, "exception", r)
                 /\ InPlace(t, "enqueue", "rearm")
      BY DEF InPlace
    <2>2. CASE \E at \in {"idle", "run", "event", "rearm", "exception"} :
                  pc' = [pc EXCEPT ![t] = at] /\ ret' = ret
      BY <2>1, <2>2, <1>n
    <2>3. CASE pc' = [pc EXCEPT ![t] = "enqueue"] /\ ret' = [ret EXCEPT ![t] = "rearm"]
      BY <2>1, <2>3, <1>m
    <2>. QED
      BY <1>9, <2>2, <2>3 DEF Fire, Tick, Expired, Trigger, SendPing, Rearm
  <1>10. ASSUME NEW u \in Users, UserCalls(u) PROVE InCode'
    <2>1. InPlace(u, "enqueue", "idle") /\ InPlace(u, "close", "idle")
      BY DEF InPlace
    <2>. QED
      BY <1>10, <2>1, <1>m DEF UserCalls
  <1>11. CASE BootstrapStop \/ Break \/ UNCHANGED vars
    BY <1>11 DEF BootstrapStop, Break, vars, InCode
  <1>. QED
    BY <1>1, <1>2, <1>3, <1>4, <1>5, <1>6, <1>7, <1>8, <1>9, <1>10, <1>11
       DEF Next, Step, Closing

\* What InCode says of the goroutine that serves and of the write loop.
LEMMA Places ==
    ASSUME InCode
    PROVE  /\ pc["serve"] \in {"new", "active", "enqueue", "written", "exception", "close", "end",
                               "cancel", "shut", "fire", "forget", "crashed"}
           /\ pc["write"] \in {"new", "select", "merge", "send", "post", "posted", "exception",
                               "close", "end", "cancel", "shut", "fire", "forget", "crashed"}
           /\ pc["serve"] = "enqueue" => ret["serve"] = "written"
           /\ pc["serve"] \in {"close", "forget"} => ret["serve"] = "end"
           /\ pc["write"] \in {"close", "forget"} => ret["write"] = "end"
  <1>. USE Names DEF InCode, InPlace, ClosingSteps, Starting
  <1>1. InPlace("serve", pc["serve"], ret["serve"]) /\ InPlace("write", pc["write"], ret["write"])
    OBVIOUS
  <1>. QED
    BY <1>1

\* As long as the handlers do not know of the channel, nobody moves but the
\* goroutine that tells them.
LEMMA NobodyMoves ==
    ASSUME FlagsOK, NotServed, [Next]_vars, pc["serve"] = "new"
    PROVE  FireActive \/ UNCHANGED <<pc, pipeline, timer>>
  <1>. USE Names DEF Goto, flags
  <1>i. /\ timer = "nil" /\ pc["read"] = "new" /\ pc["write"] = "new"
        /\ \A g \in Goroutines : pc[g] \in {"new", "idle"}
    BY DEF NotServed, Published, Goroutines
  <1>1. ASSUME NEW g \in Goroutines, Step(g) PROVE FALSE
    <2>1. pc[g] \in {"enqueue", "close", "cancel", "shut", "fire", "forget", "exception",
                      "post", "posted"}
      BY <1>1 DEF Step, Closing, Write, Close, Cancel, Shut, FireInactive, Forget, FireException,
                  PostCloseEvent, Posted
    <2>. QED
      BY <1>i, <2>1
  <1>2. ~ ServeChannel
    BY DEF ServeChannel, Issue
  <1>3. ~ ReadLoop
    BY <1>i DEF ReadLoop, ReadTop, Read, Handle, ReadDone, Issue, CallClose
  <1>4. ~ WriteLoop
    BY <1>i DEF WriteLoop, Select, Merge, Writev
  <1>5. ASSUME NEW t \in Ticks, Fire(t) \/ Tick(t) PROVE FALSE
    <2>1. pc[t] \in {"new", "idle"} /\ timer = "nil"
      BY <1>i
    <2>. QED
      BY <1>5, <2>1 DEF Fire, Tick, Expired, Trigger, SendPing, Rearm, Issue
  <1>6. \A u \in Users : ~ UserCalls(u)
    BY DEF UserCalls, Published
  <1>7. BootstrapStop \/ Break \/ UNCHANGED vars => UNCHANGED <<pc, pipeline, timer>>
    BY DEF BootstrapStop, Break, vars
  <1>. QED
    BY <1>1, <1>2, <1>3, <1>4, <1>5, <1>6, <1>7 DEF Next, Serve

\* The goroutine that serves never goes back to the start.
LEMMA ServeForward ==
    ASSUME FlagsOK, InCode, [Next]_vars
    PROVE  /\ pc'["serve"] = "new" => pc["serve"] = "new"
           /\ pc'["serve"] \in Starting => pc["serve"] \in Starting
  <1>. DEFINE Goal == /\ pc'["serve"] = "new" => pc["serve"] = "new"
                      /\ pc'["serve"] \in Starting => pc["serve"] \in Starting
  <1>. USE Names DEF FlagsOK, Goto, Return, Issue, CallClose, flags
  \* A step that takes it nowhere near the start.
  <1>m. ASSUME NEW g \in Goroutines, NEW at, pc' = [pc EXCEPT ![g] = at],
               g = "serve" => at \notin Starting
        PROVE  Goal
    BY <1>m DEF Starting
  <1>1. ASSUME NEW g \in Goroutines, Write(g) PROVE Goal
    <2>1. g = "serve" => pc[g] = "enqueue" /\ pc'[g] = "written"
      BY <1>1, Places DEF Write
    <2>. QED
      BY <1>1, <2>1 DEF Write, Starting
  <1>2. ASSUME NEW g \in Goroutines, Close(g) \/ Forget(g) PROVE Goal
    <2>1. g = "serve" => ret[g] = "end"
      BY <1>2, Places DEF Close, Forget
    <2>. QED
      BY <1>2, <2>1, <1>m DEF Close, Forget, Starting
  <1>3. ASSUME NEW g \in Goroutines, Cancel(g) \/ Shut(g) \/ FireInactive(g) PROVE Goal
    BY <1>3, <1>m DEF Cancel, Shut, FireInactive, Starting
  <1>4. ASSUME NEW g \in Goroutines, FireException(g) PROVE Goal
    <2>1. CASE pc' = [h \in Goroutines |-> "crashed"]
      BY <2>1 DEF Starting
    <2>. QED
      BY <1>4, <2>1, <1>m DEF FireException, Starting
  <1>5. ASSUME NEW g \in Goroutines, PostCloseEvent(g) \/ Posted(g) PROVE Goal
    BY <1>5, <1>m DEF PostCloseEvent, Posted, Starting
  <1>6. CASE Serve
    <2>1. pc["serve"] \in Starting /\ pc'["serve"] # "new"
      BY <1>6 DEF Serve, FireActive, ServeChannel, Starting
    <2>. QED
      BY <2>1
  <1>7. CASE ReadLoop
    BY <1>7, <1>m DEF ReadLoop, ReadTop, Read, Handle, ReadDone
  <1>8. CASE WriteLoop
    BY <1>8, <1>m DEF WriteLoop, Select, Merge, Writev, Take
  <1>9. ASSUME NEW t \in Ticks, Fire(t) \/ Tick(t) PROVE Goal
    BY <1>9, <1>m DEF Fire, Tick, Expired, Trigger, SendPing, Rearm
  <1>10. ASSUME NEW u \in Users, UserCalls(u) PROVE Goal
    BY <1>10, <1>m DEF UserCalls
  <1>11. CASE BootstrapStop \/ Break \/ UNCHANGED vars
    BY <1>11 DEF BootstrapStop, Break, vars
  <1>. QED
    BY <1>1, <1>2, <1>3, <1>4, <1>5, <1>6, <1>7, <1>8, <1>9, <1>10, <1>11
       DEF Next, Step, Closing

\* Only serveChannel starts the loops.
LEMMA LoopsNew ==
    ASSUME FlagsOK, [Next]_vars, NEW g \in {"read", "write"}, pc[g] = "new"
    PROVE  pc'[g] = "new" \/ pc'["serve"] \in {"end", "crashed"}
  <1>. DEFINE Goal == pc'[g] = "new" \/ pc'["serve"] \in {"end", "crashed"}
  <1>. USE Names DEF FlagsOK, Goto, Return, Issue, CallClose, flags
  <1>m. ASSUME NEW h \in Goroutines \ {g}, NEW at, pc' = [pc EXCEPT ![h] = at] PROVE Goal
    BY <1>m
  <1>1. ASSUME NEW h \in Goroutines, Step(h) PROVE Goal
    <2>1. h # g
      BY <1>1 DEF Step, Closing, Write, Close, Cancel, Shut, FireInactive, Forget, FireException,
                  PostCloseEvent, Posted
    <2>2. CASE FireException(h)
      BY <2>1, <2>2 DEF FireException
    <2>. QED
      BY <1>1, <2>1, <2>2, <1>m
         DEF Step, Closing, Write, Close, Cancel, Shut, FireInactive, Forget, PostCloseEvent, Posted
  <1>2. CASE Serve
    <2>1. CASE pc' = [pc EXCEPT !["serve"] = "end", !["read"] = "top", !["write"] = "select"]
      BY <2>1
    <2>. QED
      BY <1>2, <2>1, <1>m DEF Serve, FireActive, ServeChannel
  <1>3. CASE ReadLoop
    <2>1. g # "read"
      BY <1>3 DEF ReadLoop, ReadTop, Read, Handle, ReadDone
    <2>. QED
      BY <1>3, <2>1, <1>m DEF ReadLoop, ReadTop, Read, Handle, ReadDone
  <1>4. CASE WriteLoop
    <2>1. g # "write"
      BY <1>4 DEF WriteLoop, Select, Merge, Writev
    <2>. QED
      BY <1>4, <2>1, <1>m DEF WriteLoop, Select, Merge, Writev, Take
  <1>5. ASSUME NEW t \in Ticks, Fire(t) \/ Tick(t) PROVE Goal
    BY <1>5, <1>m DEF Fire, Tick, Expired, Trigger, SendPing, Rearm
  <1>6. ASSUME NEW u \in Users, UserCalls(u) PROVE Goal
    BY <1>6, <1>m DEF UserCalls
  <1>7. CASE BootstrapStop \/ Break \/ UNCHANGED vars
    BY <1>7 DEF BootstrapStop, Break, vars
  <1>. QED
    BY <1>1, <1>2, <1>3, <1>4, <1>5, <1>6, <1>7 DEF Next

\* The loops have not begun while the handlers are told of the active channel.
LEMMA NotServedNext == FlagsOK /\ ControlInv /\ [Next]_vars => NotServed'
  <1>. SUFFICES ASSUME FlagsOK, InCode, NotServed, [Next]_vars PROVE NotServed'
    BY DEF ControlInv
  <1>1. ASSUME pc'["serve"] \in Starting PROVE pc'["read"] = "new" /\ pc'["write"] = "new"
    <2>1. pc["read"] = "new" /\ pc["write"] = "new"
      BY <1>1, ServeForward DEF NotServed
    <2>. QED
      BY <1>1, <2>1, LoopsNew DEF Starting
  <1>2. ASSUME pc'["serve"] = "new" PROVE pc["serve"] = "new" /\ UNCHANGED <<pc, pipeline, timer>>
    <2>1. pc["serve"] = "new"
      BY <1>2, ServeForward
    <2>2. ~ FireActive
      BY <1>2, Names DEF FireActive, Goto, FlagsOK
    <2>. QED
      BY <2>1, <2>2, NobodyMoves
  <1>3. ~ Published' => pc'["serve"] = "new"
    BY DEF Published
  <1>4. ASSUME ~ Published'
        PROVE  /\ pipeline' /\ timer' = "nil" /\ pc'["read"] = "new" /\ pc'["write"] = "new"
               /\ \A g \in Users \cup Ticks : pc'[g] = "idle"
    BY <1>2, <1>3, <1>4 DEF NotServed, Published
  <1>. QED
    BY <1>1, <1>4 DEF NotServed

\* Only the goroutine that has set closed enters the body of Close, and closed
\* stays set.
LEMMA CloseFlaggedNext == FlagsOK /\ ControlInv /\ [Next]_vars => CloseFlagged'
  <1>. SUFFICES ASSUME FlagsOK, InCode, CloseFlagged, [Next]_vars,
                       NEW h \in Goroutines, pc'[h] \in ClosingSteps
                PROVE  closed' = TRUE
    BY DEF ControlInv, CloseFlagged
  <1>. USE Names DEF Goto, Return, Issue, CallClose, flags
  <1>c. pc[h] \in ClosingSteps => closed = TRUE
    BY DEF CloseFlagged, FlagsOK
  \* A step that brings nobody into the body of Close.
  <1>m. ASSUME NEW g \in Goroutines, NEW at, pc' = [pc EXCEPT ![g] = at], closed' = closed,
               at \in ClosingSteps => pc[g] \in ClosingSteps
        PROVE  closed' = TRUE
    BY <1>m, <1>c DEF FlagsOK
  <1>1. ASSUME NEW g \in Goroutines, Write(g) \/ Forget(g) PROVE closed' = TRUE
    <2>1. pc[g] \in {"enqueue", "forget"} => ret[g] \notin ClosingSteps
      BY DEF InCode, InPlace, ClosingSteps
    <2>. QED
      BY <1>1, <2>1, <1>m DEF Write, Forget
  <1>2. ASSUME NEW g \in Goroutines, Close(g) PROVE closed' = TRUE
    BY <1>2 DEF Close
  <1>3. ASSUME NEW g \in Goroutines, Cancel(g) \/ Shut(g) \/ FireInactive(g) PROVE closed' = TRUE
    BY <1>3, <1>m DEF Cancel, Shut, FireInactive, ClosingSteps
  <1>4. ASSUME NEW g \in Goroutines, FireException(g) PROVE closed' = TRUE
    <2>1. CASE pc' = [i \in Goroutines |-> "crashed"]
      BY <2>1 DEF ClosingSteps
    <2>. QED
      BY <1>4, <2>1, <1>m DEF FireException, ClosingSteps
  <1>5. ASSUME NEW g \in Goroutines, PostCloseEvent(g) \/ Posted(g) PROVE closed' = TRUE
    BY <1>5, <1>m DEF PostCloseEvent, Posted, ClosingSteps
  <1>6. CASE Serve
    <2>1. CASE /\ pc' = [pc EXCEPT !["serve"] = "end", !["read"] = "top", !["write"] = "select"]
               /\ closed' = closed
      BY <2>1, <1>c DEF ClosingSteps, FlagsOK
    <2>. QED
      BY <1>6, <2>1, <1>m DEF Serve, FireActive, ServeChannel, ClosingSteps
  <1>7. CASE ReadLoop
    BY <1>7, <1>m DEF ReadLoop, ReadTop, Read, Handle, ReadDone, ClosingSteps
  <1>8. CASE WriteLoop
    BY <1>8, <1>m DEF WriteLoop, Select, Merge, Writev, Take, WriteFailed, ClosingSteps
  <1>9. ASSUME NEW t \in Ticks, Fire(t) \/ Tick(t) PROVE closed' = TRUE
    BY <1>9, <1>m DEF Fire, Tick, Expired, Trigger, SendPing, Rearm, ClosingSteps
  <1>10. ASSUME NEW u \in Users, UserCalls(u) PROVE closed' = TRUE
    BY <1>10, <1>m DEF UserCalls, ClosingSteps
  <1>11. CASE BootstrapStop \/ Break \/ UNCHANGED vars
    BY <1>11, <1>c DEF BootstrapStop, Break, vars
  <1>. QED
    BY <1>1, <1>2, <1>3, <1>4, <1>5, <1>6, <1>7, <1>8, <1>9, <1>10, <1>11
       DEF Next, Step, Closing

\* How a step may change the timer: it is left alone or reset, and only the
\* active, the inactive and the exception event and the timer itself do more.
LEMMA TimerSteps ==
    ASSUME FlagsOK, [Next]_vars
    PROVE  \/ timer' = timer \/ timer' = ResetTimer
           \/ FireActive \/ \E t \in Ticks : Fire(t)
           \/ \E g \in Goroutines : FireInactive(g) \/ FireException(g)
  <1>. USE DEF Issue, CallClose, ResetByWrite, ResetByRead
  <1>1. ASSUME NEW g \in Goroutines, Step(g), ~ FireInactive(g), ~ FireException(g)
        PROVE  timer' = timer
    BY <1>1 DEF Step, Closing, Write, Close, Cancel, Shut, Forget, PostCloseEvent, Posted
  <1>2. CASE ServeChannel
    BY <1>2 DEF ServeChannel
  <1>3. CASE ReadLoop
    BY <1>3 DEF ReadLoop, ReadTop, Read, Handle, ReadDone
  <1>4. CASE WriteLoop
    BY <1>4 DEF WriteLoop, Select, Merge, Writev
  <1>5. ASSUME NEW t \in Ticks, Tick(t) PROVE timer' = timer \/ timer' = ResetTimer
    BY <1>5 DEF Tick, Expired, Trigger, SendPing, Rearm
  <1>6. ASSUME NEW u \in Users, UserCalls(u) PROVE timer' = timer \/ timer' = ResetTimer
    BY <1>6 DEF UserCalls
  <1>7. CASE BootstrapStop \/ Break \/ UNCHANGED vars
    BY <1>7 DEF BootstrapStop, Break, vars
  <1>. QED
    BY <1>1, <1>2, <1>3, <1>4, <1>5, <1>6, <1>7 DEF Next, Serve

\* How a step may move a goroutine: which ones come to forget, to close and to
\* the end.
LEMMA Moves ==
    ASSUME FlagsOK, InCode, NotServed, [Next]_vars, NEW g \in Goroutines
    PROVE  /\ pc'[g] = "forget" => pc[g] = "forget" \/ FireInactive(g)
           /\ pc[g] = "close" => pc'[g] = "close" \/ closed' = TRUE \/ pc'["serve"] = "crashed"
           /\ pc'["serve"] \notin {"new", "crashed"} =>
                 pc["serve"] \notin {"new", "crashed"} \/ FireActive
           /\ g \in Ticks /\ pc[g] # "idle" => pc'[g] # "idle" \/ timer' = ResetTimer
           /\ pipeline \in BOOLEAN /\ (~ pipeline' => ~ pipeline \/ \E h \in Goroutines : pc[h] = "forget")
  <1>. DEFINE Goal ==
           /\ pc'[g] = "forget" => pc[g] = "forget" \/ FireInactive(g)
           /\ pc[g] = "close" => pc'[g] = "close" \/ closed' = TRUE \/ pc'["serve"] = "crashed"
           /\ pc'["serve"] \notin {"new", "crashed"} =>
                 pc["serve"] \notin {"new", "crashed"} \/ FireActive
           /\ g \in Ticks /\ pc[g] # "idle" => pc'[g] # "idle" \/ timer' = ResetTimer
           /\ pipeline \in BOOLEAN /\ (~ pipeline' => ~ pipeline \/ \E h \in Goroutines : pc[h] = "forget")
  <1>. USE Names DEF FlagsOK, Goto, Return, Issue, CallClose, flags
  <1>1. ASSUME NEW h \in Goroutines, Write(h) PROVE Goal
    <2>1. /\ h \in Ticks => ret[h] = "rearm"
          /\ h = "serve" => ret[h] = "written"
          /\ ret[h] # "forget"
      BY <1>1 DEF Write, InCode, InPlace
    <2>. QED
      BY <1>1, <2>1 DEF Write
  <1>2. ASSUME NEW h \in Goroutines, Close(h) PROVE Goal
    <2>1. ret[h] # "forget" /\ (h \in Ticks => ret[h] = "rearm")
      BY <1>2 DEF Close, InCode, InPlace, ClosingSteps
    <2>. QED
      BY <1>2, <2>1 DEF Close
  <1>3. ASSUME NEW h \in Goroutines, Cancel(h) \/ Shut(h) \/ FireInactive(h) PROVE Goal
    BY <1>3 DEF Cancel, Shut, FireInactive
  <1>4. ASSUME NEW h \in Goroutines, Forget(h) PROVE Goal
    <2>1. ret[h] # "forget" /\ (h \in Ticks => ret[h] = "rearm")
      BY <1>4 DEF Forget, InCode, InPlace, ClosingSteps
    <2>. QED
      BY <1>4, <2>1 DEF Forget
  <1>5. ASSUME NEW h \in Goroutines, FireException(h) PROVE Goal
    BY <1>5 DEF FireException
  <1>6. ASSUME NEW h \in Goroutines, PostCloseEvent(h) \/ Posted(h) PROVE Goal
    <2>1. h # "serve" /\ h \notin Ticks
      BY <1>6 DEF PostCloseEvent, Posted, InCode, InPlace, ClosingSteps, Starting
    <2>. QED
      BY <1>6, <2>1 DEF PostCloseEvent, Posted
  <1>7. CASE Serve
    <2>1. CASE FireActive
      <3>1. Goto("serve", "new", "active") /\ pipeline' = pipeline
        BY <2>1 DEF FireActive
      <3>. QED
        BY <2>1, <3>1
    <2>2. CASE ServeChannel
      <3>1. pc["read"] = "new" /\ pc["write"] = "new"
        BY <2>2 DEF ServeChannel, NotServed, Starting
      <3>. QED
        BY <2>2, <3>1 DEF ServeChannel
    <2>. QED
      BY <1>7, <2>1, <2>2 DEF Serve
  <1>8. CASE ReadLoop
    BY <1>8 DEF ReadLoop, ReadTop, Read, Handle, ReadDone
  <1>9. CASE WriteLoop
    BY <1>9 DEF WriteLoop, Select, Merge, Writev, Take, WriteFailed
  <1>10. ASSUME NEW t \in Ticks, Fire(t) \/ Tick(t) PROVE Goal
    BY <1>10 DEF Fire, Tick, Expired, Trigger, SendPing, Rearm
  <1>11. ASSUME NEW u \in Users, UserCalls(u) PROVE Goal
    BY <1>11 DEF UserCalls
  <1>12. CASE BootstrapStop \/ Break \/ UNCHANGED vars
    BY <1>12 DEF BootstrapStop, Break, vars
  <1>. QED
    BY <1>1, <1>2, <1>3, <1>4, <1>5, <1>6, <1>7, <1>8, <1>9, <1>10, <1>11, <1>12
       DEF Next, Step, Closing

\* A channel that is closed stays closed.
LEMMA ClosedStays == [Next]_vars => closed' = TRUE \/ closed' = closed
  <1>. USE DEF Issue, CallClose, flags
  <1>1. ASSUME NEW g \in Goroutines, Step(g) PROVE closed' = TRUE \/ closed' = closed
    BY <1>1 DEF Step, Closing, Write, Close, Cancel, Shut, FireInactive, Forget, FireException,
                PostCloseEvent, Posted
  <1>2. Serve => closed' = closed
    BY DEF Serve, FireActive, ServeChannel
  <1>3. ReadLoop => closed' = closed
    BY DEF ReadLoop, ReadTop, Read, Handle, ReadDone
  <1>4. WriteLoop => closed' = closed
    BY DEF WriteLoop, Select, Merge, Writev
  <1>5. \A t \in Ticks : Fire(t) \/ Tick(t) => closed' = closed
    BY DEF Fire, Tick, Expired, Trigger, SendPing, Rearm
  <1>6. \A u \in Users : UserCalls(u) => closed' = closed
    BY DEF UserCalls
  <1>7. BootstrapStop \/ Break \/ UNCHANGED vars => closed' = closed
    BY DEF BootstrapStop, Break, vars
  <1>. QED
    BY <1>1, <1>2, <1>3, <1>4, <1>5, <1>6, <1>7 DEF Next

\* The timer is armed with the channel, runs through its callbacks, and is nil
\* from the inactive event on, whoever sets it in between.
LEMMA TimerKeptNext == FlagsOK /\ ControlInv /\ [Next]_vars => TimerKept'
  <1>. SUFFICES ASSUME FlagsOK, InCode, NotServed, CloseFlagged, TimerKept, [Next]_vars
                PROVE  TimerKept'
    BY DEF ControlInv
  <1>. USE Names DEF FlagsOK, Goto
  \* A reset never starts a timer that has been taken away.
  <1>r. ResetTimer # "fired" /\ (ResetTimer = "nil" <=> timer = "nil")
    BY DEF ResetTimer
  <1>x. ASSUME NEW g \in Goroutines, FireException(g)
        PROVE  \/ timer' = "nil" /\ pc'[g] = "close" /\ pc[g] = "exception"
               \/ timer' = timer /\ pc'["serve"] = "crashed"
    BY <1>x DEF FireException
  <1>i. ASSUME NEW g \in Goroutines, FireInactive(g)
        PROVE  timer' = "nil" /\ pc[g] = "fire" /\ closed = TRUE
    BY <1>i DEF FireInactive, CloseFlagged, ClosingSteps
  <1>a. FireActive => pc["serve"] = "new" /\ timer' = "armed"
    BY DEF FireActive
  <1>f. ASSUME NEW t \in Ticks, Fire(t)
        PROVE  timer = "armed" /\ timer' = "fired" /\ pc'[t] # "idle"
    BY <1>f DEF Fire
  \* Once it is nil at the end of Close it remains so.
  <1>n. ASSUME timer = "nil", ~ pipeline \/ \E h \in Goroutines : pc[h] = "forget"
        PROVE  timer' = "nil"
    <2>1. ~ FireActive
      <3>1. ASSUME pc["serve"] = "new" PROVE pipeline /\ \A h \in Goroutines : pc[h] # "forget"
        BY <3>1 DEF NotServed, Published, Goroutines
      <3>. QED
        BY <1>n, <1>a, <3>1
    <2>. QED
      BY <1>n, <2>1, <1>r, <1>x, <1>i, <1>f, TimerSteps
  <1>2. ASSUME NEW g \in Goroutines, pc'[g] = "forget" PROVE timer' = "nil"
    BY <1>2, <1>n, <1>i, Moves DEF TimerKept
  <1>3. ~ pipeline' => timer' = "nil"
    BY <1>n, Moves DEF TimerKept
  <1>4. timer' = "fired" => \E t \in Ticks : pc'[t] # "idle"
    <2>1. SUFFICES ASSUME timer' = "fired", \A t \in Ticks : ~ Fire(t)
                   PROVE  \E t \in Ticks : pc'[t] # "idle"
      BY <1>f
    <2>2. timer = "fired"
      BY <2>1, <1>a, <1>i, <1>x, <1>r, TimerSteps
    <2>3. PICK t \in Ticks : pc[t] # "idle"
      BY <2>2 DEF TimerKept
    <2>. QED
      BY <2>1, <2>3, <1>r, Moves
  <1>5. ASSUME pc'["serve"] \notin {"new", "crashed"}, closed' # TRUE, timer' = "nil"
        PROVE  \E g \in Goroutines : pc'[g] = "close"
    <2>1. closed = FALSE
      BY <1>5, ClosedStays
    <2>2. CASE timer = "nil"
      <3>1. pc["serve"] \notin {"new", "crashed"}
        BY <1>5, <1>a, Moves
      <3>2. PICK g \in Goroutines : pc[g] = "close"
        BY <2>1, <2>2, <3>1 DEF TimerKept
      <3>. QED
        BY <1>5, <3>2, Moves
    <2>3. CASE timer # "nil"
      BY <1>5, <2>1, <2>3, <1>r, <1>a, <1>i, <1>x, <1>f, TimerSteps
    <2>. QED
      BY <2>2, <2>3
  <1>6. closed' = TRUE \/ closed' = FALSE
    BY FlagsNext
  <1>. QED
    BY <1>2, <1>3, <1>4, <1>5, <1>6 DEF TimerKept

\* The control invariant is inductive.
LEMMA ControlNext == FlagsOK /\ ControlInv /\ [Next]_vars => FlagsOK' /\ ControlInv'
  BY FlagsNext, InCodeNext, NotServedNext, CloseFlaggedNext, TimerKeptNext DEF ControlInv

\* Whatever the loops, the services, the timer and the bootstrap do, every
\* goroutine is where its code allows, Close runs under its flag, and the timer
\* follows the channel's state.
LEMMA ChannelControl == Spec => [](FlagsOK /\ ControlInv)
  <1>1. FlagsOK /\ ControlInv /\ [Next]_vars => (FlagsOK /\ ControlInv)'
    BY ControlNext
  <1>. QED
    BY ControlInit, <1>1, PTL DEF Spec

\* The idle timer lives as long as the channel: neither a read in progress nor
\* a callback arms it after Close (channel.go, handler.go), and until someone
\* closes the channel its heartbeat goes on.
THEOREM ChannelTimer == Spec => []TimerFollowsChannel
  <1>1. FlagsOK /\ ControlInv => TimerFollowsChannel
    <2>. SUFFICES ASSUME FlagsOK, ControlInv PROVE TimerStopped /\ HeartbeatKept
      BY DEF TimerFollowsChannel
    <2>1. TimerStopped
      BY DEF TimerStopped, ControlInv, TimerKept
    <2>2. HeartbeatKept
      BY DEF HeartbeatKept, ControlInv, TimerKept, FlagsOK
    <2>. QED
      BY <2>1, <2>2
  <1>. QED
    BY ChannelControl, <1>1, PTL

-----------------------------------------------------------------------------
(***************************************************************************)
(* The packets.                                                            *)
(***************************************************************************)
\* The other part of the types: the packets and the sequences of them.
PacketsOK ==
    /\ pkt \in [Goroutines -> 0..MaxPackets] /\ issued \in 0..MaxPackets
    /\ \A g \in Goroutines : pc[g] = "enqueue" => pkt[g] # 0

QueuesOK ==
    /\ sendQueue \in Seq(Packet) /\ Len(sendQueue) <= Capacity
    /\ buffers \in Seq(Packet) /\ Len(buffers) <= Capacity + 1
    /\ accepted \in Seq(Packet) /\ wire \in Seq(Packet)

\* A goroutine gets a packet when it enters Write and keeps it until it leaves.
LEMMA PacketsNext == FlagsOK /\ InCode /\ PacketsOK /\ [Next]_vars => PacketsOK'
  <1>. SUFFICES ASSUME FlagsOK, InCode, PacketsOK, [Next]_vars PROVE PacketsOK'
    OBVIOUS
  <1>. USE Names DEF FlagsOK, PacketsOK
  <1>a. MaxPackets \in Nat
    BY ChannelAssumption
  <1>m. ASSUME NEW g \in Goroutines, NEW at, pc' = [pc EXCEPT ![g] = at], at # "enqueue",
               UNCHANGED <<pkt, issued>>
        PROVE  PacketsOK'
    BY <1>m
  <1>i. ASSUME NEW g \in Goroutines, NEW from, NEW next, Issue(g, from, next) PROVE PacketsOK'
    BY <1>a, <1>i DEF Issue, Goto
  <1>. USE DEF Goto, Return, CallClose
  <1>1. ASSUME NEW g \in Goroutines, Write(g) PROVE PacketsOK'
    <2>1. ret[g] # "enqueue"
      BY <1>1 DEF Write, InCode, InPlace
    <2>. QED
      BY <1>a, <1>1, <2>1 DEF Write
  <1>2. ASSUME NEW g \in Goroutines, Close(g) \/ Forget(g) PROVE PacketsOK'
    <2>1. ret[g] # "enqueue"
      BY <1>2 DEF Close, Forget, InCode, InPlace, ClosingSteps
    <2>. QED
      BY <1>2, <2>1, <1>m DEF Close, Forget
  <1>3. ASSUME NEW g \in Goroutines, Cancel(g) \/ Shut(g) \/ FireInactive(g) PROVE PacketsOK'
    BY <1>3, <1>m DEF Cancel, Shut, FireInactive
  <1>4. ASSUME NEW g \in Goroutines, FireException(g) PROVE PacketsOK'
    BY <1>4, <1>m DEF FireException
  <1>5. ASSUME NEW g \in Goroutines, PostCloseEvent(g) \/ Posted(g) PROVE PacketsOK'
    BY <1>5, <1>m DEF PostCloseEvent, Posted
  <1>6. CASE Serve
    <2>1. CASE /\ pc' = [pc EXCEPT !["serve"] = "end", !["read"] = "top", !["write"] = "select"]
               /\ UNCHANGED <<pkt, issued>>
      BY <2>1
    <2>. QED
      BY <1>6, <2>1, <1>i, <1>m DEF Serve, FireActive, ServeChannel
  <1>7. CASE ReadLoop
    BY <1>7, <1>i, <1>m DEF ReadLoop, ReadTop, Read, Handle, ReadDone
  <1>8. CASE WriteLoop
    BY <1>8, <1>m DEF WriteLoop, Select, Merge, Writev, Take, WriteFailed
  <1>9. ASSUME NEW t \in Ticks, Fire(t) \/ Tick(t) PROVE PacketsOK'
    BY <1>9, <1>i, <1>m DEF Fire, Tick, Expired, Trigger, SendPing, Rearm
  <1>10. ASSUME NEW u \in Users, UserCalls(u) PROVE PacketsOK'
    BY <1>10, <1>i, <1>m DEF UserCalls
  <1>11. CASE BootstrapStop \/ Break \/ UNCHANGED vars
    BY <1>11 DEF BootstrapStop, Break, vars
  <1>. QED
    BY <1>1, <1>2, <1>3, <1>4, <1>5, <1>6, <1>7, <1>8, <1>9, <1>10, <1>11
       DEF Next, Step, Closing

\* Who touches the sequences: Write and the write loop.  Any other step leaves
\* the write loop where it is, starts it, or finds it at its end.
LEMMA DataSteps ==
    ASSUME FlagsOK, InCode, NotServed, [Next]_vars
    PROVE  \/ \E g \in Goroutines : Write(g)
           \/ WriteLoop
           \/ /\ UNCHANGED data
              /\ \/ pc'["write"] = pc["write"]
                 \/ pc["write"] = "new" /\ pc'["write"] = "select"
                 \/ pc'["write"] \notin {"new", "select", "merge", "send"}
  <1>. DEFINE Aside == /\ UNCHANGED data
                       /\ \/ pc'["write"] = pc["write"]
                          \/ pc["write"] = "new" /\ pc'["write"] = "select"
                          \/ pc'["write"] \notin {"new", "select", "merge", "send"}
  <1>. USE Names DEF FlagsOK, Goto, Return, Issue, CallClose
  <1>m. ASSUME NEW g \in Goroutines, NEW at, pc' = [pc EXCEPT ![g] = at], UNCHANGED data,
               g = "write" => at \notin {"new", "select", "merge", "send"}
        PROVE  Aside
    BY <1>m
  <1>1. ASSUME NEW g \in Goroutines, Close(g) \/ Forget(g) PROVE Aside
    <2>1. g = "write" => ret[g] = "end"
      BY <1>1, Places DEF Close, Forget
    <2>. QED
      BY <1>1, <2>1, <1>m DEF Close, Forget
  <1>2. ASSUME NEW g \in Goroutines, Cancel(g) \/ Shut(g) \/ FireInactive(g) PROVE Aside
    BY <1>2, <1>m DEF Cancel, Shut, FireInactive
  <1>3. ASSUME NEW g \in Goroutines, FireException(g) PROVE Aside
    <2>1. CASE pc' = [h \in Goroutines |-> "crashed"] /\ UNCHANGED data
      BY <2>1
    <2>. QED
      BY <1>3, <2>1, <1>m DEF FireException
  <1>4. ASSUME NEW g \in Goroutines, PostCloseEvent(g) \/ Posted(g) PROVE Aside
    BY <1>4, <1>m DEF PostCloseEvent, Posted
  <1>5. CASE Serve
    <2>1. pc["write"] = "new"
      BY <1>5 DEF Serve, FireActive, ServeChannel, NotServed, Starting
    <2>. QED
      BY <1>5, <2>1, <1>m DEF Serve, FireActive, ServeChannel
  <1>6. CASE ReadLoop
    BY <1>6, <1>m DEF ReadLoop, ReadTop, Read, Handle, ReadDone
  <1>7. ASSUME NEW t \in Ticks, Fire(t) \/ Tick(t) PROVE Aside
    BY <1>7, <1>m DEF Fire, Tick, Expired, Trigger, SendPing, Rearm
  <1>8. ASSUME NEW u \in Users, UserCalls(u) PROVE Aside
    BY <1>8, <1>m DEF UserCalls
  <1>9. CASE BootstrapStop \/ Break \/ UNCHANGED vars
    BY <1>9 DEF BootstrapStop, Break, vars
  <1>. QED
    BY <1>1, <1>2, <1>3, <1>4, <1>5, <1>6, <1>7, <1>8, <1>9 DEF Next, Step, Closing

\* Accepting a packet adds it to what is on its way.
LEMMA PacketAdded ==
    \A w, b, q \in Seq(Packet), p \in Packet :
       Append((w \o b) \o q, p) = (w \o b) \o Append(q, p)
  <1>. SUFFICES ASSUME NEW w \in Seq(Packet), NEW b \in Seq(Packet), NEW q \in Seq(Packet), NEW p \in Packet
                PROVE  Append((w \o b) \o q, p) = (w \o b) \o Append(q, p)
    OBVIOUS
  <1>1. w \o b \in Seq(Packet) /\ (w \o b) \o q \in Seq(Packet) /\ <<p>> \in Seq(Packet)
    BY ConcatProperties
  <1>2. Append((w \o b) \o q, p) = ((w \o b) \o q) \o <<p>>
    BY <1>1, AppendIsConcat
  <1>3. Append(q, p) = q \o <<p>>
    BY AppendIsConcat
  <1>. QED
    BY <1>1, <1>2, <1>3, ConcatAssociative

\* Moving the first packet of the queue to the buffers leaves the order alone.
LEMMA PacketTaken ==
    \A w, b, q \in Seq(Packet) :
       q # <<>> => (w \o Append(b, Head(q))) \o Tail(q) = (w \o b) \o q
  <1>. SUFFICES ASSUME NEW w \in Seq(Packet), NEW b \in Seq(Packet), NEW q \in Seq(Packet), q # <<>>
                PROVE  (w \o Append(b, Head(q))) \o Tail(q) = (w \o b) \o q
    OBVIOUS
  <1>. DEFINE h == Head(q)
  <1>1. h \in Packet /\ Tail(q) \in Seq(Packet) /\ <<h>> \in Seq(Packet)
    BY HeadTailProperties
  <1>2. q = <<h>> \o Tail(q)
    OBVIOUS
  <1>3. Append(b, h) = b \o <<h>>
    BY <1>1, AppendIsConcat
  <1>. HIDE DEF h
  <1>4. w \o b \in Seq(Packet) /\ w \o (b \o <<h>>) = (w \o b) \o <<h>>
    BY <1>1, ConcatProperties, ConcatAssociative
  <1>5. ((w \o b) \o <<h>>) \o Tail(q) = (w \o b) \o (<<h>> \o Tail(q))
    BY <1>1, <1>4, ConcatAssociative
  <1>. QED
    BY <1>2, <1>3, <1>4, <1>5 DEF h

\* Sending the first n of the merged packets is delivering a longer prefix of
\* what was accepted.
LEMMA PrefixSent ==
    ASSUME NEW S, NEW w \in Seq(S), NEW b \in Seq(S), NEW q \in Seq(S), NEW n \in 0..Len(b)
    PROVE  /\ w \o SubSeq(b, 1, n) = SubSeq((w \o b) \o q, 1, Len(w) + n)
           /\ w \o SubSeq(b, 1, n) \in Seq(S)
           /\ Len(w) + n <= Len((w \o b) \o q)
  <1>. DEFINE s == SubSeq(b, 1, n)
              a == (w \o b) \o q
              m == Len(w) + n
              c == SubSeq(a, 1, m)
  <1>1. s \in Seq(S) /\ Len(s) = n /\ \A i \in 1..n : s[i] = b[i]
    OBVIOUS
  <1>2. w \o b \in Seq(S) /\ Len(w \o b) = Len(w) + Len(b)
    BY ConcatProperties
  <1>3. a \in Seq(S) /\ Len(a) = Len(w) + Len(b) + Len(q)
    BY <1>2, ConcatProperties
  <1>4. m \in Nat /\ m <= Len(a)
    BY <1>3
  <1>5. \A i \in 1..m : a[i] = IF i <= Len(w) THEN w[i] ELSE b[i - Len(w)]
    <2>1. \A i \in 1..(Len(w) + Len(b)) :
             (w \o b)[i] = IF i <= Len(w) THEN w[i] ELSE b[i - Len(w)]
      BY ConcatProperties
    <2>2. \A i \in 1..(Len(w) + Len(b)) : a[i] = (w \o b)[i]
      BY <1>2, ConcatProperties
    <2>. QED
      BY <2>1, <2>2
  <1>6. w \o s \in Seq(S) /\ Len(w \o s) = m
    BY <1>1, ConcatProperties
  <1>7. \A i \in 1..m : (w \o s)[i] = IF i <= Len(w) THEN w[i] ELSE s[i - Len(w)]
    BY <1>1, ConcatProperties
  <1>. HIDE DEF a, m, s
  <1>8. c \in Seq(S) /\ Len(c) = m /\ \A i \in 1..m : c[i] = a[i]
    BY <1>3, <1>4
  <1>9. \A i \in 1..m : (w \o s)[i] = c[i]
    BY <1>1, <1>5, <1>7, <1>8 DEF m
  <1>10. w \o s = c
    BY <1>6, <1>8, <1>9, SeqEqual
  <1>. QED
    BY <1>4, <1>6, <1>10 DEF s, a, m

\* No step of anyone loses, repeats or overtakes a packet on its way.
LEMMA WriterHoldsNext ==
    FlagsOK /\ InCode /\ NotServed /\ PacketsOK /\ QueuesOK /\ WriterHolds /\ [Next]_vars
       => QueuesOK' /\ WriterHolds'
  <1>. SUFFICES ASSUME FlagsOK, InCode, NotServed, PacketsOK, QueuesOK, WriterHolds, [Next]_vars
                PROVE  QueuesOK' /\ WriterHolds'
    OBVIOUS
  <1>a. Capacity \in Nat \ {0} /\ MaxPackets \in Nat \ {0}
    BY ChannelAssumption
  <1>1. ASSUME NEW g \in Goroutines, Write(g) PROVE QueuesOK' /\ WriterHolds'
    <2>1. pkt[g] \in Packet /\ g # "write"
      BY <1>1, <1>a, Places DEF Write, PacketsOK, Packet
    <2>2. pc'["write"] = pc["write"] /\ wire' = wire /\ buffers' = buffers
      BY <1>1, <2>1, Names DEF Write, Return, FlagsOK, data
    <2>3. CASE UNCHANGED <<sendQueue, accepted>>
      BY <2>2, <2>3 DEF QueuesOK, WriterHolds, NothingLost, WriteLoopRuns
    <2>4. CASE /\ Len(sendQueue) < Capacity
               /\ sendQueue' = Append(sendQueue, pkt[g])
               /\ accepted' = Append(accepted, pkt[g])
      <3>1. /\ sendQueue' \in Seq(Packet) /\ Len(sendQueue') <= Capacity
            /\ accepted' \in Seq(Packet)
        BY <2>1, <2>4, <1>a, AppendProperties DEF QueuesOK
      <3>2. Append((wire \o buffers) \o sendQueue, pkt[g])
               = (wire \o buffers) \o Append(sendQueue, pkt[g])
        BY <2>1, PacketAdded, Zenon DEF QueuesOK
      <3>. QED
        BY <2>2, <2>4, <3>1, <3>2 DEF QueuesOK, WriterHolds, NothingLost, WriteLoopRuns
    <2>. QED
      BY <1>1, <2>3, <2>4 DEF Write, data
  \* The write loop takes the head of the queue.
  <1>t. ASSUME NEW to \in {"merge", "send"}, Take(to), sendQueue # <<>>,
               pc["write"] \in {"select", "merge"}, Len(buffers) <= Capacity,
               to = "merge" => Len(buffers) + 1 <= Capacity
        PROVE  QueuesOK' /\ WriterHolds'
    <2>1. /\ Head(sendQueue) \in Packet /\ Tail(sendQueue) \in Seq(Packet)
          /\ Len(Tail(sendQueue)) <= Capacity
      BY <1>t, <1>a, HeadTailProperties DEF QueuesOK
    <2>2. buffers' \in Seq(Packet) /\ Len(buffers') = Len(buffers) + 1
      BY <1>t, <2>1, AppendProperties DEF QueuesOK, Take
    <2>3. QueuesOK'
      BY <1>t, <1>a, <2>1, <2>2 DEF QueuesOK, Take
    <2>4. accepted = (wire \o buffers) \o sendQueue
      BY <1>t DEF WriterHolds, NothingLost, WriteLoopRuns
    <2>5. accepted' = (wire' \o buffers') \o sendQueue'
      BY <1>t, <2>4, PacketTaken, Zenon DEF QueuesOK, Take
    <2>6. pc'["write"] = to
      BY <1>t, Names DEF Take, FlagsOK
    <2>. QED
      BY <1>t, <1>a, <2>2, <2>3, <2>5, <2>6 DEF WriterHolds, NothingLost, WriteLoopRuns, QueuesOK
  <1>2. CASE Select
    <2>1. CASE sendQueue # <<>> /\ Take("merge")
      <3>1. Len(buffers) = 0
        BY <1>2 DEF Select, WriterHolds
      <3>. QED
        BY <1>2, <2>1, <3>1, <1>a, <1>t DEF Select
    <2>2. CASE pc' = [pc EXCEPT !["write"] = "close"] /\ UNCHANGED data
      BY <2>2, Names DEF QueuesOK, WriterHolds, NothingLost, WriteLoopRuns, data, FlagsOK
    <2>. QED
      BY <1>2, <2>1, <2>2 DEF Select, Goto
  <1>3. CASE Merge
    <2>1. Len(buffers) \in 1..Capacity
      BY <1>3 DEF Merge, WriterHolds
    <2>2. CASE /\ sendQueue # <<>>
               /\ Take(IF Len(buffers) + 1 >= Capacity THEN "send" ELSE "merge")
      BY <1>3, <1>a, <2>1, <2>2, <1>t DEF Merge
    <2>3. CASE pc' = [pc EXCEPT !["write"] = "send"] /\ UNCHANGED data
      BY <1>3, <2>1, <2>3, Names
         DEF Merge, QueuesOK, WriterHolds, NothingLost, WriteLoopRuns, data, FlagsOK
    <2>. QED
      BY <1>3, <2>2, <2>3 DEF Merge, Goto
  <1>4. CASE Writev
    <2>1. /\ buffers' = <<>> /\ UNCHANGED <<sendQueue, accepted>>
          /\ accepted = (wire \o buffers) \o sendQueue
      BY <1>4 DEF Writev, WriterHolds, NothingLost, WriteLoopRuns
    <2>2. CASE Sent(Len(buffers)) /\ pc' = [pc EXCEPT !["write"] = "select"]
      <3>1. SubSeq(buffers, 1, Len(buffers)) = buffers
        BY DEF QueuesOK
      <3>2. wire' = wire \o buffers /\ wire' \in Seq(Packet)
        BY <2>2, <3>1, ConcatProperties DEF Sent, QueuesOK
      <3>3. wire' \o <<>> = wire'
        BY <3>2, ConcatEmptySeq
      <3>. QED
        BY <1>a, <2>1, <2>2, <3>2, <3>3, Names
           DEF QueuesOK, WriterHolds, NothingLost, WriteLoopRuns, FlagsOK
    <2>3. CASE (\E n \in 0..Len(buffers) : Sent(n)) /\ pc' = [pc EXCEPT !["write"] = "post"]
      <3>1. wire' \in Seq(Packet)
        BY <2>3, PrefixSent DEF Sent, QueuesOK
      <3>. QED
        BY <1>a, <2>1, <2>3, <3>1, Names DEF QueuesOK, WriterHolds, NothingLost, WriteLoopRuns, FlagsOK
    <2>4. 0..(IF transport = "broken" THEN Len(buffers) - 1 ELSE 0) \subseteq 0..Len(buffers)
      BY DEF QueuesOK
    <2>. QED
      BY <1>4, <2>2, <2>3, <2>4 DEF Writev, Goto, WriteFailed
  <1>5. CASE /\ UNCHANGED data
             /\ \/ pc'["write"] = pc["write"]
                \/ pc["write"] = "new" /\ pc'["write"] = "select"
                \/ pc'["write"] \notin {"new", "select", "merge", "send"}
    BY <1>5 DEF QueuesOK, WriterHolds, NothingLost, WriteLoopRuns, data
  <1>. QED
    BY <1>1, <1>2, <1>3, <1>4, <1>5, DataSteps DEF WriteLoop

\* The parts of the invariant, put together.
LEMMA ChannelParts ==
    ChannelInv <=> FlagsOK /\ ControlInv /\ PacketsOK /\ QueuesOK /\ WriterHolds
  BY DEF ChannelInv, TypeOK, DataInv, FlagsOK, PacketsOK, QueuesOK

\* Types, the places of the goroutines, the timer and the packets on their way:
\* the invariant of the channel, which every step preserves.
THEOREM ChannelInvariant == Spec => []ChannelInv
  <1>1. Init => ChannelInv
    <2>. SUFFICES ASSUME Init PROVE ChannelInv
      OBVIOUS
    <2>1. PacketsOK
      BY ChannelAssumption DEF Init, PacketsOK
    <2>2. QueuesOK
      BY ChannelAssumption DEF Init, QueuesOK
    <2>3. WriterHolds
      BY Names, ConcatEmptySeq DEF Init, WriterHolds, NothingLost, WriteLoopRuns
    <2>. QED
      BY <2>1, <2>2, <2>3, ControlInit, ChannelParts
  <1>2. ChannelInv /\ [Next]_vars => ChannelInv'
    <2>. SUFFICES ASSUME FlagsOK, ControlInv, PacketsOK, QueuesOK, WriterHolds, [Next]_vars
                  PROVE  (FlagsOK /\ ControlInv /\ PacketsOK /\ QueuesOK /\ WriterHolds)'
      <3>1. ChannelInv' <=> (FlagsOK /\ ControlInv /\ PacketsOK /\ QueuesOK /\ WriterHolds)'
        BY ChannelParts, PTL
      <3>. QED
        BY <3>1, ChannelParts
    <2>. QED
      <3>1. FlagsOK' /\ ControlInv'
        BY ControlNext
      <3>2. InCode /\ NotServed
        BY DEF ControlInv
      <3>3. PacketsOK' /\ QueuesOK' /\ WriterHolds'
        BY <3>2, PacketsNext, WriterHoldsNext
      <3>. QED
        BY <3>1, <3>3
  <1>. QED
    BY <1>1, <1>2, PTL DEF Spec

\* The variables of a channel keep their types, whatever its goroutines do: the
\* queue its capacity, the merged packets their bound.
THEOREM ChannelTypes == Spec => []TypeOK
  <1>1. ChannelInv => TypeOK
    BY DEF ChannelInv
  <1>. QED
    BY <1>1, ChannelInvariant, PTL

\* As long as the write loop runs, every packet that Write has accepted is on
\* the wire, merged or queued, in the order of acceptance (channel.go,
\* writeLoop and sendWithWritev).
THEOREM ChannelNothingLost == Spec => []NothingLost
  <1>1. ChannelInv => NothingLost
    BY DEF ChannelInv, DataInv, WriterHolds
  <1>. QED
    BY <1>1, ChannelInvariant, PTL

-----------------------------------------------------------------------------
(***************************************************************************)
(* The channel implements AbstractChannel.                                 *)
(***************************************************************************)
\* The transport goes from open to broken to closed.
LEMMA TransportSteps ==
    [Next]_vars => \/ transport' = transport
                   \/ transport' = "closed" /\ UNCHANGED data /\ ~ WriteLoop
                   \/ transport = "open" /\ transport' = "broken" /\ UNCHANGED data
  <1>. USE DEF Issue, CallClose, flags
  <1>1. ASSUME NEW g \in Goroutines, Step(g), ~ Shut(g) PROVE transport' = transport
    BY <1>1 DEF Step, Closing, Write, Close, Cancel, FireInactive, Forget, FireException,
                PostCloseEvent, Posted
  <1>2. WriteLoop => transport' = transport
    BY DEF WriteLoop, Select, Merge, Writev
  <1>3. ASSUME NEW g \in Goroutines, Shut(g)
        PROVE  \/ transport' = transport
               \/ transport' = "closed" /\ UNCHANGED data /\ ~ WriteLoop
    BY <1>2, <1>3 DEF Shut
  <1>4. Serve => transport' = transport
    BY DEF Serve, FireActive, ServeChannel
  <1>5. ReadLoop => transport' = transport
    BY DEF ReadLoop, ReadTop, Read, Handle, ReadDone
  <1>6. \A t \in Ticks : Fire(t) \/ Tick(t) => transport' = transport
    BY DEF Fire, Tick, Expired, Trigger, SendPing, Rearm
  <1>7. \A u \in Users : UserCalls(u) => transport' = transport
    BY DEF UserCalls
  <1>8. BootstrapStop \/ UNCHANGED vars => transport' = transport
    BY DEF BootstrapStop, vars
  <1>9. Break => transport = "open" /\ transport' = "broken" /\ UNCHANGED data
    BY DEF Break
  <1>. QED
    BY <1>1, <1>2, <1>3, <1>4, <1>5, <1>6, <1>7, <1>8, <1>9 DEF Next

\* Every step of the channel is a step of the promise or changes nothing of it:
\* Write accepts, Writev delivers, Close of the transport takes it down.
LEMMA PromiseStep == ChannelInv /\ [Next]_vars => [Promise!ANext]_(Promise!avars)
  <1>. SUFFICES ASSUME FlagsOK, ControlInv, PacketsOK, QueuesOK, WriterHolds, [Next]_vars
                PROVE  [Promise!ANext]_(Promise!avars)
    BY ChannelParts
  <1>. USE DEF Promise!ANext, Promise!avars
  <1>1. ASSUME NEW g \in Goroutines, Write(g) PROVE [Promise!ANext]_(Promise!avars)
    <2>1. pkt[g] \in Promise!APacket
      BY <1>1, ChannelAssumption DEF Write, PacketsOK, Promise!APacket
    <2>2. transport' = transport /\ wire' = wire
      BY <1>1 DEF Write, flags, data
    <2>3. accepted' = accepted \/ accepted' = Append(accepted, pkt[g])
      BY <1>1 DEF Write, data
    <2>. QED
      BY <2>1, <2>2, <2>3 DEF Promise!Accept
  <1>2. CASE Select \/ Merge
    BY <1>2 DEF Select, Merge, Take, flags, data
  <1>3. CASE Writev
    <2>1. /\ transport' = transport /\ accepted' = accepted
          /\ accepted = (wire \o buffers) \o sendQueue
      BY <1>3 DEF Writev, flags, WriterHolds, NothingLost, WriteLoopRuns
    <2>2. PICK n \in 0..Len(buffers) : Sent(n) /\ (transport = "closed" => n = 0)
      BY <1>3 DEF Writev, QueuesOK
    <2>3. /\ wire' = SubSeq(accepted, 1, Len(wire) + n)
          /\ Len(wire) + n <= Len(accepted)
      BY <2>1, <2>2, PrefixSent DEF Sent, QueuesOK
    <2>4. CASE n = 0
      <3>1. wire' = wire
        BY <2>2, <2>4, ConcatEmptySeq DEF Sent, QueuesOK
      <3>. QED
        BY <2>1, <3>1
    <2>5. CASE n # 0
      <3>1. Len(wire) + n \in (Len(wire) + 1)..Len(accepted)
        BY <2>3, <2>5 DEF QueuesOK
      <3>2. transport # "closed"
        BY <2>2, <2>5
      <3>. QED
        BY <2>1, <2>3, <3>1, <3>2 DEF Promise!Deliver
    <2>. QED
      BY <2>4, <2>5
  <1>4. CASE UNCHANGED data
    <2>1. accepted' = accepted /\ wire' = wire
      BY <1>4 DEF data
    <2>. QED
      BY <2>1, TransportSteps DEF Promise!Down
  <1>. QED
    BY <1>1, <1>2, <1>3, <1>4, DataSteps DEF WriteLoop, ControlInv

\* Of what Write has accepted the transport takes the packets in that order,
\* none twice and none left out, and none once it is closed, although the write
\* loop merges them and an error may hit in the middle of a merged write.
THEOREM ChannelKeepsPromise == Spec => KeepsPromise
  <1>1. Init => Promise!AInit
    BY DEF Init, Promise!AInit
  <1>. QED
    BY <1>1, ChannelInvariant, PromiseStep, PTL DEF Spec, KeepsPromise, Promise!ASpec

-----------------------------------------------------------------------------
(***************************************************************************)
(* The TCP listener.                                                       *)
(***************************************************************************)

\* Closing the factory closes the one listener that is open.
LEMMA FactoryCloses ==
    ASSUME LsnTypeOK, OneListener, FactoryClose
    PROVE  /\ sockets' \in [Listens -> {"none", "open", "closed"}]
           /\ \A l \in Listens : sockets'[l] # "open"
           /\ held' = None
  BY DEF LsnTypeOK, OneListener, FactoryClose

\* None is no listener.
LEMMA NoListener == None \notin Listens
  BY ListenAssumption DEF None, Listens

\* LsnInv holds after every step.
LEMMA LsnInvNext == LsnInv /\ [LsnNext]_lsnVars => LsnInv'
  <1>. SUFFICES ASSUME LsnInv, [LsnNext]_lsnVars PROVE LsnInv'
    OBVIOUS
  <1>t. LsnTypeOK /\ OneListener /\ HeldAttended
    BY DEF LsnInv
  <1>n. None \notin Listens
    BY NoListener
  \* The loops matter only while the factory holds a listener.
  <1>h. ASSUME LsnTypeOK', held' = None, \A l \in Listens : sockets'[l] # "open",
               caller' \in {"bind", "swap", "swapped", "start"} => listens' \in Listens
        PROVE  LsnInv'
    BY <1>h, <1>n DEF LsnInv, OneListener, HeldAttended
  <1>1. CASE BeginListen
    <2>1. listens' \in Listens
      BY <1>1, <1>t, ListenAssumption DEF BeginListen, LsnTypeOK, Listens, None
    <2>2. LsnTypeOK'
      BY <1>1, <1>t, <2>1, FactoryCloses DEF BeginListen, LsnTypeOK
    <2>. QED
      BY <1>1, <1>t, <2>1, <2>2, <1>h, FactoryCloses DEF BeginListen
  <1>2. CASE Bind
    <2>1. CASE caller' = "swap" /\ sockets' = [sockets EXCEPT ![listens] = "open"] /\ held' = listens
      <3>1. listens \in Listens /\ held = None
        BY <1>2, <1>t DEF Bind, OneListener
      <3>2. LsnTypeOK'
        BY <1>2, <1>t, <2>1, <3>1 DEF Bind, LsnTypeOK
      <3>3. OneListener'
        BY <1>2, <1>t, <2>1, <3>1, <1>n DEF Bind, LsnTypeOK, OneListener
      <3>4. HeldAttended'
        BY <2>1 DEF HeldAttended
      <3>. QED
        BY <3>2, <3>3, <3>4 DEF LsnInv
    <2>2. CASE caller' = "idle" /\ UNCHANGED <<sockets, held>>
      <3>1. held = None
        BY <1>2, <1>t DEF Bind, OneListener
      <3>. QED
        BY <1>2, <1>t, <2>2, <3>1, <1>h, <1>n DEF Bind, LsnTypeOK, OneListener
    <2>. QED
      BY <1>2, <2>1, <2>2 DEF Bind
  \* The new listener survives createListener only without an older acceptor.
  <1>3. CASE stopListener("swap", "swapped")
    <2>1. CASE acceptor /\ FactoryClose
      <3>1. LsnTypeOK'
        BY <1>3, <1>t, <2>1, FactoryCloses DEF stopListener, LsnTypeOK
      <3>. QED
        BY <1>3, <1>t, <2>1, <3>1, <1>h, FactoryCloses DEF stopListener, OneListener
    <2>2. CASE UNCHANGED <<sockets, held, conn>>
      BY <1>3, <1>t, <2>2 DEF stopListener, LsnInv, LsnTypeOK, OneListener, HeldAttended
    <2>. QED
      BY <1>3, <2>1, <2>2 DEF stopListener
  <1>4. CASE stopListener("stop", "stopped")
    <2>1. CASE acceptor /\ FactoryClose
      <3>1. LsnTypeOK'
        BY <1>4, <1>t, <2>1, FactoryCloses DEF stopListener, LsnTypeOK
      <3>. QED
        BY <1>4, <1>t, <2>1, <3>1, <1>h, FactoryCloses DEF stopListener, OneListener
    <2>2. CASE ~acceptor /\ UNCHANGED <<sockets, held, conn>>
      <3>1. held = None
        BY <1>4, <1>t, <2>2 DEF stopListener, OneListener
      <3>. QED
        BY <1>4, <1>t, <2>2, <3>1 DEF stopListener, LsnInv, LsnTypeOK, OneListener, HeldAttended
    <2>. QED
      BY <1>4, <2>1, <2>2 DEF stopListener
  <1>5. CASE ClearAcceptor("swapped", "start") \/ ClearAcceptor("stopped", "cancel")
    BY <1>5, <1>t DEF ClearAcceptor, LsnInv, LsnTypeOK, OneListener, HeldAttended
  \* The loop of this Listen attends to whatever is held.
  <1>6. CASE startListener
    <2>1. listens \in Listens
      BY <1>6, <1>t DEF startListener, OneListener
    <2>2. LsnTypeOK' /\ loop'[listens] = "top"
      BY <1>6, <1>t, <2>1 DEF startListener, LsnTypeOK
    <2>3. OneListener'
      BY <1>6, <1>t DEF startListener, OneListener
    <2>4. HeldAttended'
      BY <2>1, <2>2 DEF HeldAttended, Attends
    <2>. QED
      BY <2>2, <2>3, <2>4 DEF LsnInv
  <1>7. CASE BeginStop
    BY <1>7, <1>t DEF BeginStop, LsnInv, LsnTypeOK, OneListener, HeldAttended, Attends
  <1>8. CASE bootstrapCancel
    BY <1>8, <1>t DEF bootstrapCancel, LsnInv, LsnTypeOK, OneListener, HeldAttended, Attends
  \* A loop that moves leaves the listener alone; if it attended to it, it goes on.
  <1>l. ASSUME NEW l \in Listens,
               NEW at \in {"none", "top", "accept", "got", "serve", "end"},
               NEW what \in Listens \cup {None}, LoopAt(l, at, what),
               crashed => crashed', failed => failed',
               ASSUME held # None, Attends(l, held), acceptor, ~failed', ~crashed', ~cancelled
               PROVE  at \in {"top", "got", "serve"} \/ (at = "accept" /\ what = held)
        PROVE  LsnInv'
    <2>1. LsnTypeOK'
      BY <1>l, <1>t DEF LoopAt, LsnTypeOK
    <2>2. OneListener'
      BY <1>l, <1>t DEF LoopAt, OneListener
    <2>3. ASSUME held' # None, caller' \in {"idle", "stop"}, ~failed', ~crashed', ~cancelled'
          PROVE  \E k \in Listens : Attends(k, held)'
      <3>1. PICK k \in Listens : Attends(k, held)
        BY <1>l, <1>t, <2>3 DEF LoopAt, HeldAttended
      <3>2. acceptor /\ held' = held
        BY <1>l, <1>t, <2>3 DEF LoopAt, OneListener
      <3>3. CASE k = l
        <4>1. at \in {"top", "got", "serve"} \/ (at = "accept" /\ what = held)
          BY <1>l, <2>3, <3>1, <3>2, <3>3 DEF LoopAt
        <4>2. loop'[l] = at /\ taken'[l] = what
          BY <1>l, <1>t DEF LoopAt, LsnTypeOK
        <4>. QED
          BY <3>2, <4>1, <4>2 DEF Attends
      <3>4. CASE k # l
        <4>1. loop'[k] = loop[k] /\ taken'[k] = taken[k]
          BY <1>l, <1>t, <3>4 DEF LoopAt, LsnTypeOK
        <4>. QED
          BY <3>1, <3>2, <4>1 DEF Attends
      <3>. QED
        BY <3>3, <3>4
    <2>4. HeldAttended'
      BY <2>3 DEF HeldAttended
    <2>. QED
      BY <2>1, <2>2, <2>4 DEF LsnInv
  <1>9. ASSUME NEW l \in Listens, CallAccept(l) PROVE LsnInv'
    <2>. DEFINE at == IF ~acceptor \/ held = None THEN "end" ELSE "accept"
    <2>1. LoopAt(l, at, held) /\ (crashed => crashed') /\ (failed => failed')
      BY <1>9 DEF CallAccept
    <2>2. ASSUME held # None, acceptor PROVE at = "accept"
      BY <2>2
    <2>3. at \in {"none", "top", "accept", "got", "serve", "end"} /\ held \in Listens \cup {None}
      BY <1>t DEF LsnTypeOK
    <2>. HIDE DEF at
    <2>. QED
      BY <2>1, <2>2, <2>3, <1>l
  <1>10. ASSUME NEW l \in Listens, AcceptTCP(l) PROVE LsnInv'
    BY <1>10, <1>l DEF AcceptTCP
  \* A loop that fails without an error of its own waited at a closed listener.
  <1>11. ASSUME NEW l \in Listens, AcceptFails(l) PROVE LsnInv'
    <2>1. LoopAt(l, "end", None) /\ (crashed => crashed') /\ (failed => failed')
      BY <1>11 DEF AcceptFails
    <2>2. ~failed' => sockets[taken[l]] # "open"
      BY <1>11 DEF AcceptFails
    <2>3. held # None /\ Attends(l, held) => taken[l] = held /\ sockets[held] = "open"
      BY <1>11, <1>t DEF AcceptFails, Attends, OneListener, LsnTypeOK
    <2>. QED
      BY <2>1, <2>2, <2>3, <1>l
  <1>12. ASSUME NEW l \in Listens, TestContext(l) PROVE LsnInv'
    <2>. DEFINE at == IF cancelled THEN "end" ELSE "serve"
    <2>1. LoopAt(l, at, None) /\ (crashed => crashed') /\ (failed => failed')
      BY <1>12 DEF TestContext
    <2>2. ASSUME ~cancelled PROVE at = "serve"
      BY <2>2
    <2>3. at \in {"none", "top", "accept", "got", "serve", "end"}
      OBVIOUS
    <2>. HIDE DEF at
    <2>. QED
      BY <2>1, <2>2, <2>3, <1>l
  <1>13. ASSUME NEW l \in Listens, serveTransport(l) PROVE LsnInv'
    BY <1>13, <1>l DEF serveTransport
  <1>14. ASSUME NEW c \in Conns, Connect(c) PROVE LsnInv'
    BY <1>14, <1>t DEF Connect, LsnInv, LsnTypeOK, OneListener, HeldAttended, Attends
  <1>15. CASE UNCHANGED lsnVars
    BY <1>15, <1>t DEF lsnVars, LsnInv, LsnTypeOK, OneListener, HeldAttended, Attends
  <1>. QED
    BY <1>1, <1>2, <1>3, <1>4, <1>5, <1>6, <1>7, <1>8, <1>9, <1>10, <1>11, <1>12, <1>13, <1>14, <1>15
       DEF LsnNext, Caller, AcceptLoop

LEMMA LsnInvariant == LsnSpec => []LsnInv
  <1>1. LsnInit => LsnInv
    BY NoListener DEF LsnInit, LsnInv, LsnTypeOK, OneListener, HeldAttended, None
  <1>. QED
    BY <1>1, LsnInvNext, PTL DEF LsnSpec

\* An open listener has a loop that is going to accept from it, or the caller is
\* about to start one or to close it (Listen, Stop and the accept loop of
\* netty/bootstrap.go), until the bootstrap is cancelled, an accept fails or the
\* process crashes.
THEOREM ListenerAttended == LsnSpec => []Attended
  <1>1. LsnInv => Attended
    <2>. SUFFICES ASSUME LsnInv, NEW l \in Listens, sockets[l] = "open",
                         ~failed, ~crashed, ~cancelled,
                         caller \notin {"swap", "swapped", "start", "stop"}
                  PROVE  \E k \in Listens : Attends(k, l)
      BY DEF Attended
    <2>1. held = l /\ held # None
      BY NoListener DEF LsnInv, OneListener
    <2>2. caller = "idle"
      BY <2>1 DEF LsnInv, LsnTypeOK, OneListener
    <2>. QED
      BY <2>1, <2>2 DEF LsnInv, HeldAttended
  <1>. QED
    BY <1>1, LsnInvariant, PTL

-----------------------------------------------------------------------------
(***************************************************************************)
(* The UDP acceptor: the types.                                            *)
(***************************************************************************)
MainRecords == [at : {"read", "test", "push", "forget", "sweep", "more"}, from : Addrs \cup {"none"},
                packet : Nat, trans : Trans \cup {NoTrans}]
QueueRecords == [packets : Seq(Nat), closed : BOOLEAN]
CloseSteps == {"no", "begin", "flag", "signal", "queue", "done"}

LEMMA NoTransport == NoTrans \notin Trans /\ NoTrans \in Nat
  BY UdpAssumption DEF NoTrans, Trans

LEMMA MainIdleTyped == MainIdle \in MainRecords /\ MainIdle.at = "read"
  BY DEF MainIdle, MainRecords

\* Between two transports that it closes, and after the last one.
LEMMA SweptTo ==
    /\ [MainIdle EXCEPT !.at = "more"] \in MainRecords
    /\ [MainIdle EXCEPT !.at = "more"].at = "more" /\ MainIdle.at = "read"
    /\ MainIdle \in MainRecords
  BY MainIdleTyped, NoTransport DEF MainRecords, MainIdle

\* One closer of one transport moves.
LEMMA CloserMoves ==
    ASSUME UdpTypeOK, NEW t \in Trans, NEW w \in Closers, NEW from, NEW to \in CloseSteps, At(t, w, from, to)
    PROVE  /\ closing' \in [Trans -> [Closers -> CloseSteps]]
           /\ closing'[t][w] = to
           /\ \A u \in Trans, x \in Closers : u # t \/ x # w => closing'[u][x] = closing[u][x]
  BY DEF UdpTypeOK, CloseSteps, At

\* What mainLoop and the closers hold keeps its type.
LEMMA UdpTypeNext == UdpTypeOK /\ MainFollows /\ [UdpNext]_udpVars => UdpTypeOK'
  <1>. SUFFICES ASSUME UdpTypeOK, MainFollows, [UdpNext]_udpVars PROVE UdpTypeOK'
    OBVIOUS
  <1>t. /\ sent \in [Addrs -> Nat] /\ table \in [Addrs -> Trans \cup {NoTrans}]
        /\ raddr \in [Trans -> Addrs \cup {"none"}]
        /\ flag \in [Trans -> BOOLEAN] /\ signal \in [Trans -> BOOLEAN]
        /\ queue \in [Trans -> QueueRecords] /\ got \in [Trans -> Seq(Nat)]
        /\ closing \in [Trans -> [Closers -> CloseSteps]] /\ main \in MainRecords
    BY DEF UdpTypeOK, QueueRecords, CloseSteps, MainRecords
  <1>s. ASSUME sent' \in [Addrs -> Nat], table' \in [Addrs -> Trans \cup {NoTrans}],
               raddr' \in [Trans -> Addrs \cup {"none"}],
               flag' \in [Trans -> BOOLEAN], signal' \in [Trans -> BOOLEAN],
               queue' \in [Trans -> QueueRecords], got' \in [Trans -> Seq(Nat)],
               closing' \in [Trans -> [Closers -> CloseSteps]], main' \in MainRecords
        PROVE  UdpTypeOK'
    BY <1>s, Zenon DEF UdpTypeOK, QueueRecords, CloseSteps, MainRecords
  <1>1. ASSUME NEW a \in Addrs, ReadKnown(a) PROVE UdpTypeOK'
    <2>1. sent' \in [Addrs -> Nat] /\ sent[a] + 1 \in Nat
      BY <1>1, <1>t DEF ReadKnown
    <2>2. main' \in MainRecords
      BY <1>1, <1>t, <2>1 DEF ReadKnown, MainRecords
    <2>. QED
      BY <1>1, <2>1, <2>2, <1>s, <1>t, Zenon DEF ReadKnown
  <1>2. ASSUME NEW a \in Addrs, ReadUnknown(a) PROVE UdpTypeOK'
    <2>1. sent' \in [Addrs -> Nat] /\ sent[a] + 1 \in Nat
      BY <1>2, <1>t DEF ReadUnknown
    <2>2. ASSUME NEW t \in Fresh, table' = [table EXCEPT ![a] = t], raddr' = [raddr EXCEPT ![t] = a],
                 main' = [at |-> "test", from |-> a, packet |-> sent[a] + 1, trans |-> t]
          PROVE  UdpTypeOK'
      <3>1. t \in Trans
        BY DEF Fresh
      <3>2. table' \in [Addrs -> Trans \cup {NoTrans}] /\ raddr' \in [Trans -> Addrs \cup {"none"}]
        BY <2>2, <3>1, <1>t
      <3>3. main' \in MainRecords
        BY <2>1, <2>2, <3>1 DEF MainRecords
      <3>. QED
        BY <1>2, <2>1, <3>2, <3>3, <1>s, <1>t, Zenon DEF ReadUnknown
    <2>3. CASE UNCHANGED <<table, raddr, main>>
      BY <1>2, <2>1, <2>3, <1>s, <1>t, Zenon DEF ReadUnknown
    <2>. QED
      BY <1>2, <2>2, <2>3 DEF ReadUnknown
  <1>3. CASE TestClosed \/ SelectClosed
    <2>1. main' \in MainRecords
      BY <1>3, <1>t DEF TestClosed, SelectClosed, MainRecords
    <2>. QED
      BY <1>3, <2>1, <1>s, <1>t, Zenon DEF TestClosed, SelectClosed
  <1>4. CASE SelectSend
    <2>1. main.trans \in Trans /\ main.packet \in Nat
      BY <1>4, <1>t DEF SelectSend, MainFollows, MainRecords
    <2>2. queue' \in [Trans -> QueueRecords]
      <3>1. queue[main.trans].packets \in Seq(Nat)
        BY <1>t, <2>1 DEF QueueRecords
      <3>2. Append(queue[main.trans].packets, main.packet) \in Seq(Nat)
        BY <2>1, <3>1, AppendProperties
      <3>3. CASE queue' = [queue EXCEPT ![main.trans].packets = Append(queue[main.trans].packets, main.packet)]
        BY <1>t, <2>1, <3>2, <3>3 DEF QueueRecords
      <3>. QED
        BY <1>4, <1>t, <3>3 DEF SelectSend
    <2>. QED
      BY <1>4, <2>2, <1>s, <1>t, MainIdleTyped, Zenon DEF SelectSend
  <1>5. CASE ForgetTransport
    <2>1. table' \in [Addrs -> Trans \cup {NoTrans}]
      BY <1>5, <1>t DEF ForgetTransport
    <2>. QED
      BY <1>5, <2>1, <1>s, <1>t, MainIdleTyped, Zenon DEF ForgetTransport
  <1>6. CASE TakeOut
    <2>1. PICK a \in Addrs : /\ table[a] # NoTrans
                             /\ main' = [MainIdle EXCEPT !.at = "sweep", !.trans = table[a]]
                             /\ At(table[a], "mainLoop", "no", "begin")
                             /\ table' = [table EXCEPT ![a] = NoTrans]
      BY <1>6 DEF TakeOut
    <2>2. table[a] \in Trans
      BY <2>1, <1>t
    <2>3. closing' \in [Trans -> [Closers -> CloseSteps]]
      BY <2>1, <2>2, CloserMoves DEF CloseSteps, Closers
    <2>4. main' \in MainRecords /\ table' \in [Addrs -> Trans \cup {NoTrans}]
      BY <2>1, <2>2, <1>t, MainIdleTyped DEF MainRecords
    <2>. QED
      BY <1>6, <2>3, <2>4, <1>s, <1>t, Zenon DEF TakeOut
  <1>7. CASE Swept
    BY <1>7, <1>s, <1>t, SweptTo, Zenon DEF Swept
  <1>8. ASSUME NEW t \in Trans, ReadPacket(t) PROVE UdpTypeOK'
    <2>1. queue[t].packets \in Seq(Nat) /\ got[t] \in Seq(Nat) /\ queue[t].packets # <<>>
      BY <1>8, <1>t DEF ReadPacket, QueueRecords
    <2>2. Head(queue[t].packets) \in Nat /\ Tail(queue[t].packets) \in Seq(Nat)
      BY <2>1, HeadTailProperties
    <2>3. Append(got[t], Head(queue[t].packets)) \in Seq(Nat)
      BY <2>1, <2>2, AppendProperties
    <2>4. got' \in [Trans -> Seq(Nat)] /\ queue' \in [Trans -> QueueRecords]
      BY <1>8, <1>t, <2>2, <2>3 DEF ReadPacket, QueueRecords
    <2>. QED
      BY <1>8, <2>4, <1>s, <1>t, Zenon DEF ReadPacket
  <1>9. ASSUME NEW t \in Trans, ChannelCloses(t) PROVE UdpTypeOK'
    <2>1. closing' \in [Trans -> [Closers -> CloseSteps]]
      BY <1>9, CloserMoves DEF ChannelCloses, CloseSteps, Closers
    <2>. QED
      BY <1>9, <2>1, <1>s, <1>t, Zenon DEF ChannelCloses
  <1>10. ASSUME NEW t \in Trans, NEW w \in Closers, CloseStep(t, w) PROVE UdpTypeOK'
    <2>1. PICK from \in CloseSteps, to \in CloseSteps : At(t, w, from, to)
      BY <1>10 DEF CloseStep, TestSignal, SetFlag, CloseSignal, CloseQueue, CloseSteps
    <2>2. closing' \in [Trans -> [Closers -> CloseSteps]]
      BY <2>1, CloserMoves
    <2>3. flag' \in [Trans -> BOOLEAN] /\ signal' \in [Trans -> BOOLEAN] /\ queue' \in [Trans -> QueueRecords]
      BY <1>10, <1>t DEF CloseStep, TestSignal, SetFlag, CloseSignal, CloseQueue, QueueRecords
    <2>. QED
      BY <1>10, <2>2, <2>3, <1>s, <1>t, Zenon
         DEF CloseStep, TestSignal, SetFlag, CloseSignal, CloseQueue
  <1>11. CASE Accept \/ CloseAcceptor
    BY <1>11, <1>s, <1>t, Zenon DEF Accept, CloseAcceptor
  <1>12. CASE UNCHANGED udpVars
    BY <1>12, <1>s, <1>t, Zenon DEF udpVars
  <1>. QED
    BY <1>1, <1>2, <1>3, <1>4, <1>5, <1>6, <1>7, <1>8, <1>9, <1>10, <1>11, <1>12 DEF UdpNext, mainLoop, Sweep, ReadError

-----------------------------------------------------------------------------
(***************************************************************************)
(* A transport that is signalled, or has been closed, has its flag set.    *)
(***************************************************************************)
LEMMA CloseFollowsNext ==
    UdpTypeOK /\ MainFollows /\ CloseFollows /\ [UdpNext]_udpVars
       => CloseFollows' /\ \A t \in Trans : flag[t] => flag'[t]
  <1>. SUFFICES ASSUME UdpTypeOK, MainFollows, CloseFollows, [UdpNext]_udpVars
                PROVE  CloseFollows' /\ \A t \in Trans : flag[t] => flag'[t]
    OBVIOUS
  <1>. DEFINE Ok == CloseFollows' /\ \A t \in Trans : flag[t] => flag'[t]
  <1>1. CASE UNCHANGED <<flag, signal, closing>>
    BY <1>1 DEF CloseFollows
  \* A closer that begins, or finds the channel closed.
  <1>2. ASSUME NEW t \in Trans, NEW w \in Closers, NEW from, NEW to \in CloseSteps,
               At(t, w, from, to), UNCHANGED <<flag, signal>>,
               to \in {"signal", "queue", "done"} => flag[t]
        PROVE  Ok
    BY <1>2, CloserMoves DEF CloseFollows
  <1>3. CASE TakeOut
    <2>1. PICK a \in Addrs : table[a] # NoTrans /\ At(table[a], "mainLoop", "no", "begin")
      BY <1>3 DEF TakeOut
    <2>2. table[a] \in Trans
      BY <2>1 DEF UdpTypeOK
    <2>. QED
      BY <1>3, <2>1, <2>2, <1>2 DEF TakeOut, Closers, CloseSteps
  <1>4. ASSUME NEW t \in Trans, ChannelCloses(t) PROVE Ok
    BY <1>4, <1>2 DEF ChannelCloses, Closers, CloseSteps
  <1>5. ASSUME NEW t \in Trans, NEW w \in Closers, TestSignal(t, w) PROVE Ok
    <2>. DEFINE to == IF signal[t] THEN "done" ELSE "flag"
    <2>1. At(t, w, "begin", to) /\ UNCHANGED <<flag, signal>>
      BY <1>5 DEF TestSignal
    <2>2. to \in CloseSteps /\ (to \in {"signal", "queue", "done"} => flag[t])
      BY DEF CloseFollows, CloseSteps
    <2>. HIDE DEF to
    <2>. QED
      BY <2>1, <2>2, <1>2
  <1>6. ASSUME NEW t \in Trans, NEW w \in Closers, SetFlag(t, w) PROVE Ok
    <2>1. flag' = [flag EXCEPT ![t] = TRUE] /\ signal' = signal /\ At(t, w, "flag", "signal")
      BY <1>6 DEF SetFlag
    <2>2. flag'[t] /\ \A u \in Trans : flag[u] => flag'[u]
      BY <2>1 DEF UdpTypeOK
    <2>3. \A u \in Trans, x \in Closers : closing'[u][x] = closing[u][x] \/ u = t
      BY <2>1, CloserMoves DEF CloseSteps
    <2>. QED
      BY <2>1, <2>2, <2>3 DEF CloseFollows
  <1>7. ASSUME NEW t \in Trans, NEW w \in Closers, CloseSignal(t, w) PROVE Ok
    <2>1. /\ signal' = [signal EXCEPT ![t] = TRUE] /\ flag' = flag
          /\ At(t, w, "signal", "queue") /\ closing[t][w] = "signal"
      BY <1>7 DEF CloseSignal, At
    <2>2. flag[t] /\ \A u \in Trans : signal'[u] => signal[u] \/ u = t
      BY <2>1 DEF UdpTypeOK, CloseFollows
    <2>3. \A u \in Trans, x \in Closers : closing'[u][x] = closing[u][x] \/ u = t
      BY <2>1, CloserMoves DEF CloseSteps
    <2>. QED
      BY <2>1, <2>2, <2>3 DEF CloseFollows
  <1>8. ASSUME NEW t \in Trans, NEW w \in Closers, CloseQueue(t, w) PROVE Ok
    <2>1. flag[t] /\ At(t, w, "queue", "done") /\ UNCHANGED <<flag, signal>>
      BY <1>8 DEF CloseQueue, At, CloseFollows
    <2>. QED
      BY <2>1, <1>2 DEF CloseSteps
  <1>. QED
    BY <1>1, <1>3, <1>4, <1>5, <1>6, <1>7, <1>8
       DEF UdpNext, mainLoop, CloseStep, ReadKnown, ReadUnknown, TestClosed, SelectClosed, SelectSend,
           ForgetTransport, Sweep, ReadError, Swept, ReadPacket, Accept, CloseAcceptor, udpVars

-----------------------------------------------------------------------------
(***************************************************************************)
(* mainLoop, the table and the one open transport of an address.           *)
(***************************************************************************)
LEMMA MainFollowsNext ==
    UdpTypeOK /\ MainFollows /\ CloseFollows /\ OnePerPeer /\ [UdpNext]_udpVars
       => MainFollows' /\ OnePerPeer'
  <1>. SUFFICES ASSUME UdpTypeOK, MainFollows, CloseFollows, OnePerPeer, [UdpNext]_udpVars
                PROVE  MainFollows' /\ OnePerPeer'
    OBVIOUS
  <1>t. /\ sent \in [Addrs -> Nat] /\ table \in [Addrs -> Trans \cup {NoTrans}]
        /\ raddr \in [Trans -> Addrs \cup {"none"}] /\ main \in MainRecords
    BY DEF UdpTypeOK, MainRecords
  <1>f. \A t \in Trans : flag[t] => flag'[t]
    BY CloseFollowsNext
  <1>n. NoTrans \notin Trans /\ "none" \notin Addrs
    BY NoTransport, UdpAssumption
  <1>i. MainIdle.at = "read"
    BY MainIdleTyped
  <1>1. ASSUME NEW a \in Addrs, ReadKnown(a) PROVE MainFollows' /\ OnePerPeer'
    <2>1. main'.at = "test" /\ main'.from = a /\ main'.packet = sent[a] + 1 /\ main'.trans = table[a]
      BY <1>1 DEF ReadKnown
    <2>2. sent'[a] = sent[a] + 1 /\ sent[a] + 1 > 0 /\ table[a] \in Trans
      BY <1>1, <1>t DEF ReadKnown
    <2>. QED
      BY <1>1, <2>1, <2>2, <1>f DEF ReadKnown, MainFollows, OnePerPeer
  <1>2. ASSUME NEW a \in Addrs, ReadUnknown(a) PROVE MainFollows' /\ OnePerPeer'
    <2>1. sent'[a] = sent[a] + 1 /\ sent[a] + 1 > 0
      BY <1>2, <1>t DEF ReadUnknown
    <2>2. ASSUME NEW t \in Fresh, table' = [table EXCEPT ![a] = t], raddr' = [raddr EXCEPT ![t] = a],
                 main' = [at |-> "test", from |-> a, packet |-> sent[a] + 1, trans |-> t]
          PROVE  MainFollows' /\ OnePerPeer'
      <3>1. t \in Trans /\ raddr[t] = "none" /\ main.at = "read" /\ table[a] = NoTrans
        BY <1>2 DEF Fresh, ReadUnknown
      <3>2. /\ table'[a] = t /\ \A b \in Addrs \ {a} : table'[b] = table[b]
            /\ raddr'[t] = a /\ \A u \in Trans \ {t} : raddr'[u] = raddr[u]
        BY <2>2, <3>1, <1>t
      <3>3. \A b \in Addrs : table[b] # t
        BY <3>1, <1>n DEF MainFollows
      <3>4. \A b \in Addrs : table'[b] # NoTrans => raddr'[table'[b]] = b
        BY <3>2, <3>3, <1>t DEF MainFollows
      <3>5. MainFollows'
        BY <2>1, <2>2, <3>1, <3>2, <3>4 DEF MainFollows
      <3>6. ASSUME NEW u \in Trans, raddr'[u] # "none", ~flag'[u] PROVE table'[raddr'[u]] = u
        <4>1. CASE u = t
          BY <4>1, <3>2
        <4>2. CASE u # t
          <5>1. raddr'[u] = raddr[u] /\ raddr[u] \in Addrs /\ table[raddr[u]] = u
            BY <4>2, <3>1, <3>2, <3>6, <1>f, <1>t DEF OnePerPeer
          <5>. QED
            BY <5>1, <3>1, <3>2, <1>n
        <4>. QED
          BY <4>1, <4>2
      <3>. QED
        BY <3>5, <3>6 DEF OnePerPeer
    <2>3. CASE UNCHANGED <<table, raddr, main>>
      BY <1>2, <2>3, <1>f DEF ReadUnknown, MainFollows, OnePerPeer
    <2>. QED
      BY <1>2, <2>2, <2>3 DEF ReadUnknown
  \* received: a packet is carried on, or its transport was found closed.
  <1>3. CASE TestClosed \/ SelectClosed
    <2>1. /\ main.at \in {"test", "push"} /\ main'.at \in {"push", "forget"}
          /\ main'.from = main.from /\ main'.packet = main.packet /\ main'.trans = main.trans
          /\ UNCHANGED <<sent, table, raddr, flag>>
      BY <1>3, <1>t DEF TestClosed, SelectClosed, MainRecords
    <2>2. main.trans \in Trans
      BY <2>1 DEF MainFollows
    <2>3. main'.at = "forget" => flag[main.trans]
      BY <1>3, <1>t, <2>2 DEF TestClosed, SelectClosed, MainRecords, CloseFollows
    <2>. QED
      BY <2>1, <2>2, <2>3 DEF MainFollows, OnePerPeer
  <1>4. CASE SelectSend
    BY <1>4, <1>i DEF SelectSend, MainFollows, OnePerPeer
  <1>5. CASE ForgetTransport
    <2>1. /\ main.from \in Addrs /\ table[main.from] = main.trans /\ main.trans \in Trans
          /\ flag[main.trans] /\ raddr[main.trans] = main.from
      BY <1>5, <1>n DEF ForgetTransport, MainFollows
    <2>2. \A b \in Addrs : table'[b] = IF b = main.from THEN NoTrans ELSE table[b]
      BY <1>5, <1>t DEF ForgetTransport
    <2>3. MainFollows'
      BY <1>5, <2>2, <1>i DEF ForgetTransport, MainFollows
    <2>4. OnePerPeer'
      BY <1>5, <2>1, <2>2, <1>t, <1>n DEF ForgetTransport, OnePerPeer
    <2>. QED
      BY <2>3, <2>4
  <1>6. CASE TakeOut /\ main.at \in {"read", "more"}
    <2>1. PICK a \in Addrs : /\ table[a] # NoTrans
                             /\ main' = [MainIdle EXCEPT !.at = "sweep", !.trans = table[a]]
                             /\ table' = [table EXCEPT ![a] = NoTrans]
      BY <1>6 DEF TakeOut
    <2>2. table[a] \in Trans /\ main'.at = "sweep" /\ main'.trans = table[a]
      BY <2>1, <1>t DEF MainIdle
    <2>3. \A b \in Addrs : table'[b] = IF b = a THEN NoTrans ELSE table[b]
      BY <2>1, <1>t
    <2>4. MainFollows'
      BY <1>6, <2>2, <2>3 DEF TakeOut, MainFollows
    <2>5. OnePerPeer'
      BY <1>6, <2>2, <2>3, <1>t, <1>n DEF TakeOut, OnePerPeer
    <2>. QED
      BY <2>4, <2>5
  <1>7. CASE Swept
    <2>1. main.trans \in Trans /\ flag[main.trans]
      BY <1>7 DEF Swept, MainFollows, CloseFollows, Closers
    <2>. QED
      BY <1>7, <2>1, SweptTo DEF Swept, MainFollows, OnePerPeer
  <1>8. CASE UNCHANGED <<sent, table, raddr, main>>
    BY <1>8, <1>f DEF MainFollows, OnePerPeer
  <1>. QED
    BY <1>1, <1>2, <1>3, <1>4, <1>5, <1>6, <1>7, <1>8
       DEF UdpNext, mainLoop, Sweep, ReadError, CloseStep, TestSignal, SetFlag, CloseSignal, CloseQueue,
           ReadPacket, ChannelCloses, Accept, CloseAcceptor, udpVars

-----------------------------------------------------------------------------
(***************************************************************************)
(* The packets of the UDP acceptor.                                        *)
(***************************************************************************)
LEMMA GivenTyped ==
    ASSUME UdpTypeOK, NEW t \in Trans
    PROVE  /\ Given(t) \in Seq(Nat) /\ Len(Given(t)) \in Nat
           /\ \A i \in 1..Len(Given(t)) : Given(t)[i] \in Nat
  <1>1. got[t] \in Seq(Nat) /\ queue[t].packets \in Seq(Nat)
    BY DEF UdpTypeOK
  <1>2. Given(t) \in Seq(Nat)
    BY <1>1, ConcatProperties DEF Given
  <1>. QED
    BY <1>2, LenProperties, ElementOfSeq

\* Reading a packet moves it from the queue to what was read.
LEMMA PacketRead ==
    \A g, q \in Seq(Nat) : q # <<>> => Append(g, Head(q)) \o Tail(q) = g \o q
  <1>. SUFFICES ASSUME NEW g \in Seq(Nat), NEW q \in Seq(Nat), q # <<>>
                PROVE  Append(g, Head(q)) \o Tail(q) = g \o q
    OBVIOUS
  <1>. DEFINE h == Head(q)
  <1>1. h \in Nat /\ Tail(q) \in Seq(Nat) /\ <<h>> \in Seq(Nat)
    BY HeadTailProperties
  <1>2. q = <<h>> \o Tail(q)
    OBVIOUS
  <1>3. Append(g, h) = g \o <<h>>
    BY <1>1, AppendIsConcat
  <1>. HIDE DEF h
  <1>4. (g \o <<h>>) \o Tail(q) = g \o (<<h>> \o Tail(q))
    BY <1>1, ConcatAssociative
  <1>. QED
    BY <1>2, <1>3, <1>4 DEF h

LEMMA PacketQueued ==
    \A g, q \in Seq(Nat), p \in Nat : g \o Append(q, p) = Append(g \o q, p)
  <1>. SUFFICES ASSUME NEW g \in Seq(Nat), NEW q \in Seq(Nat), NEW p \in Nat
                PROVE  g \o Append(q, p) = Append(g \o q, p)
    OBVIOUS
  <1>1. g \o q \in Seq(Nat) /\ <<p>> \in Seq(Nat)
    BY ConcatProperties
  <1>2. Append(g \o q, p) = (g \o q) \o <<p>> /\ Append(q, p) = q \o <<p>>
    BY <1>1, AppendIsConcat
  <1>. QED
    BY <1>1, <1>2, ConcatAssociative

\* A step gives a transport nothing, or the packet that mainLoop carries to it.
LEMMA GivenSteps ==
    ASSUME UdpTypeOK, MainFollows, [UdpNext]_udpVars
    PROVE  \/ \A t \in Trans : Given(t)' = Given(t)
           \/ /\ main.at = "push" /\ main' = MainIdle /\ UNCHANGED <<sent, raddr>>
              /\ \A t \in Trans : Given(t)' = IF t = main.trans THEN Append(Given(t), main.packet)
                                              ELSE Given(t)
  <1>. DEFINE Same == \A t \in Trans : Given(t)' = Given(t)
  <1>t. queue \in [Trans -> QueueRecords] /\ got \in [Trans -> Seq(Nat)] /\ main \in MainRecords
    BY DEF UdpTypeOK, QueueRecords, MainRecords
  <1>q. \A t \in Trans : queue[t].packets \in Seq(Nat) /\ got[t] \in Seq(Nat)
    BY <1>t DEF QueueRecords
  <1>1. CASE UNCHANGED <<queue, got>>
    BY <1>1 DEF Given
  <1>2. ASSUME NEW r \in Trans, ReadPacket(r) PROVE Same
    <2>1. ASSUME NEW t \in Trans, t # r PROVE Given(t)' = Given(t)
      BY <1>2, <1>t, <2>1 DEF ReadPacket, Given
    <2>2. /\ got'[r] = Append(got[r], Head(queue[r].packets))
          /\ queue'[r].packets = Tail(queue[r].packets) /\ queue[r].packets # <<>>
      BY <1>2, <1>t DEF ReadPacket, QueueRecords
    <2>3. Append(got[r], Head(queue[r].packets)) \o Tail(queue[r].packets) = got[r] \o queue[r].packets
      BY <2>2, <1>q, PacketRead, Zenon
    <2>4. Given(r)' = Given(r)
      BY <2>2, <2>3, Zenon DEF Given
    <2>. QED
      BY <2>1, <2>4
  <1>3. ASSUME NEW r \in Trans, NEW w \in Closers, CloseQueue(r, w) PROVE Same
    <2>1. \A t \in Trans : queue'[t].packets = queue[t].packets
      BY <1>3, <1>t DEF CloseQueue, QueueRecords
    <2>2. got' = got
      BY <1>3 DEF CloseQueue
    <2>. QED
      BY <2>1, <2>2 DEF Given
  <1>4. ASSUME SelectSend, ~queue[main.trans].closed
        PROVE  /\ main.at = "push" /\ main' = MainIdle /\ UNCHANGED <<sent, raddr>>
               /\ \A t \in Trans : Given(t)' = IF t = main.trans THEN Append(Given(t), main.packet)
                                               ELSE Given(t)
    <2>1. main.at = "push" /\ main' = MainIdle /\ UNCHANGED <<sent, raddr, got>>
      BY <1>4 DEF SelectSend
    <2>2. PICK r \in Trans : r = main.trans /\ main.packet \in Nat
      BY <2>1, <1>t DEF MainFollows, MainRecords
    <2>3. queue' = [queue EXCEPT ![r].packets = Append(queue[r].packets, main.packet)]
      BY <1>4, <2>2 DEF SelectSend
    <2>4. /\ queue'[r].packets = Append(queue[r].packets, main.packet)
          /\ \A t \in Trans : t # r => queue'[t] = queue[t]
      BY <2>2, <2>3, <1>t DEF QueueRecords
    <2>5. got[r] \o Append(queue[r].packets, main.packet) = Append(got[r] \o queue[r].packets, main.packet)
      BY <2>2, <1>q, PacketQueued, Zenon
    <2>6. Given(r)' = Append(Given(r), main.packet)
      BY <2>1, <2>4, <2>5 DEF Given
    <2>7. \A t \in Trans : t # r => Given(t)' = Given(t)
      BY <2>1, <2>4 DEF Given
    <2>. QED
      BY <2>1, <2>2, <2>6, <2>7
  <1>5. ASSUME SelectSend, queue[main.trans].closed PROVE Same
    <2>1. queue' = queue
      BY <1>5 DEF SelectSend
    <2>2. got' = got
      BY <1>5 DEF SelectSend
    <2>. QED
      BY <2>1, <2>2 DEF Given
  <1>. QED
    BY <1>1, <1>2, <1>3, <1>4, <1>5
       DEF UdpNext, mainLoop, CloseStep, TestSignal, SetFlag, CloseSignal, ReadKnown, ReadUnknown, TestClosed,
           SelectClosed, ForgetTransport, Sweep, ReadError, TakeOut, Swept, ChannelCloses, Accept, CloseAcceptor, udpVars

\* Packets are counted up, addresses once given stay, and what mainLoop carries
\* is a packet just read or the one it carried before.
LEMMA SentSteps ==
    ASSUME UdpTypeOK, MainFollows, [UdpNext]_udpVars
    PROVE  /\ \A a \in Addrs : sent[a] <= sent'[a]
           /\ \A t \in Trans : raddr'[t] = raddr[t] \/ raddr[t] = "none"
           /\ main'.at \in {"test", "push"} =>
                 \/ /\ main'.from \in Addrs /\ main'.packet = sent[main'.from] + 1
                 \/ /\ main.at \in {"test", "push"}
                    /\ main'.from = main.from /\ main'.packet = main.packet /\ raddr' = raddr
  <1>t. /\ sent \in [Addrs -> Nat] /\ raddr \in [Trans -> Addrs \cup {"none"}] /\ main \in MainRecords
    BY DEF UdpTypeOK, MainRecords
  <1>i. MainIdle.at = "read"
    BY MainIdleTyped
  <1>1. \A a \in Addrs : sent[a] <= sent'[a]
    <2>1. CASE sent' = sent
      BY <2>1, <1>t
    <2>2. ASSUME NEW a \in Addrs, sent' = [sent EXCEPT ![a] = sent[a] + 1]
          PROVE  \A b \in Addrs : sent[b] <= sent'[b]
      BY <2>2, <1>t
    <2>. QED
      BY <2>1, <2>2
         DEF UdpNext, mainLoop, CloseStep, TestSignal, SetFlag, CloseSignal, CloseQueue, ReadKnown, ReadUnknown,
             TestClosed, SelectClosed, SelectSend, ForgetTransport, Sweep, ReadError, TakeOut, Swept, ReadPacket,
             ChannelCloses, Accept, CloseAcceptor, udpVars
  <1>2. \A t \in Trans : raddr'[t] = raddr[t] \/ raddr[t] = "none"
    <2>1. CASE raddr' = raddr
      BY <2>1
    <2>2. ASSUME NEW a \in Addrs, NEW t \in Fresh, raddr' = [raddr EXCEPT ![t] = a]
          PROVE  \A u \in Trans : raddr'[u] = raddr[u] \/ raddr[u] = "none"
      BY <2>2, <1>t DEF Fresh
    <2>. QED
      BY <2>1, <2>2
         DEF UdpNext, mainLoop, CloseStep, TestSignal, SetFlag, CloseSignal, CloseQueue, ReadKnown, ReadUnknown,
             TestClosed, SelectClosed, SelectSend, ForgetTransport, Sweep, ReadError, TakeOut, Swept, ReadPacket,
             ChannelCloses, Accept, CloseAcceptor, udpVars
  <1>3. ASSUME main'.at \in {"test", "push"}
        PROVE  \/ /\ main'.from \in Addrs /\ main'.packet = sent[main'.from] + 1
               \/ /\ main.at \in {"test", "push"}
                  /\ main'.from = main.from /\ main'.packet = main.packet /\ raddr' = raddr
    <2>1. CASE main' = main /\ raddr' = raddr
      BY <1>3, <2>1
    <2>2. ASSUME NEW a \in Addrs, ReadKnown(a) \/ ReadUnknown(a)
          PROVE  \/ main'.from \in Addrs /\ main'.packet = sent[main'.from] + 1
                 \/ main' = main /\ raddr' = raddr
      BY <2>2 DEF ReadKnown, ReadUnknown
    <2>3. CASE TestClosed
      BY <1>3, <1>t, <2>3 DEF TestClosed, MainRecords
    <2>4. CASE SelectClosed
      BY <1>3, <1>t, <2>4 DEF SelectClosed, MainRecords
    <2>5. CASE SelectSend \/ ForgetTransport \/ Swept
      BY <1>3, <1>i, SweptTo, <2>5 DEF SelectSend, ForgetTransport, Swept
    <2>6. CASE TakeOut
      BY <1>3, <2>6 DEF TakeOut, MainIdle
    <2>. QED
      BY <1>3, <2>1, <2>2, <2>3, <2>4, <2>5, <2>6
         DEF UdpNext, mainLoop, Sweep, ReadError, CloseStep, TestSignal, SetFlag, CloseSignal,
             CloseQueue, ReadPacket, ChannelCloses, Accept, CloseAcceptor, udpVars
  <1>. QED
    BY <1>1, <1>2, <1>3

\* GivenBefore and OwnPackets: a packet is later than all its address has given.
LEMMA UdpPacketsNext ==
    UdpInv /\ [UdpNext]_udpVars /\ UdpTypeOK' /\ MainFollows' => GivenBefore' /\ OwnPackets'
  <1>. SUFFICES ASSUME UdpInv, [UdpNext]_udpVars, UdpTypeOK', MainFollows'
                PROVE  GivenBefore' /\ OwnPackets'
    OBVIOUS
  <1>i. UdpTypeOK /\ MainFollows /\ GivenBefore /\ OwnPackets
    BY DEF UdpInv, PeersApart
  <1>t. /\ sent \in [Addrs -> Nat] /\ sent' \in [Addrs -> Nat]
        /\ raddr \in [Trans -> Addrs \cup {"none"}] /\ raddr' \in [Trans -> Addrs \cup {"none"}]
        /\ main \in MainRecords
    BY <1>i DEF UdpTypeOK, MainRecords
  <1>n. "none" \notin Addrs
    BY UdpAssumption
  <1>s. /\ \A a \in Addrs : sent[a] <= sent'[a]
        /\ \A t \in Trans : raddr'[t] = raddr[t] \/ raddr[t] = "none"
        /\ main'.at \in {"test", "push"} =>
              \/ /\ main'.from \in Addrs /\ main'.packet = sent[main'.from] + 1
              \/ /\ main.at \in {"test", "push"}
                 /\ main'.from = main.from /\ main'.packet = main.packet /\ raddr' = raddr
    BY <1>i, SentSteps
  <1>g. \A t \in Trans : /\ Given(t) \in Seq(Nat) /\ Len(Given(t)) \in Nat
                         /\ \A i \in 1..Len(Given(t)) : Given(t)[i] \in Nat
    BY <1>i, GivenTyped
  \* Nobody is given a packet.
  <1>1. CASE \A t \in Trans : Given(t)' = Given(t)
    \* A transport that has just got its address was given nothing.
    <2>1. ASSUME NEW t \in Trans, raddr'[t] # raddr[t] PROVE Given(t) = <<>> /\ Len(Given(t)) = 0
      BY <2>1, <1>i, <1>s, EmptySeq DEF GivenBefore
    <2>2. ASSUME NEW t \in Trans, raddr'[t] = "none" PROVE Given(t)' = <<>>
      BY <2>2, <1>1, <1>i, <2>1 DEF GivenBefore
    <2>3. ASSUME NEW t \in Trans, main'.at \in {"test", "push"}, raddr'[t] = main'.from,
                 NEW i \in 1..Len(Given(t))
          PROVE  Given(t)[i] < main'.packet
      <3>1. raddr'[t] = raddr[t]
        BY <2>1, <2>3, <1>g
      <3>2. CASE main'.from \in Addrs /\ main'.packet = sent[main'.from] + 1
        <4>1. Given(t)[i] \in 1..sent[raddr[t]] /\ sent[raddr[t]] \in Nat
          BY <2>3, <3>1, <3>2, <1>i, <1>n, <1>t DEF OwnPackets
        <4>2. Given(t)[i] < sent[raddr[t]] + 1
          BY <4>1
        <4>. QED
          BY <4>2, <2>3, <3>1, <3>2
      <3>3. CASE main.at \in {"test", "push"} /\ main'.from = main.from /\ main'.packet = main.packet
        BY <2>3, <3>1, <3>3, <1>i DEF GivenBefore
      <3>. QED
        BY <2>3, <3>2, <3>3, <1>s
    <2>4. GivenBefore'
      BY <1>1, <2>2, <2>3 DEF GivenBefore
    <2>5. ASSUME NEW t \in Trans, raddr'[t] # "none", NEW i \in 1..Len(Given(t))
          PROVE  /\ Given(t)[i] \in 1..sent'[raddr'[t]]
                 /\ \A j \in 1..Len(Given(t)) : i < j => Given(t)[i] < Given(t)[j]
                 /\ \A u \in Trans \ {t} : raddr'[u] = raddr'[t] =>
                       \A k \in 1..Len(Given(u)) : Given(t)[i] # Given(u)[k]
      <3>1. raddr'[t] = raddr[t] /\ raddr[t] \in Addrs
        BY <2>1, <2>5, <1>g, <1>t
      <3>2. Given(t)[i] \in 1..sent[raddr[t]] /\ sent[raddr[t]] <= sent'[raddr[t]]
        BY <2>5, <3>1, <1>i, <1>s, <1>n DEF OwnPackets
      <3>3. Given(t)[i] \in 1..sent'[raddr'[t]]
        BY <3>1, <3>2, <1>t
      <3>4. \A j \in 1..Len(Given(t)) : i < j => Given(t)[i] < Given(t)[j]
        BY <2>5, <3>1, <1>i DEF OwnPackets
      <3>5. ASSUME NEW u \in Trans \ {t}, raddr'[u] = raddr'[t], NEW k \in 1..Len(Given(u))
            PROVE  Given(t)[i] # Given(u)[k]
        <4>1. raddr'[u] = raddr[u]
          BY <2>1, <3>5, <1>g
        <4>. QED
          BY <4>1, <3>1, <3>5, <2>5, <1>i, <1>n DEF OwnPackets
      <3>. QED
        BY <3>3, <3>4, <3>5
    <2>6. OwnPackets'
      BY <1>1, <2>5 DEF OwnPackets
    <2>. QED
      BY <2>4, <2>6
  \* The transport of the packet is given it, after all of its address.
  <1>2. CASE /\ main.at = "push" /\ main' = MainIdle /\ UNCHANGED <<sent, raddr>>
             /\ \A t \in Trans : Given(t)' = IF t = main.trans THEN Append(Given(t), main.packet)
                                             ELSE Given(t)
    <2>1. PICK r \in Trans, p \in Nat : /\ r = main.trans /\ p = main.packet /\ raddr[r] = main.from
                                        /\ main.from \in Addrs /\ p = sent[main.from] /\ p > 0
      BY <1>2, <1>i, <1>t, NoTransport DEF MainFollows, MainRecords
    <2>2. ASSUME NEW t \in Trans, raddr[t] = main.from, NEW i \in 1..Len(Given(t))
          PROVE  Given(t)[i] \in 1..sent[main.from] /\ Given(t)[i] < p
      BY <1>2, <2>1, <2>2, <1>i, <1>n DEF GivenBefore, OwnPackets
    <2>3. \A t \in Trans : t # r => Given(t)' = Given(t)
      BY <1>2, <2>1
    <2>4. Given(r)' = Append(Given(r), p)
      BY <1>2, <2>1
    <2>5. /\ Len(Given(r)') = Len(Given(r)) + 1
          /\ \A i \in 1..Len(Given(r)) : Given(r)'[i] = Given(r)[i]
          /\ Given(r)'[Len(Given(r)) + 1] = p
      BY <2>1, <2>4, <1>g, AppendProperties
    <2>6. p \in 1..sent[raddr[r]]
      <3>1. p \in Nat /\ sent[raddr[r]] = p /\ p > 0
        BY <2>1, <1>t
      <3>. QED
        BY <3>1
    <2>7. GivenBefore'
      BY <1>2, <2>1, <2>3, <1>i, <1>n, MainIdleTyped DEF GivenBefore
    \* A given packet is an old one or, at this transport and last, p.
    <2>8. ASSUME NEW t \in Trans, NEW i \in 1..Len(Given(t)')
          PROVE  \/ i \in 1..Len(Given(t)) /\ Given(t)'[i] = Given(t)[i]
                 \/ t = r /\ i = Len(Given(r)) + 1 /\ Given(t)'[i] = p
      <3>1. CASE t = r
        BY <2>5, <2>8, <3>1, <1>g
      <3>2. CASE t # r
        BY <2>3, <2>8, <3>2
      <3>. QED
        BY <3>1, <3>2
    <2>9. ASSUME NEW t \in Trans, raddr[t] # "none" , NEW i \in 1..Len(Given(t)')
          PROVE  Given(t)'[i] \in 1..sent[raddr[t]]
      BY <2>6, <2>8, <2>9, <1>i DEF OwnPackets
    <2>10. ASSUME NEW t \in Trans, raddr[t] # "none",
                  NEW i \in 1..Len(Given(t)'), NEW j \in 1..Len(Given(t)'), i < j
           PROVE  Given(t)'[i] < Given(t)'[j]
      <3>1. CASE j \in 1..Len(Given(t)) /\ Given(t)'[j] = Given(t)[j]
        <4>1. i \in 1..Len(Given(t)) /\ Given(t)'[i] = Given(t)[i]
          BY <2>8, <2>10, <3>1, <1>g
        <4>. QED
          BY <2>10, <3>1, <4>1, <1>i DEF OwnPackets
      <3>2. CASE t = r /\ j = Len(Given(r)) + 1 /\ Given(t)'[j] = p
        <4>1. i \in 1..Len(Given(t)) /\ Given(t)'[i] = Given(t)[i]
          BY <2>8, <2>10, <3>2, <1>g
        <4>. QED
          BY <2>1, <2>2, <3>2, <4>1
      <3>. QED
        BY <3>1, <3>2, <2>8
    <2>11. ASSUME NEW t \in Trans, raddr[t] # "none", NEW u \in Trans \ {t}, raddr[u] = raddr[t],
                  NEW i \in 1..Len(Given(t)'), NEW k \in 1..Len(Given(u)')
           PROVE  Given(t)'[i] # Given(u)'[k]
      <3>1. CASE /\ i \in 1..Len(Given(t)) /\ Given(t)'[i] = Given(t)[i]
                 /\ k \in 1..Len(Given(u)) /\ Given(u)'[k] = Given(u)[k]
        BY <2>11, <3>1, <1>i DEF OwnPackets
      <3>2. CASE /\ t = r /\ Given(t)'[i] = p
                 /\ k \in 1..Len(Given(u)) /\ Given(u)'[k] = Given(u)[k]
        BY <2>1, <2>2, <2>11, <3>2, <1>g
      <3>3. CASE /\ u = r /\ Given(u)'[k] = p
                 /\ i \in 1..Len(Given(t)) /\ Given(t)'[i] = Given(t)[i]
        BY <2>1, <2>2, <2>11, <3>3, <1>g
      <3>. QED
        BY <3>1, <3>2, <3>3, <2>8, <2>11
    <2>12. OwnPackets'
      BY <1>2, <2>9, <2>10, <2>11 DEF OwnPackets
    <2>. QED
      BY <2>7, <2>12
  <1>. QED
    BY <1>1, <1>2, <1>i, GivenSteps

\* UdpInv is an invariant.
LEMMA UdpInvariant == UdpSpec => []UdpInv
  <1>1. UdpInit => UdpInv
    <2>. SUFFICES ASSUME UdpInit PROVE UdpInv
      OBVIOUS
    <2>1. UdpTypeOK
      <3>1. main \in MainRecords
        BY MainIdleTyped DEF UdpInit
      <3>2. queue \in [Trans -> QueueRecords] /\ got \in [Trans -> Seq(Nat)]
        BY EmptySeq DEF UdpInit, QueueRecords
      <3>. QED
        BY <3>1, <3>2 DEF UdpInit, UdpTypeOK, MainRecords, QueueRecords
    <2>2. CloseFollows
      BY DEF UdpInit, CloseFollows
    <2>3. MainFollows
      BY MainIdleTyped DEF UdpInit, MainFollows
    <2>4. GivenBefore
      <3>1. \A t \in Trans : Given(t) = <<>> \o <<>>
        BY DEF UdpInit, Given
      <3>. QED
        BY <3>1, MainIdleTyped DEF UdpInit, GivenBefore
    <2>5. PeersApart
      BY DEF UdpInit, PeersApart, OnePerPeer, OwnPackets
    <2>. QED
      BY <2>1, <2>2, <2>3, <2>4, <2>5 DEF UdpInv
  <1>2. UdpInv /\ [UdpNext]_udpVars => UdpInv'
    BY UdpTypeNext, CloseFollowsNext, MainFollowsNext, UdpPacketsNext DEF UdpInv, PeersApart
  <1>. QED
    BY <1>1, <1>2, PTL DEF UdpSpec

\* At most one transport of an address is open, and every transport is given
\* packets of its own peer, in order, once (mainLoop, received and Close of
\* netty/transport/udp), however closing interleaves with receiving.
THEOREM UdpPeersApart == UdpSpec => []PeersApart
  <1>1. UdpInv => PeersApart
    BY DEF UdpInv
  <1>. QED
    BY <1>1, UdpInvariant, PTL
=============================================================================
