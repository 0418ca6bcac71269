-------------------------- MODULE WorkerPoolProofs --------------------------
(***************************************************************************)
(* Proofs about WorkerPool, for every number of tasks and workers, every   *)
(* queue capacity and every pair of worker limits.                         *)
(***************************************************************************)
EXTENDS WorkerPool, FiniteSetTheorems, SequenceTheorems, TLAPS

\* What TrimCount returns: no more than the ready workers and no more than
\* the workers above idleWorkers.
LEMMA TrimCountBounds ==
    ASSUME TypeOK, workerCount > idleWorkers
    PROVE  /\ TrimCount \in 0..Len(readyWorkers)
           /\ TrimCount <= workerCount
           /\ workerCount - TrimCount \in Nat
  BY PoolAssumption DEF TypeOK, TrimCount

\* The rest of readyWorkers after a round of trimming.
LEMMA TrimRest ==
    ASSUME TypeOK, workerCount > idleWorkers,
           NEW rest, rest = SubSeq(readyWorkers, TrimCount + 1, Len(readyWorkers))
    PROVE  /\ rest \in Seq(Workers)
           /\ Len(rest) = Len(readyWorkers) - TrimCount
           /\ \A i \in 1..Len(rest) : rest[i] = readyWorkers[TrimCount + i]
  <1>1. TrimCount \in 0..Len(readyWorkers) /\ Len(readyWorkers) \in Nat
    BY TrimCountBounds DEF TypeOK
  <1>2. \A i \in (TrimCount + 1)..Len(readyWorkers) : readyWorkers[i] \in Workers
    BY <1>1 DEF TypeOK
  <1>3. /\ rest \in Seq(Workers)
        /\ Len(rest) = IF TrimCount + 1 <= Len(readyWorkers)
                       THEN Len(readyWorkers) - (TrimCount + 1) + 1 ELSE 0
        /\ \A i \in 1..(Len(readyWorkers) - (TrimCount + 1) + 1) :
              rest[i] = readyWorkers[(TrimCount + 1) + i - 1]
    BY <1>1, <1>2, SubSeqProperties
  <1>. QED
    BY <1>1, <1>3

\* NewWorkerPool leaves the variables with their types.
LEMMA TypeInit == Init => TypeOK
  <1>. SUFFICES ASSUME Init PROVE TypeOK
    OBVIOUS
  <1>1. /\ taskQueue \in Seq(Tasks) /\ Len(taskQueue) = 0
        /\ readyWorkers \in Seq(Workers) /\ Len(readyWorkers) = 0
    BY EmptySeq DEF Init
  <1>2. /\ calls \in [Tasks -> CallStates]
        /\ worker \in [Workers -> WorkerStates]
        /\ inbox \in [Workers -> Tasks \cup {None, Quit}]
        /\ ran \in [Tasks -> Nat]
    BY DEF Init, CallStates, WorkerStates
  <1>3. cancelled \in BOOLEAN /\ dispatch \in DispatchStates
        /\ hand \in Tasks \cup {None} /\ workerCount \in Nat
    BY DEF Init, DispatchStates
  <1>4. 0 <= TaskCap /\ 0 <= idleWorkers
    BY PoolAssumption
  <1>. QED
    BY <1>1, <1>2, <1>3, <1>4 DEF TypeOK

\* Every step keeps the types.
LEMMA TypeNext == TypeOK /\ [Next]_vars => TypeOK'
  <1>. SUFFICES ASSUME TypeOK, [Next]_vars PROVE TypeOK'
    OBVIOUS
  <1>. USE PoolAssumption DEF callers, crew, CallStates, DispatchStates,
                              WorkerStates
  <1>1. ASSUME NEW t \in Tasks, AddTask(t) PROVE TypeOK'
    BY <1>1 DEF TypeOK, AddTask
  <1>2. ASSUME NEW t \in Tasks, SendTask(t) PROVE TypeOK'
    <2>1. CASE dispatch = "closed"
      BY <1>2, <2>1 DEF TypeOK, SendTask
    <2>2. CASE dispatch # "closed"
      <3>1. /\ taskQueue' = Append(taskQueue, t)
            /\ Len(taskQueue) < TaskCap
            /\ calls' \in [Tasks -> CallStates]
        BY <1>2, <2>2 DEF TypeOK, SendTask
      <3>2. taskQueue' \in Seq(Tasks) /\ Len(taskQueue') = Len(taskQueue) + 1
        BY <3>1, AppendProperties DEF TypeOK
      <3>3. Len(taskQueue') <= TaskCap
        BY <3>1, <3>2 DEF TypeOK
      <3>. QED
        BY <1>2, <3>1, <3>2, <3>3 DEF TypeOK, SendTask
    <2>. QED
      BY <2>1, <2>2
  <1>3. CASE Stop
    BY <1>3 DEF TypeOK, Stop
  <1>4. CASE TakeTask
    <2>1. taskQueue' \in Seq(Tasks) /\ Len(taskQueue') <= TaskCap
          /\ hand' \in Tasks
      BY <1>4 DEF TypeOK, TakeTask
    <2>2. workerCount' \in Nat /\ worker' \in [Workers -> WorkerStates]
      <3>1. CASE startWorker
        BY <3>1 DEF TypeOK, startWorker
      <3>. QED
        BY <1>4, <3>1 DEF TypeOK, TakeTask
    <2>. QED
      BY <1>4, <2>1, <2>2 DEF TypeOK, TakeTask
  <1>5. CASE Assign
    <2>1. inbox' \in [Workers -> Tasks \cup {None, Quit}]
      BY <1>5 DEF TypeOK, Assign, Deliver
    <2>. QED
      BY <1>5, <2>1 DEF TypeOK, Assign, Deliver
  <1>6. CASE TrimIdle
    <2>1. workerCount' \in Nat
      BY <1>6, TrimCountBounds DEF TrimIdle
    <2>2. readyWorkers' \in Seq(Workers) /\ Len(readyWorkers') <= idleWorkers
      BY <1>6, TrimRest, TrimCountBounds, SMTT(30) DEF TrimIdle, TypeOK
    <2>3. inbox' \in [Workers -> Tasks \cup {None, Quit}]
      BY <1>6 DEF TrimIdle, TypeOK
    <2>. QED
      BY <1>6, <2>1, <2>2, <2>3 DEF TrimIdle, TypeOK
  <1>7. CASE BeginDrain
    BY <1>7 DEF TypeOK, BeginDrain
  <1>8. CASE DrainTask
    BY <1>8 DEF TypeOK, DrainTask
  <1>9. CASE BeginRetire
    BY <1>9 DEF TypeOK, BeginRetire
  <1>10. CASE RetireWorker
    BY <1>10 DEF TypeOK, RetireWorker, Deliver
  <1>11. CASE Close
    BY <1>11 DEF TypeOK, Close
  <1>12. ASSUME NEW w \in Workers, Offer(w) PROVE TypeOK'
    <2>1. /\ readyWorkers' \in Seq(Workers)
          /\ Len(readyWorkers') = Len(readyWorkers) + 1
      BY <1>12, AppendProperties DEF TypeOK, Offer
    <2>2. Len(readyWorkers) \in Nat
      BY DEF TypeOK
    <2>. QED
      BY <1>12, <2>1, <2>2 DEF TypeOK, Offer
  <1>13. ASSUME NEW w \in Workers, Receive(w) PROVE TypeOK'
    BY <1>13 DEF TypeOK, Receive
  <1>14. ASSUME NEW w \in Workers, Execute(w) PROVE TypeOK'
    <2>1. ran' \in [Tasks -> Nat]
      <3>1. \A t \in Tasks : ran[t] + 1 \in Nat
        BY DEF TypeOK
      <3>2. DOMAIN ran' = Tasks /\ ran' = [t \in Tasks |-> ran'[t]]
        BY <1>14 DEF TypeOK, Execute
      <3>3. \A t \in Tasks : ran'[t] \in Nat
        BY <1>14, <3>1 DEF TypeOK, Execute
      <3>. QED
        BY <3>2, <3>3
    <2>2. /\ worker' \in [Workers -> WorkerStates]
          /\ inbox' \in [Workers -> Tasks \cup {None, Quit}]
      BY <1>14 DEF TypeOK, Execute
    <2>. QED
      BY <1>14, <2>1, <2>2 DEF TypeOK, Execute
  <1>15. CASE UNCHANGED vars
    BY <1>15 DEF TypeOK, vars
  <1>. QED
    BY <1>1, <1>2, <1>3, <1>4, <1>5, <1>6, <1>7, <1>8, <1>9, <1>10, <1>11,
       <1>12, <1>13, <1>14, <1>15 DEF Next, Dispatch

\* The variables of the pool keep their types and its channels never hold
\* more than their capacity, for every number of tasks and workers.
THEOREM TypeCorrect == Spec => []TypeOK
  BY TypeInit, TypeNext, PTL DEF Spec

-----------------------------------------------------------------------------
(***************************************************************************)
(* The workers are counted.                                                *)
(***************************************************************************)

\* The workers dispatch counts on are finitely many.
LEMMA LiveFinite == IsFiniteSet(Live) /\ Cardinality(Live) \in Nat
  <1>1. Live \in SUBSET Workers
    BY DEF Live
  <1>. QED
    BY <1>1, PoolAssumption, FS_Subset, FS_CardinalityType

\* The worker Deliver takes is waiting with an empty inbox, and it is not
\* among those that stay in readyWorkers.
LEMMA ReadyHead ==
    ASSUME TypeOK, ReadyAreWaiting, readyWorkers # <<>>
    PROVE  /\ Head(readyWorkers) \in Workers
           /\ worker[Head(readyWorkers)] = "wait"
           /\ inbox[Head(readyWorkers)] = None
           /\ Len(Tail(readyWorkers)) = Len(readyWorkers) - 1
           /\ Len(readyWorkers) \in Nat \ {0}
           /\ \A i \in 1..Len(Tail(readyWorkers)) :
                 /\ i + 1 \in 1..Len(readyWorkers)
                 /\ Tail(readyWorkers)[i] = readyWorkers[i + 1]
                 /\ Tail(readyWorkers)[i] # Head(readyWorkers)
  <1>1. /\ readyWorkers \in Seq(Workers)
        /\ Len(readyWorkers) \in Nat \ {0}
        /\ Head(readyWorkers) = readyWorkers[1]
    BY EmptySeq DEF TypeOK
  <1>2. /\ Len(Tail(readyWorkers)) = Len(readyWorkers) - 1
        /\ \A i \in 1..Len(Tail(readyWorkers)) :
              /\ i + 1 \in 1..Len(readyWorkers)
              /\ Tail(readyWorkers)[i] = readyWorkers[i + 1]
    BY <1>1
  <1>3. 1 \in 1..Len(readyWorkers)
    BY <1>1
  <1>4. \A i \in 1..Len(Tail(readyWorkers)) : readyWorkers[i + 1] # readyWorkers[1]
    BY <1>1, <1>2, <1>3 DEF ReadyAreWaiting
  <1>. QED
    BY <1>1, <1>2, <1>3, <1>4 DEF ReadyAreWaiting

\* Delivering x to the first ready worker keeps the shape of the queue.
LEMMA DeliverReady ==
    ASSUME TypeOK, ReadyAreWaiting, NEW x, Deliver(x), UNCHANGED worker
    PROVE  ReadyAreWaiting'
  <1>. DEFINE h == Head(readyWorkers)
  <1>1. readyWorkers # <<>> /\ readyWorkers' = Tail(readyWorkers)
        /\ inbox' = [inbox EXCEPT ![h] = x]
    BY DEF Deliver
  <1>2. /\ Len(readyWorkers') = Len(readyWorkers) - 1
        /\ \A i \in 1..Len(readyWorkers') :
              /\ i + 1 \in 1..Len(readyWorkers)
              /\ readyWorkers'[i] = readyWorkers[i + 1]
              /\ readyWorkers'[i] # h
    BY <1>1, ReadyHead
  <1>. SUFFICES ASSUME NEW i \in 1..Len(readyWorkers')
                PROVE  /\ worker[readyWorkers'[i]] = "wait"
                       /\ inbox'[readyWorkers'[i]] = None
                       /\ \A j \in 1..Len(readyWorkers') :
                             readyWorkers'[i] = readyWorkers'[j] => i = j
    BY DEF ReadyAreWaiting
  <1>3. worker[readyWorkers[i + 1]] = "wait" /\ inbox[readyWorkers[i + 1]] = None
    BY <1>2 DEF ReadyAreWaiting
  <1>4. inbox'[readyWorkers'[i]] = inbox[readyWorkers'[i]]
    <2>1. PICK r \in Workers : r = readyWorkers'[i] /\ r # h
      BY <1>2, ElementOfSeq DEF TypeOK
    <2>2. inbox'[r] = inbox[r]
      BY <1>1, <2>1 DEF TypeOK
    <2>. QED
      BY <2>1, <2>2
  <1>5. ASSUME NEW j \in 1..Len(readyWorkers'), readyWorkers'[i] = readyWorkers'[j]
        PROVE  i = j
    <2>1. i + 1 = j + 1
      BY <1>2, <1>5 DEF ReadyAreWaiting
    <2>. QED
      BY <2>1
  <1>. QED
    BY <1>2, <1>3, <1>4, <1>5

\* A new pool has no workers and an exact count.
LEMMA PoolInvInit == Init => PoolInv
  <1>. SUFFICES ASSUME Init PROVE PoolInv
    OBVIOUS
  <1>1. Live = {} /\ Cardinality(Live) = 0
    BY FS_EmptySet DEF Init, Live
  <1>2. InboxShape
    BY DEF Init, InboxShape
  <1>3. ReadyAreWaiting
    BY EmptySeq DEF Init, ReadyAreWaiting
  <1>. QED
    BY <1>1, <1>2, <1>3, PoolAssumption DEF Init, PoolInv, WorkersCounted

\* Every step of a caller, of dispatch or of a worker keeps the invariant.
LEMMA PoolInvNext == TypeOK /\ TypeOK' /\ PoolInv /\ [Next]_vars => PoolInv'
  <1>. SUFFICES ASSUME TypeOK, TypeOK', PoolInv, [Next]_vars PROVE PoolInv'
    OBVIOUS
  <1>. USE DEF callers, crew
  <1>q. Quit # None /\ Quit \notin Tasks
    BY PoolAssumption
  <1>f. IsFiniteSet(Live) /\ Cardinality(Live) \in Nat
    BY LiveFinite
  \* Steps that leave the workers and readyWorkers alone.
  <1>u. ASSUME UNCHANGED <<worker, inbox, readyWorkers, workerCount>>,
               dispatch' = "closed" => workerCount = 0
        PROVE  PoolInv'
    <2>1. Live' = Live
      BY <1>u DEF Live
    <2>. QED
      BY <1>u, <2>1 DEF PoolInv, InboxShape, ReadyAreWaiting, WorkersCounted
  <1>1. ASSUME NEW t \in Tasks, AddTask(t) PROVE PoolInv'
    BY <1>1, <1>u DEF AddTask, PoolInv
  <1>2. ASSUME NEW t \in Tasks, SendTask(t) PROVE PoolInv'
    BY <1>2, <1>u DEF SendTask, PoolInv
  <1>3. CASE Stop
    BY <1>3, <1>u DEF Stop, PoolInv
  <1>4. CASE TakeTask
    <2>1. CASE startWorker /\ workerCount < maxWorkers
      <3>1. PICK w \in Workers : /\ worker[w] = "none"
                                 /\ worker' = [worker EXCEPT ![w] = "offer"]
                                 /\ workerCount' = workerCount + 1
        BY <2>1 DEF startWorker
      <3>2. inbox' = inbox /\ readyWorkers' = readyWorkers /\ dispatch' = "assign"
        BY <1>4 DEF TakeTask
      <3>3. Live' = Live \cup {w} /\ w \notin Live
        BY <3>1, <3>2, <1>q DEF Live, TypeOK, PoolInv, InboxShape
      <3>4. Cardinality(Live') = Cardinality(Live) + 1
        BY <3>3, <1>f, FS_AddElement
      <3>5. WorkersCounted'
        BY <3>1, <3>4, <2>1, PoolAssumption DEF PoolInv, WorkersCounted, TypeOK
      <3>6. InboxShape'
        BY <3>1, <3>2 DEF PoolInv, InboxShape, TypeOK
      <3>7. ReadyAreWaiting'
        BY <3>1, <3>2 DEF PoolInv, ReadyAreWaiting, TypeOK
      <3>. QED
        BY <3>2, <3>5, <3>6, <3>7 DEF PoolInv
    <2>2. CASE UNCHANGED <<workerCount, worker>>
      BY <1>4, <2>2, <1>u DEF TakeTask
    <2>. QED
      BY <1>4, <2>1, <2>2 DEF TakeTask
  <1>5. CASE Assign
    <2>. DEFINE h == Head(readyWorkers)
    <2>1. /\ Deliver(hand) /\ UNCHANGED <<worker, workerCount>>
          /\ dispatch' # "closed" /\ hand # Quit
      BY <1>5, <1>q DEF Assign, TypeOK
    <2>2. /\ readyWorkers # <<>> /\ h \in Workers
          /\ worker[h] = "wait" /\ inbox[h] = None
          /\ inbox' = [inbox EXCEPT ![h] = hand]
      BY <2>1, ReadyHead DEF Deliver, PoolInv
    <2>3. Live' = Live
      BY <2>1, <2>2, <1>q DEF Live, TypeOK
    <2>4. InboxShape'
      BY <2>1, <2>2 DEF PoolInv, InboxShape, TypeOK
    <2>. QED
      BY <2>1, <2>3, <2>4, DeliverReady DEF PoolInv, WorkersCounted
  <1>6. CASE TrimIdle
    <2>. DEFINE k == TrimCount
                told == {readyWorkers[i] : i \in 1..k}
    <2>1. /\ k \in 0..Len(readyWorkers) /\ k <= workerCount
          /\ Len(readyWorkers) \in Nat
          /\ workerCount' = workerCount - k
          /\ worker' = worker /\ dispatch' = "select"
          /\ inbox' = [w \in Workers |-> IF w \in told THEN Quit ELSE inbox[w]]
      BY <1>6, TrimCountBounds DEF TrimIdle, TypeOK
    <2>2. /\ Len(readyWorkers') = Len(readyWorkers) - k
          /\ \A i \in 1..Len(readyWorkers') : readyWorkers'[i] = readyWorkers[k + i]
      BY <1>6, TrimRest DEF TrimIdle
    <2>. HIDE DEF k
    <2>3. \A i \in 1..k : /\ readyWorkers[i] \in Workers
                          /\ worker[readyWorkers[i]] = "wait"
                          /\ inbox[readyWorkers[i]] = None
      BY <2>1 DEF PoolInv, ReadyAreWaiting, TypeOK
    <2>4. told \subseteq Live
      BY <2>3, <1>q DEF Live
    <2>5. IsFiniteSet(told) /\ Cardinality(told) = k
      <3>. DEFINE f == [i \in 1..k |-> readyWorkers[i]]
      <3>1. \A i, j \in 1..k : readyWorkers[i] = readyWorkers[j] => i = j
        BY <2>1 DEF PoolInv, ReadyAreWaiting
      <3>2. f \in Bijection(1..k, told)
        <4>1. f \in [1..k -> told]
          OBVIOUS
        <4>2. \A i, j \in 1..k : f[i] = f[j] => i = j
          BY <3>1
        <4>3. \A x \in told : \E i \in 1..k : f[i] = x
          OBVIOUS
        <4>. HIDE DEF f, told
        <4>. QED
          BY <4>1, <4>2, <4>3
             DEF Bijection, Injection, IsInjective, Surjection
      <3>3. IsFiniteSet(1..k) /\ Cardinality(1..k) = k
        BY <2>1, FS_Interval
      <3>4. ExistsBijection(1..k, told)
        BY <3>2 DEF ExistsBijection
      <3>. QED
        BY <3>3, <3>4, FS_Bijection
    <2>6. Live' = Live \ told
      BY <2>1, <1>q DEF Live
    <2>7. Cardinality(Live') = Cardinality(Live) - k
      <3>. HIDE DEF told
      <3>1. Live \cap told = told
        BY <2>4
      <3>. QED
        BY <2>5, <2>6, <3>1, <1>f, FS_Difference
    <2>8. WorkersCounted'
      BY <2>1, <2>7, PoolAssumption DEF PoolInv, WorkersCounted, TypeOK
    <2>9. InboxShape'
      BY <2>1, <2>3 DEF PoolInv, InboxShape
    <2>10. ReadyAreWaiting'
      <3>. SUFFICES ASSUME NEW i \in 1..Len(readyWorkers')
                    PROVE  /\ worker'[readyWorkers'[i]] = "wait"
                           /\ inbox'[readyWorkers'[i]] = None
                           /\ \A j \in 1..Len(readyWorkers') :
                                 readyWorkers'[i] = readyWorkers'[j] => i = j
        BY DEF ReadyAreWaiting
      <3>1. k + i \in 1..Len(readyWorkers) /\ k + i \notin 1..k
        BY <2>1, <2>2
      <3>2. /\ readyWorkers[k + i] \in Workers
            /\ worker[readyWorkers[k + i]] = "wait"
            /\ inbox[readyWorkers[k + i]] = None
        BY <3>1 DEF PoolInv, ReadyAreWaiting, TypeOK
      <3>3. readyWorkers[k + i] \notin told
        BY <2>1, <3>1 DEF PoolInv, ReadyAreWaiting
      <3>4. ASSUME NEW j \in 1..Len(readyWorkers'),
                   readyWorkers'[i] = readyWorkers'[j]
            PROVE  i = j
        <4>1. k + j \in 1..Len(readyWorkers)
          BY <2>1, <2>2
        <4>2. k + i = k + j
          BY <2>2, <3>1, <3>4, <4>1 DEF PoolInv, ReadyAreWaiting
        <4>. QED
          BY <4>2, <2>1
      <3>. QED
        BY <2>1, <2>2, <3>2, <3>3, <3>4
    <2>. QED
      BY <2>1, <2>8, <2>9, <2>10 DEF PoolInv
  <1>7. CASE BeginDrain
    BY <1>7, <1>u DEF BeginDrain
  <1>8. CASE DrainTask
    BY <1>8, <1>u DEF DrainTask
  <1>9. CASE BeginRetire
    BY <1>9, <1>u DEF BeginRetire
  <1>10. CASE RetireWorker
    <2>. DEFINE h == Head(readyWorkers)
    <2>1. /\ Deliver(Quit) /\ UNCHANGED worker
          /\ workerCount > 0 /\ workerCount' = workerCount - 1
          /\ dispatch' = "retire"
      BY <1>10 DEF RetireWorker
    <2>2. /\ h \in Workers /\ worker[h] = "wait" /\ inbox[h] = None
          /\ inbox' = [inbox EXCEPT ![h] = Quit]
      BY <2>1, ReadyHead DEF Deliver, PoolInv
    <2>3. Live' = Live \ {h} /\ h \in Live
      BY <2>1, <2>2, <1>q DEF Live, TypeOK
    <2>4. Cardinality(Live') = Cardinality(Live) - 1
      BY <2>3, <1>f, FS_RemoveElement
    <2>5. WorkersCounted'
      BY <2>1, <2>4, PoolAssumption DEF PoolInv, WorkersCounted, TypeOK
    <2>6. InboxShape'
      BY <2>1, <2>2 DEF PoolInv, InboxShape, TypeOK
    <2>. QED
      BY <2>1, <2>5, <2>6, DeliverReady DEF PoolInv
  <1>11. CASE Close
    BY <1>11, <1>u DEF Close
  <1>12. ASSUME NEW w \in Workers, Offer(w) PROVE PoolInv'
    <2>1. /\ worker[w] = "offer" /\ worker' = [worker EXCEPT ![w] = "wait"]
          /\ UNCHANGED <<inbox, workerCount, dispatch>>
          /\ readyWorkers' = Append(readyWorkers, w)
          /\ Len(readyWorkers) \in Nat
      BY <1>12 DEF Offer, TypeOK
    <2>2. Live' = Live
      BY <2>1 DEF Live, TypeOK
    <2>3. InboxShape'
      BY <2>1 DEF PoolInv, InboxShape, TypeOK
    <2>4. /\ Len(readyWorkers') = Len(readyWorkers) + 1
          /\ \A i \in 1..Len(readyWorkers) : readyWorkers'[i] = readyWorkers[i]
          /\ readyWorkers'[Len(readyWorkers) + 1] = w
      BY <2>1, AppendProperties DEF TypeOK
    <2>5. \A i \in 1..Len(readyWorkers) :
            /\ readyWorkers[i] # w /\ readyWorkers[i] \in Workers
            /\ worker[readyWorkers[i]] = "wait" /\ inbox[readyWorkers[i]] = None
      BY <2>1 DEF PoolInv, ReadyAreWaiting, TypeOK
    <2>6. inbox[w] = None
      BY <2>1 DEF PoolInv, InboxShape
    <2>7. ReadyAreWaiting'
      <3>1. ASSUME NEW i \in 1..Len(readyWorkers')
            PROVE  worker'[readyWorkers'[i]] = "wait" /\ inbox'[readyWorkers'[i]] = None
        BY <2>1, <2>4, <2>5, <2>6 DEF TypeOK
      <3>2. ASSUME NEW i \in 1..Len(readyWorkers'), NEW j \in 1..Len(readyWorkers'),
                   readyWorkers'[i] = readyWorkers'[j]
            PROVE  i = j
        BY <2>1, <2>4, <2>5, <3>2 DEF PoolInv, ReadyAreWaiting
      <3>. QED
        BY <3>1, <3>2 DEF ReadyAreWaiting
    <2>. QED
      BY <2>1, <2>2, <2>3, <2>7 DEF PoolInv, WorkersCounted
  <1>13. ASSUME NEW w \in Workers, Receive(w) PROVE PoolInv'
    <2>1. /\ worker[w] = "wait" /\ inbox[w] # None
          /\ UNCHANGED <<readyWorkers, workerCount, dispatch>>
      BY <1>13, PoolAssumption DEF Receive
    <2>2. \A i \in 1..Len(readyWorkers) : readyWorkers[i] # w
      BY <2>1 DEF PoolInv, ReadyAreWaiting
    <2>3. Live' = Live
      BY <1>13, <1>q DEF Receive, Live, TypeOK
    <2>4. InboxShape'
      BY <1>13, <1>q DEF Receive, PoolInv, InboxShape, TypeOK
    <2>5. ReadyAreWaiting'
      BY <1>13, <2>1, <2>2 DEF Receive, PoolInv, ReadyAreWaiting, TypeOK
    <2>. QED
      BY <2>1, <2>3, <2>4, <2>5 DEF PoolInv, WorkersCounted
  <1>14. ASSUME NEW w \in Workers, Execute(w) PROVE PoolInv'
    <2>1. /\ worker[w] = "busy" /\ inbox[w] \in Tasks
          /\ UNCHANGED <<readyWorkers, workerCount, dispatch>>
          /\ worker' = [worker EXCEPT ![w] = "offer"]
          /\ inbox' = [inbox EXCEPT ![w] = None]
      BY <1>14 DEF Execute, PoolInv, InboxShape
    <2>2. \A i \in 1..Len(readyWorkers) : readyWorkers[i] # w
      BY <2>1 DEF PoolInv, ReadyAreWaiting
    <2>3. Live' = Live
      BY <2>1, <1>q DEF Live, TypeOK
    <2>4. InboxShape'
      BY <2>1 DEF PoolInv, InboxShape, TypeOK
    <2>5. ReadyAreWaiting'
      BY <2>1, <2>2 DEF PoolInv, ReadyAreWaiting, TypeOK
    <2>. QED
      BY <2>1, <2>3, <2>4, <2>5 DEF PoolInv, WorkersCounted
  <1>15. CASE UNCHANGED vars
    BY <1>15, <1>u DEF vars, PoolInv
  <1>. QED
    BY <1>1, <1>2, <1>3, <1>4, <1>5, <1>6, <1>7, <1>8, <1>9, <1>10, <1>11,
       <1>12, <1>13, <1>14, <1>15 DEF Next, Dispatch

\* In every behaviour of the pool the inductive invariant holds: the inboxes,
\* the queue of ready workers and the count of dispatch agree.
THEOREM PoolInvariant == Spec => []PoolInv
  <1>1. Spec => []TypeOK
    BY TypeCorrect
  <1>. QED
    BY <1>1, PoolInvInit, PoolInvNext, PTL DEF Spec

\* The local count of dispatch is the number of live workers and stays within
\* maxWorkers (worker_pool.go:146-151, 171, 196).
THEOREM WorkersAreCounted == Spec => []WorkersCounted
  BY PoolInvariant, PTL DEF PoolInv

\* The sends to a worker's channel never block dispatch.
THEOREM ReadyWorkersWait == Spec => []ReadyAreWaiting
  BY PoolInvariant, PTL DEF PoolInv

\* When dispatch closes readyWorkers (worker_pool.go:199) no worker can send
\* to it any more: the close cannot end the process with a panic.
THEOREM CloseNeverPanics == Spec => []CloseIsSafe
  <1>1. TypeOK /\ PoolInv => CloseIsSafe
    <2>. SUFFICES ASSUME TypeOK, PoolInv, dispatch = "closed",
                         NEW w \in Workers, worker[w] # "none"
                  PROVE  worker[w] = "wait" /\ inbox[w] = Quit
      BY DEF CloseIsSafe
    <2>1. Cardinality(Live) = 0
      BY DEF PoolInv, WorkersCounted
    <2>2. Live = {}
      BY <2>1, LiveFinite, FS_EmptySet
    <2>3. inbox[w] = Quit
      BY <2>2 DEF Live
    <2>4. worker[w] \notin {"offer", "busy"}
      BY <2>3, PoolAssumption DEF PoolInv, InboxShape
    <2>. QED
      BY <2>3, <2>4 DEF TypeOK, WorkerStates
  <1>. QED
    BY <1>1, TypeCorrect, PoolInvariant, PTL

-----------------------------------------------------------------------------
(***************************************************************************)
(* Every task is in one place.                                             *)
(***************************************************************************)

\* The places of a task in a queue, the workers that have it, and dispatch.
Queued(q, t) == {i \in 1..Len(q) : q[i] = t}
Carriers(t) == {w \in Workers : inbox[w] = t}
InHand(t) == IF hand = t THEN 1 ELSE 0

\* dispatch has a task in its hand only between the receive and the send.
HandFree == dispatch \notin {"assign", "drainAssign"} => hand = None

\* The three counts that make up Holders are natural numbers.
LEMMA HoldersSum ==
    ASSUME TypeOK, NEW t \in Tasks
    PROVE  /\ IsFiniteSet(Queued(taskQueue, t)) /\ Cardinality(Queued(taskQueue, t)) \in Nat
           /\ IsFiniteSet(Carriers(t)) /\ Cardinality(Carriers(t)) \in Nat
           /\ InHand(t) \in Nat
           /\ Holders(t) = Cardinality(Queued(taskQueue, t)) + InHand(t)
                              + Cardinality(Carriers(t))
  <1>1. Len(taskQueue) \in Nat
    BY DEF TypeOK
  <1>2. IsFiniteSet(1..Len(taskQueue))
    BY <1>1, FS_Interval
  <1>3. Queued(taskQueue, t) \in SUBSET (1..Len(taskQueue)) /\ Carriers(t) \in SUBSET Workers
    BY DEF Queued, Carriers
  <1>4. IsFiniteSet(Queued(taskQueue, t)) /\ IsFiniteSet(Carriers(t))
    BY <1>2, <1>3, PoolAssumption, FS_Subset
  <1>5. Cardinality(Queued(taskQueue, t)) \in Nat /\ Cardinality(Carriers(t)) \in Nat
    BY <1>4, FS_CardinalityType
  <1>6. InHand(t) \in Nat
    BY DEF InHand
  <1>. QED
    BY <1>4, <1>5, <1>6 DEF Holders, Queued, Carriers, InHand

\* A task sent to the queue has one place more in it, every other as many.
LEMMA QueuedAppend ==
    ASSUME NEW q \in Seq(Tasks), NEW u \in Tasks, NEW t \in Tasks, IsFiniteSet(Queued(q, t))
    PROVE  Cardinality(Queued(Append(q, u), t))
              = Cardinality(Queued(q, t)) + IF u = t THEN 1 ELSE 0
  <1>. DEFINE n == Len(q)
  <1>1. /\ n \in Nat /\ Len(Append(q, u)) = n + 1
        /\ \A i \in 1..n : Append(q, u)[i] = q[i]
        /\ Append(q, u)[n + 1] = u
    BY AppendProperties
  <1>2. CASE u = t
    <2>1. Queued(Append(q, u), t) = Queued(q, t) \cup {n + 1} /\ n + 1 \notin Queued(q, t)
      BY <1>1, <1>2 DEF Queued
    <2>. QED
      BY <1>2, <2>1, FS_AddElement
  <1>3. CASE u # t
    <2>1. Queued(Append(q, u), t) = Queued(q, t)
      BY <1>1, <1>3 DEF Queued
    <2>2. Cardinality(Queued(q, t)) \in Nat
      BY FS_CardinalityType
    <2>. QED
      BY <1>3, <2>1, <2>2
  <1>. QED
    BY <1>2, <1>3

\* A task taken from the head of the queue has one place less in it.
LEMMA QueuedTail ==
    ASSUME NEW q \in Seq(Tasks), q # <<>>, NEW t \in Tasks, IsFiniteSet(Queued(q, t))
    PROVE  Cardinality(Queued(q, t))
              = Cardinality(Queued(Tail(q), t)) + IF Head(q) = t THEN 1 ELSE 0
  <1>. DEFINE rest == Queued(q, t) \ {1}
              moved == Queued(Tail(q), t)
              f == [i \in rest |-> i - 1]
  <1>1. /\ Len(q) \in Nat \ {0} /\ Head(q) = q[1] /\ Len(Tail(q)) = Len(q) - 1
        /\ \A i \in 1..Len(Tail(q)) : Tail(q)[i] = q[i + 1]
    BY EmptySeq
  <1>2. \A i \in rest : i \in 2..Len(q) /\ q[i] = t
    BY <1>1 DEF Queued
  <1>3. f \in Bijection(rest, moved)
    <2>1. \A i \in rest : i - 1 \in moved
      BY <1>1, <1>2 DEF Queued
    <2>2. \A i, j \in rest : i - 1 = j - 1 => i = j
      BY <1>1, <1>2
    <2>3. \A k \in moved : k + 1 \in rest /\ (k + 1) - 1 = k
      BY <1>1 DEF Queued
    <2>. HIDE DEF rest, moved
    <2>4. f \in [rest -> moved]
      BY <2>1
    <2>5. \A i, j \in rest : f[i] = f[j] => i = j
      BY <2>2
    <2>6. \A k \in moved : \E i \in rest : f[i] = k
      BY <2>3
    <2>. HIDE DEF f
    <2>. QED
      BY <2>4, <2>5, <2>6 DEF Bijection, Injection, IsInjective, Surjection
  <1>4. IsFiniteSet(rest)
    BY FS_RemoveElement
  <1>5. IsFiniteSet(moved) /\ Cardinality(moved) = Cardinality(rest)
    <2>1. ExistsBijection(rest, moved)
      BY <1>3 DEF ExistsBijection
    <2>. HIDE DEF rest, moved
    <2>. QED
      BY <1>4, <2>1, FS_Bijection
  <1>6. Cardinality(rest) = IF 1 \in Queued(q, t) THEN Cardinality(Queued(q, t)) - 1
                                                   ELSE Cardinality(Queued(q, t))
    BY FS_RemoveElement
  <1>7. 1 \in Queued(q, t) <=> Head(q) = t
    BY <1>1 DEF Queued
  <1>8. Cardinality(Queued(q, t)) \in Nat /\ Cardinality(rest) \in Nat
    BY <1>4, FS_CardinalityType
  <1>. HIDE DEF rest, moved
  <1>. QED
    BY <1>5, <1>6, <1>7, <1>8 DEF moved

\* A step that leaves the queue, the hand, the inboxes of tasks, the calls and
\* the executions alone keeps TaskOnce.
LEMMA TaskOnceStays ==
    ASSUME TaskOnce, UNCHANGED <<taskQueue, hand, ran>>,
           \A t \in Tasks : Carriers(t)' = Carriers(t),
           \A t \in Tasks : calls'[t] = "sent" <=> calls[t] = "sent"
    PROVE  TaskOnce'
  BY DEF TaskOnce, Holders, Carriers

\* The hand of dispatch is free wherever it takes a task.
LEMMA HandFreeNext == HandFree /\ [Next]_vars => HandFree'
  BY DEF HandFree, Next, Dispatch, vars, callers, crew, AddTask, SendTask, Stop, TakeTask, Assign,
         TrimIdle, BeginDrain, DrainTask, BeginRetire, RetireWorker, Close, Offer, Receive, Execute

\* No step loses a task, hands it to two workers or runs it twice.
LEMMA TaskOnceNext ==
    TypeOK /\ TypeOK' /\ PoolInv /\ HandFree /\ TaskOnce /\ [Next]_vars => TaskOnce'
  <1>. SUFFICES ASSUME TypeOK, TypeOK', PoolInv, HandFree, TaskOnce, [Next]_vars
                PROVE  TaskOnce'
    OBVIOUS
  <1>. USE DEF callers, crew
  <1>p. None \notin Tasks /\ Quit \notin Tasks /\ None # Quit
    BY PoolAssumption
  <1>s. \A t \in Tasks : /\ ran[t] \in Nat
                         /\ Holders(t) + ran[t] = IF calls[t] = "sent" THEN 1 ELSE 0
    BY DEF TypeOK, TaskOnce
  \* The inboxes after None or Quit was replaced by None or Quit.
  <1>c. ASSUME NEW w \in Workers, inbox[w] \in {None, Quit}, NEW x \in {None, Quit},
               inbox' = [inbox EXCEPT ![w] = x]
        PROVE  \A t \in Tasks : Carriers(t)' = Carriers(t)
    BY <1>c, <1>p DEF Carriers, TypeOK
  <1>i. inbox' = inbox => \A t \in Tasks : Carriers(t)' = Carriers(t)
    BY DEF Carriers
  <1>1. ASSUME NEW u \in Tasks, AddTask(u) PROVE TaskOnce'
    <2>1. \A t \in Tasks : calls'[t] = "sent" <=> calls[t] = "sent"
      BY <1>1 DEF AddTask, TypeOK
    <2>. QED
      BY <1>1, <2>1, <1>i, TaskOnceStays DEF AddTask
  <1>2. ASSUME NEW u \in Tasks, SendTask(u) PROVE TaskOnce'
    <2>1. CASE dispatch = "closed"
      <3>1. \A t \in Tasks : calls'[t] = "sent" <=> calls[t] = "sent"
        BY <1>2, <2>1 DEF SendTask, TypeOK
      <3>. QED
        BY <1>2, <2>1, <3>1, <1>i, TaskOnceStays DEF SendTask
    <2>2. CASE dispatch # "closed"
      <3>. SUFFICES ASSUME NEW t \in Tasks
                    PROVE  Holders(t)' + ran'[t] = IF calls'[t] = "sent" THEN 1 ELSE 0
        BY DEF TaskOnce
      <3>1. /\ taskQueue' = Append(taskQueue, u) /\ calls[u] = "checked"
            /\ calls' = [calls EXCEPT ![u] = "sent"] /\ UNCHANGED <<hand, inbox, ran>>
        BY <1>2, <2>2 DEF SendTask
      <3>2. Cardinality(Queued(taskQueue', t))
               = Cardinality(Queued(taskQueue, t)) + IF u = t THEN 1 ELSE 0
        BY <3>1, HoldersSum, QueuedAppend DEF TypeOK
      <3>3. Holders(t)' = Cardinality(Queued(taskQueue', t)) + InHand(t)
                             + Cardinality(Carriers(t))
        BY <3>1 DEF Holders, Queued, InHand, Carriers
      <3>4. calls'[t] = IF u = t THEN "sent" ELSE calls[t]
        BY <3>1 DEF TypeOK
      <3>5. Holders(t)' = Holders(t) + IF u = t THEN 1 ELSE 0
        BY <3>2, <3>3, HoldersSum
      <3>6. Holders(t) \in Nat
        BY HoldersSum
      <3>7. CASE u = t
        BY <3>1, <3>4, <3>5, <3>6, <3>7, <1>s
      <3>8. CASE u # t
        BY <3>1, <3>4, <3>5, <3>6, <3>8, <1>s
      <3>. QED
        BY <3>7, <3>8
    <2>. QED
      BY <2>1, <2>2
  <1>3. CASE Stop \/ BeginDrain \/ BeginRetire \/ Close
    BY <1>3, <1>i, TaskOnceStays DEF Stop, BeginDrain, BeginRetire, Close
  <1>4. CASE TakeTask \/ DrainTask
    <2>. SUFFICES ASSUME NEW t \in Tasks
                  PROVE  Holders(t)' + ran'[t] = IF calls'[t] = "sent" THEN 1 ELSE 0
      BY DEF TaskOnce
    <2>1. /\ hand = None /\ taskQueue # <<>> /\ hand' = Head(taskQueue)
          /\ taskQueue' = Tail(taskQueue) /\ UNCHANGED <<inbox, ran, calls>>
      BY <1>4 DEF TakeTask, DrainTask, HandFree
    <2>2. Cardinality(Queued(taskQueue, t))
             = Cardinality(Queued(taskQueue', t)) + IF hand' = t THEN 1 ELSE 0
      BY <2>1, HoldersSum, QueuedTail DEF TypeOK
    <2>3. Holders(t)' = Cardinality(Queued(taskQueue', t)) + (IF hand' = t THEN 1 ELSE 0)
                           + Cardinality(Carriers(t))
      BY <2>1 DEF Holders, Queued, Carriers
    <2>4. InHand(t) = 0
      BY <2>1, <1>p DEF InHand
    <2>5. Cardinality(Queued(taskQueue', t)) \in Nat
      <3>1. Queued(taskQueue', t) \in SUBSET (1..Len(taskQueue')) /\ Len(taskQueue') \in Nat
        BY DEF Queued, TypeOK
      <3>2. IsFiniteSet(1..Len(taskQueue'))
        BY <3>1, FS_Interval
      <3>3. IsFiniteSet(Queued(taskQueue', t))
        BY <3>1, <3>2, FS_Subset
      <3>. QED
        BY <3>3, FS_CardinalityType
    <2>. QED
      BY <2>1, <2>2, <2>3, <2>4, <2>5, <1>s, HoldersSum
  <1>5. CASE Assign
    <2>. DEFINE h == Head(readyWorkers)
    <2>. SUFFICES ASSUME NEW t \in Tasks
                  PROVE  Holders(t)' + ran'[t] = IF calls'[t] = "sent" THEN 1 ELSE 0
      BY DEF TaskOnce
    <2>1. /\ h \in Workers /\ inbox[h] = None /\ inbox' = [inbox EXCEPT ![h] = hand]
          /\ hand' = None /\ UNCHANGED <<taskQueue, ran, calls>>
      BY <1>5, ReadyHead DEF Assign, Deliver, PoolInv
    <2>2. Holders(t)' = Cardinality(Queued(taskQueue, t)) + InHand(t)'
                           + Cardinality(Carriers(t)')
      BY <2>1 DEF Holders, Queued, InHand, Carriers
    <2>3. InHand(t)' = 0
      BY <2>1, <1>p DEF InHand
    <2>. HIDE DEF h
    <2>4. Cardinality(Carriers(t)') = Cardinality(Carriers(t)) + InHand(t)
      <3>1. CASE hand = t
        <4>1. Carriers(t)' = Carriers(t) \cup {h} /\ h \notin Carriers(t)
          BY <2>1, <3>1, <1>p DEF Carriers, TypeOK
        <4>2. Cardinality(Carriers(t) \cup {h}) = Cardinality(Carriers(t)) + 1
          BY <4>1, HoldersSum, FS_AddElement
        <4>. QED
          BY <3>1, <4>1, <4>2 DEF InHand
      <3>2. CASE hand # t
        <4>1. Carriers(t)' = Carriers(t)
          BY <2>1, <3>2, <1>p DEF Carriers, TypeOK
        <4>. QED
          BY <3>2, <4>1, HoldersSum DEF InHand
      <3>. QED
        BY <3>1, <3>2
    <2>. QED
      BY <2>1, <2>2, <2>3, <2>4, <1>s, HoldersSum
  <1>6. CASE TrimIdle
    <2>1. \A i \in 1..TrimCount : readyWorkers[i] \in Workers /\ inbox[readyWorkers[i]] = None
      BY <1>6, TrimCountBounds DEF TrimIdle, PoolInv, ReadyAreWaiting, TypeOK
    <2>2. \A t \in Tasks : Carriers(t)' = Carriers(t)
      BY <1>6, <2>1, <1>p DEF TrimIdle, Carriers, TypeOK
    <2>. QED
      BY <1>6, <2>2, TaskOnceStays DEF TrimIdle
  <1>7. CASE RetireWorker
    <2>1. \A t \in Tasks : Carriers(t)' = Carriers(t)
      BY <1>7, <1>c, ReadyHead DEF RetireWorker, Deliver, PoolInv
    <2>. QED
      BY <1>7, <2>1, TaskOnceStays DEF RetireWorker
  <1>8. ASSUME NEW w \in Workers, Offer(w) PROVE TaskOnce'
    BY <1>8, <1>i, TaskOnceStays DEF Offer
  <1>9. ASSUME NEW w \in Workers, Receive(w) PROVE TaskOnce'
    <2>1. \A t \in Tasks : Carriers(t)' = Carriers(t)
      BY <1>9, <1>c, <1>i DEF Receive
    <2>. QED
      BY <1>9, <2>1, TaskOnceStays DEF Receive
  <1>10. ASSUME NEW w \in Workers, Execute(w) PROVE TaskOnce'
    <2>. SUFFICES ASSUME NEW t \in Tasks
                  PROVE  Holders(t)' + ran'[t] = IF calls'[t] = "sent" THEN 1 ELSE 0
      BY DEF TaskOnce
    <2>1. /\ inbox[w] \in Tasks /\ inbox' = [inbox EXCEPT ![w] = None]
          /\ ran' = [ran EXCEPT ![inbox[w]] = @ + 1] /\ UNCHANGED <<taskQueue, hand, calls>>
      BY <1>10 DEF Execute, PoolInv, InboxShape
    <2>2. Holders(t)' = Cardinality(Queued(taskQueue, t)) + InHand(t)
                           + Cardinality(Carriers(t)')
      BY <2>1 DEF Holders, Queued, InHand, Carriers
    <2>3. CASE inbox[w] = t
      <3>1. Carriers(t)' = Carriers(t) \ {w} /\ w \in Carriers(t)
        BY <2>1, <2>3, <1>p DEF Carriers, TypeOK
      <3>2. Cardinality(Carriers(t) \ {w}) = Cardinality(Carriers(t)) - 1
        BY <3>1, HoldersSum, FS_RemoveElement
      <3>3. ran'[t] = ran[t] + 1
        BY <2>1, <2>3 DEF TypeOK
      <3>. QED
        BY <2>1, <2>2, <3>1, <3>2, <3>3, <1>s, HoldersSum
    <2>4. CASE inbox[w] # t
      <3>1. Carriers(t)' = Carriers(t) /\ ran'[t] = ran[t]
        BY <2>1, <2>4, <1>p DEF Carriers, TypeOK
      <3>. QED
        BY <2>1, <2>2, <3>1, <1>s, HoldersSum
    <2>. QED
      BY <2>3, <2>4
  <1>11. CASE UNCHANGED vars
    BY <1>11, <1>i, TaskOnceStays DEF vars
  <1>. QED
    BY <1>1, <1>2, <1>3, <1>4, <1>5, <1>6, <1>7, <1>8, <1>9, <1>10, <1>11 DEF Next, Dispatch

\* A task that AddTask has accepted is in exactly one place until it has run and
\* runs once at most, however many callers, workers and trims there are
\* (worker_pool.go, AddTask, dispatch and startWorker).
THEOREM TasksRunOnce == Spec => []TaskOnce
  <1>1. Init => HandFree /\ TaskOnce
    <2>. SUFFICES ASSUME Init PROVE HandFree /\ TaskOnce
      OBVIOUS
    <2>1. ASSUME NEW t \in Tasks PROVE Holders(t) + ran[t] = IF calls[t] = "sent" THEN 1 ELSE 0
      <3>1. {i \in 1..Len(taskQueue) : taskQueue[i] = t} = {}
        BY EmptySeq DEF Init
      <3>2. {w \in Workers : inbox[w] = t} = {} /\ hand # t
        BY PoolAssumption DEF Init
      <3>3. Holders(t) = 0
        <4>1. Cardinality({i \in 1..Len(taskQueue) : taskQueue[i] = t}) = 0
          BY <3>1, FS_EmptySet
        <4>2. Cardinality({w \in Workers : inbox[w] = t}) = 0
          BY <3>2, FS_EmptySet
        <4>. QED
          BY <3>2, <4>1, <4>2 DEF Holders
      <3>. QED
        BY <3>3 DEF Init
    <2>. QED
      BY <2>1 DEF Init, HandFree, TaskOnce
  <1>. QED
    BY <1>1, TypeCorrect, PoolInvariant, HandFreeNext, TaskOnceNext, PTL DEF Spec

=============================================================================
