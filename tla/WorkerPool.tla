----------------------------- MODULE WorkerPool -----------------------------
(***************************************************************************)
(* The goroutine pool of netty/utils/worker_pool.go, on which              *)
(* netty/executor.go runs the read handlers of the serial server.          *)
(*                                                                         *)
(* A caller submits each task of Tasks at most once, by AddTask or RunTask *)
(* (RunTask is AddTask followed by a wait for the task to have run).  One  *)
(* goroutine, dispatch, moves tasks from the channel taskQueue to the      *)
(* one-slot channels (inbox) of the workers that have announced themselves *)
(* in the channel readyWorkers, starts workers and retires them.           *)
(*                                                                         *)
(* A step is a channel operation, or one of them together with the local   *)
(* steps that follow it.  "worker := <-readyWorkers; worker <- task" is one *)
(* step because the inbox of a ready worker is empty (ReadyAreWaiting).    *)
(***************************************************************************)
EXTENDS Naturals, Sequences, FiniteSets

CONSTANTS
    Tasks,        \* the functions submitted, each by a goroutine of its own
    Workers,      \* identities of worker goroutines, used again after exit
    TaskCap,      \* capacity of taskQueue
    idleWorkers, maxWorkers,  \* as normalised by NewWorkerPool
    None,         \* nothing in a variable or in an inbox
    Quit          \* the nil task that tells a worker to exit

ASSUME PoolAssumption ==
    /\ IsFiniteSet(Workers)
    /\ None \notin Tasks \cup Workers /\ Quit \notin Tasks \cup {None}
    /\ TaskCap \in Nat \ {0}
    /\ idleWorkers \in Nat \ {0} /\ maxWorkers \in Nat
    /\ idleWorkers <= maxWorkers

VARIABLES
    cancelled,    \* poolCtx is done
    calls,        \* how far AddTask has got for each task
    taskQueue,
    readyWorkers,
    dispatch,     \* where the goroutine dispatch is
    hand,         \* its local variable task
    workerCount,
    worker,       \* where each worker goroutine is
    inbox,        \* the content of each workerChan
    ran           \* how often each task has been executed

vars == <<cancelled, calls, taskQueue, readyWorkers, dispatch, hand,
          workerCount, worker, inbox, ran>>

callers == <<cancelled, calls>>
crew == <<workerCount, worker, inbox>>

\* A worker: "none" not started; "offer" at the send to readyWorkers; "wait"
\* at the receive from its workerChan; "busy" in task().  The task being
\* executed stays in inbox[w], which nobody writes meanwhile.
WorkerStates == {"none", "offer", "wait", "busy"}

DispatchStates == {"select", "assign", "drain", "drainAssign",
                   "retire", "closed"}

\* "new", past the test of poolCtx ("checked"), refused by it, sent to
\* taskQueue, or ended by a send on the closed channel.
CallStates == {"new", "checked", "refused", "sent", "panicked"}

Init ==
    /\ cancelled = FALSE
    /\ calls = [t \in Tasks |-> "new"]
    /\ taskQueue = <<>>
    /\ readyWorkers = <<>>
    /\ dispatch = "select"
    /\ hand = None
    /\ workerCount = 0
    /\ worker = [w \in Workers |-> "none"]
    /\ inbox = [w \in Workers |-> None]
    /\ ran = [t \in Tasks |-> 0]

-----------------------------------------------------------------------------
(***************************************************************************)
(* The callers.                                                            *)
(***************************************************************************)

\* AddTask, the select: a cancelled pool accepts no task.
AddTask(t) ==
    /\ calls[t] = "new"
    /\ calls' = [calls EXCEPT ![t] = IF cancelled THEN "refused" ELSE "checked"]
    /\ UNCHANGED <<cancelled, taskQueue, readyWorkers, dispatch, hand, crew, ran>>

\* AddTask, wp.taskQueue <- task: it blocks while the channel is full and
\* panics once it is closed.
SendTask(t) ==
    /\ calls[t] = "checked"
    /\ \/ /\ dispatch = "closed"
          /\ calls' = [calls EXCEPT ![t] = "panicked"]
          /\ UNCHANGED taskQueue
       \/ /\ dispatch # "closed"
          /\ Len(taskQueue) < TaskCap
          /\ taskQueue' = Append(taskQueue, t)
          /\ calls' = [calls EXCEPT ![t] = "sent"]
    /\ UNCHANGED <<cancelled, readyWorkers, dispatch, hand, crew, ran>>

\* Stop, also the first half of StopWait; the second half waits until
\* dispatch = "closed" or for a timeout.
Stop ==
    /\ ~ cancelled
    /\ cancelled' = TRUE
    /\ UNCHANGED <<calls, taskQueue, readyWorkers, dispatch, hand, crew, ran>>

-----------------------------------------------------------------------------
(***************************************************************************)
(* The goroutine dispatch.                                                 *)
(***************************************************************************)

\* Receives a ready worker and puts x into its inbox.
Deliver(x) ==
    /\ readyWorkers # <<>>
    /\ inbox' = [inbox EXCEPT ![Head(readyWorkers)] = x]
    /\ readyWorkers' = Tail(readyWorkers)

\* A plausible slip: the number of workers is not recorded.
startWorkerUncounted ==
    \E w \in Workers :
        /\ worker[w] = "none"
        /\ worker' = [worker EXCEPT ![w] = "offer"]
        /\ UNCHANGED workerCount

\* startWorker and workerCount++.
startWorker ==
    \E w \in Workers :
        /\ worker[w] = "none"
        /\ worker' = [worker EXCEPT ![w] = "offer"]
        /\ workerCount' = workerCount + 1

\* A plausible slip: no worker is started for the task.
TakeTaskNoStart ==
    /\ dispatch = "select"
    /\ taskQueue # <<>>
    /\ hand' = Head(taskQueue)
    /\ taskQueue' = Tail(taskQueue)
    /\ dispatch' = "assign"
    /\ UNCHANGED <<callers, readyWorkers, workerCount, worker, inbox, ran>>

\* case task := <-wp.taskQueue, with the start of a worker if none is ready
\* and the limit is not reached.
TakeTask ==
    /\ dispatch = "select"
    /\ taskQueue # <<>>
    /\ hand' = Head(taskQueue)
    /\ taskQueue' = Tail(taskQueue)
    /\ dispatch' = "assign"
    /\ IF readyWorkers = <<>> /\ workerCount < maxWorkers
       THEN startWorker
       ELSE UNCHANGED <<workerCount, worker>>
    /\ UNCHANGED <<callers, readyWorkers, inbox, ran>>

\* A plausible slip: the receive of a worker does not wait for one, as in the
\* branch of the check timer, and a task without a ready worker is lost.
AssignOrDrop ==
    /\ dispatch \in {"assign", "drainAssign"}
    /\ IF readyWorkers = <<>> THEN UNCHANGED <<readyWorkers, inbox>> ELSE Deliver(hand)
    /\ hand' = None
    /\ dispatch' = IF dispatch = "assign" THEN "select" ELSE "drain"
    /\ UNCHANGED <<callers, taskQueue, workerCount, worker, ran>>

\* worker := <-wp.readyWorkers; worker <- task, in both loops.
Assign ==
    /\ dispatch \in {"assign", "drainAssign"}
    /\ Deliver(hand)
    /\ hand' = None
    /\ dispatch' = IF dispatch = "assign" THEN "select" ELSE "drain"
    /\ UNCHANGED <<callers, taskQueue, workerCount, worker, ran>>

\* How many workers one round of the check timer retires: those above
\* idleWorkers, as far as they are ready.
TrimCount == LET excess == workerCount - idleWorkers
             IN  IF excess < Len(readyWorkers) THEN excess ELSE Len(readyWorkers)

\* case <-checkTimer.C: that many ready workers are told to exit.
TrimIdle ==
    /\ dispatch = "select"
    /\ workerCount > idleWorkers
    /\ readyWorkers # <<>>
    /\ LET told == {readyWorkers[i] : i \in 1..TrimCount}
       IN  inbox' = [w \in Workers |-> IF w \in told THEN Quit ELSE inbox[w]]
    /\ readyWorkers' = SubSeq(readyWorkers, TrimCount + 1, Len(readyWorkers))
    /\ workerCount' = workerCount - TrimCount
    /\ UNCHANGED <<callers, taskQueue, dispatch, hand, worker, ran>>

\* case <-wp.poolCtx.Done().
BeginDrain ==
    /\ dispatch = "select"
    /\ cancelled
    /\ dispatch' = "drain"
    /\ UNCHANGED <<callers, taskQueue, readyWorkers, hand, crew, ran>>

\* for len(wp.taskQueue) > 0: no worker is started in this loop.
DrainTask ==
    /\ dispatch = "drain"
    /\ taskQueue # <<>>
    /\ hand' = Head(taskQueue)
    /\ taskQueue' = Tail(taskQueue)
    /\ dispatch' = "drainAssign"
    /\ UNCHANGED <<callers, readyWorkers, crew, ran>>

\* for workerCount > 0: entered when the queue was found empty, so tasks sent
\* from here on stay in it.
BeginRetire ==
    /\ dispatch = "drain"
    /\ taskQueue = <<>>
    /\ dispatch' = "retire"
    /\ UNCHANGED <<callers, taskQueue, readyWorkers, hand, crew, ran>>

\* A plausible slip: the retired worker is not subtracted.
RetireWorkerUncounted ==
    /\ dispatch = "retire"
    /\ workerCount > 0
    /\ Deliver(Quit)
    /\ UNCHANGED <<callers, taskQueue, dispatch, hand, workerCount, worker, ran>>

RetireWorker ==
    /\ dispatch = "retire"
    /\ workerCount > 0
    /\ Deliver(Quit)
    /\ workerCount' = workerCount - 1
    /\ UNCHANGED <<callers, taskQueue, dispatch, hand, worker, ran>>

\* A plausible slip: the channels are closed when the last task has been
\* handed out, while workers are still on their way to readyWorkers.
CloseEarly ==
    /\ dispatch = "retire"
    /\ dispatch' = "closed"
    /\ UNCHANGED <<callers, taskQueue, readyWorkers, hand, crew, ran>>

\* close(readyWorkers), close(taskQueue), close(closedSignal).
Close ==
    /\ dispatch = "retire"
    /\ workerCount = 0
    /\ dispatch' = "closed"
    /\ UNCHANGED <<callers, taskQueue, readyWorkers, hand, crew, ran>>

-----------------------------------------------------------------------------
(***************************************************************************)
(* The worker goroutines (startWorker).                                    *)
(***************************************************************************)

\* wp.readyWorkers <- workerChan, a channel of capacity idleWorkers.
Offer(w) ==
    /\ worker[w] = "offer"
    /\ Len(readyWorkers) < idleWorkers
    /\ readyWorkers' = Append(readyWorkers, w)
    /\ worker' = [worker EXCEPT ![w] = "wait"]
    /\ UNCHANGED <<callers, taskQueue, dispatch, hand, workerCount, inbox, ran>>

\* A plausible slip: the worker offers itself before it runs the task.
ReceiveOffersEarly(w) ==
    /\ worker[w] = "wait"
    /\ \/ /\ inbox[w] \in Tasks
          /\ Len(readyWorkers) < idleWorkers
          /\ readyWorkers' = Append(readyWorkers, w)
          /\ worker' = [worker EXCEPT ![w] = "busy"]
          /\ UNCHANGED inbox
       \/ /\ inbox[w] = Quit
          /\ worker' = [worker EXCEPT ![w] = "none"]
          /\ inbox' = [inbox EXCEPT ![w] = None]
          /\ UNCHANGED readyWorkers
    /\ UNCHANGED <<callers, taskQueue, dispatch, hand, workerCount, ran>>

\* task := <-workerChan; a nil task ends the goroutine.
Receive(w) ==
    /\ worker[w] = "wait"
    /\ \/ /\ inbox[w] \in Tasks
          /\ worker' = [worker EXCEPT ![w] = "busy"]
          /\ UNCHANGED inbox
       \/ /\ inbox[w] = Quit
          /\ worker' = [worker EXCEPT ![w] = "none"]
          /\ inbox' = [inbox EXCEPT ![w] = None]
    /\ UNCHANGED <<callers, taskQueue, readyWorkers, dispatch, hand,
                   workerCount, ran>>

\* task() returns.
Execute(w) ==
    /\ worker[w] = "busy"
    /\ ran' = [ran EXCEPT ![inbox[w]] = @ + 1]
    /\ worker' = [worker EXCEPT ![w] = "offer"]
    /\ inbox' = [inbox EXCEPT ![w] = None]
    /\ UNCHANGED <<callers, taskQueue, readyWorkers, dispatch, hand,
                   workerCount>>

-----------------------------------------------------------------------------
Dispatch == TakeTask \/ Assign \/ TrimIdle \/ BeginDrain \/ DrainTask
                \/ BeginRetire \/ RetireWorker \/ Close

Next ==
    \/ \E t \in Tasks : AddTask(t) \/ SendTask(t)
    \/ Stop
    \/ Dispatch
    \/ \E w \in Workers : Offer(w) \/ Receive(w) \/ Execute(w)

Spec == Init /\ [][Next]_vars

\* Goroutines that can run do run, a blocked send or receive on a channel is
\* served in its turn, and every task returns.  BeginDrain has a fairness of
\* its own because select picks at random among the cases that are ready.
\* Nothing obliges a caller to submit a task or to stop the pool.
Fairness ==
    /\ WF_vars(Dispatch) /\ WF_vars(BeginDrain)
    /\ \A w \in Workers : WF_vars(Receive(w)) /\ WF_vars(Execute(w))
                              /\ SF_vars(Offer(w))
    /\ \A t \in Tasks : SF_vars(SendTask(t))

FairSpec == Spec /\ Fairness

-----------------------------------------------------------------------------
(***************************************************************************)
(* Properties.                                                             *)
(***************************************************************************)

\* Workers dispatch counts on: started and not told to exit.
Live == {w \in Workers : worker[w] # "none" /\ inbox[w] # Quit}

\* The variables keep their types, and the channels their capacities.
TypeOK ==
    /\ cancelled \in BOOLEAN
    /\ calls \in [Tasks -> CallStates]
    /\ taskQueue \in Seq(Tasks) /\ Len(taskQueue) <= TaskCap
    /\ readyWorkers \in Seq(Workers) /\ Len(readyWorkers) <= idleWorkers
    /\ dispatch \in DispatchStates
    /\ hand \in Tasks \cup {None}
    /\ workerCount \in Nat
    /\ worker \in [Workers -> WorkerStates]
    /\ inbox \in [Workers -> Tasks \cup {None, Quit}]
    /\ ran \in [Tasks -> Nat]

\* workerCount, a local variable of dispatch that the workers never touch, is
\* the number of workers alive and not told to exit, and never exceeds
\* maxWorkers: starting, trimming and retiring workers keep it exact.
WorkersCounted == workerCount = Cardinality(Live) /\ workerCount <= maxWorkers

\* A worker in readyWorkers is there once, is blocked in the receive from its
\* channel and the channel is empty: the sends "worker <- task" and
\* "worker <- nil" of dispatch never block.
ReadyAreWaiting ==
    \A i \in 1..Len(readyWorkers) :
        /\ worker[readyWorkers[i]] = "wait" /\ inbox[readyWorkers[i]] = None
        /\ \A j \in 1..Len(readyWorkers) :
              readyWorkers[i] = readyWorkers[j] => i = j

\* The inductive invariant behind WorkersCounted and CloseIsSafe: what the
\* inbox of a worker can hold in each of its states, the shape of
\* readyWorkers, the exact count, and that the pool closes without workers.
InboxShape ==
    \A w \in Workers :
        /\ worker[w] \in {"none", "offer"} => inbox[w] = None
        /\ worker[w] = "busy" => inbox[w] \in Tasks

PoolInv ==
    /\ InboxShape
    /\ ReadyAreWaiting
    /\ WorkersCounted
    /\ dispatch = "closed" => workerCount = 0

\* The places that hold task t, and the times it has run.
Holders(t) ==
    Cardinality({i \in 1..Len(taskQueue) : taskQueue[i] = t})
    + (IF hand = t THEN 1 ELSE 0)
    + Cardinality({w \in Workers : inbox[w] = t})

\* A task accepted by AddTask is in exactly one place until it has run, and
\* runs at most once; a task that was refused is nowhere.
TaskOnce ==
    \A t \in Tasks : Holders(t) + ran[t] = IF calls[t] = "sent" THEN 1 ELSE 0

\* worker_pool.go:199 closes readyWorkers "safely": no worker is left that
\* could still send to it, which would panic and end the process.
CloseIsSafe ==
    dispatch = "closed" =>
        \A w \in Workers : worker[w] = "none"
                              \/ (worker[w] = "wait" /\ inbox[w] = Quit)

\* Unless the pool is stopped, a task that was sent is executed, so RunTask
\* returns, with fewer workers than tasks and with workers being trimmed.
SentTasksRun == \A t \in Tasks : (calls[t] = "sent") ~> (ran[t] = 1 \/ cancelled)

\* A pool that is stopped when it has a worker closes: the queue is drained,
\* the workers are retired and StopWait returns.
StopWithWorkerCloses == (cancelled /\ workerCount > 0) ~> (dispatch = "closed")

\* worker_pool.go:182 and 99: after Stop the remaining tasks are executed and
\* the pool closes; also the task of a caller who had passed the test of
\* AddTask before Stop and sends it afterwards.
StopDrains == cancelled ~> (dispatch = "closed")

\* worker_pool.go:199: when all workers have left, the channels can be closed
\* safely, so no AddTask sends on a closed channel.
NoSendOnClosed == \A t \in Tasks : calls[t] # "panicked"

=============================================================================
