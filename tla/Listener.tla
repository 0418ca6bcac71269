----------------------------- MODULE Listener -----------------------------
(***************************************************************************)
(* The listening side of a bootstrap over TCP: Listen, Stop and the accept *)
(* loop of netty/bootstrap.go with the factory of netty/transport/tcp,     *)
(* which is at once the factory, the acceptor and the holder of the one    *)
(* listener.  One goroutine calls Listen and Stop; every Listen starts an  *)
(* accept loop of its own, and the loops read b.acceptor and f.listener    *)
(* without a lock.  The connections come from the network.                 *)
(***************************************************************************)
EXTENDS Naturals

CONSTANTS Conns,         \* connections the network may bring
          MaxListens     \* bound: calls of Listen, and so listeners and loops

ASSUME ListenAssumption == MaxListens \in Nat

Listens == 1..MaxListens
None    == 0

VARIABLES sockets,       \* state of the listener each Listen has opened
          held,          \* f.listener: the listener of the factory, or None
          acceptor,      \* b.acceptor is set (to the factory)
          cancelled,     \* the context of the bootstrap is done
          caller,        \* where the goroutine that listens and stops is
          listens,       \* calls of Listen so far
          loop,          \* where each accept loop is
          taken,         \* the listener or the connection a loop works on
          conn,          \* state of each connection
          crashed,       \* a goroutine has panicked outside any recover
          failed         \* an accept has failed although its listener is open

lsnVars == <<sockets, held, acceptor, cancelled, caller, listens, loop, taken, conn, crashed, failed>>

LsnInit == /\ sockets = [l \in Listens |-> "none"]
           /\ held = None
           /\ acceptor = FALSE
           /\ cancelled = FALSE
           /\ caller = "idle"
           /\ listens = 0
           /\ loop = [l \in Listens |-> "none"]
           /\ taken = [l \in Listens |-> None]
           /\ conn = [c \in Conns |-> <<"new", None>>]
           /\ crashed = FALSE
           /\ failed = FALSE

(***************************************************************************)
(* The caller                                                              *)
(***************************************************************************)
(* tcpFactory.Close: the listener, if any, and the connections that wait   *)
(* in its queue are closed, and the field is cleared.                      *)
FactoryClose == /\ sockets' = [l \in Listens |-> IF l = held THEN "closed" ELSE sockets[l]]
                /\ conn' = [c \in Conns |-> IF held # None /\ conn[c] = <<"queued", held>>
                                            THEN <<"closed", None>> ELSE conn[c]]
                /\ held' = None

(* Listen begins in tcpFactory.Listen: close the old listener ...          *)
BeginListen == /\ caller = "idle" /\ listens < MaxListens
               /\ listens' = listens + 1
               /\ caller' = "bind"
               /\ FactoryClose
               /\ UNCHANGED <<acceptor, cancelled, loop, taken, crashed, failed>>

(* ... and open the new one, or panic in Assert, which leaves nothing open.*)
Bind == /\ caller = "bind"
        /\ \/ /\ caller' = "swap"
              /\ sockets' = [sockets EXCEPT ![listens] = "open"]
              /\ held' = listens
           \/ caller' = "idle" /\ UNCHANGED <<sockets, held>>
        /\ UNCHANGED <<acceptor, cancelled, listens, loop, taken, conn, crashed, failed>>

(* A slip of stopListener: the acceptor is forgotten and not closed.       *)
stopListenerForgets(from, to) ==
    /\ caller = from
    /\ caller' = to
    /\ UNCHANGED <<sockets, held, conn, acceptor, cancelled, listens, loop, taken, crashed, failed>>

(* stopListener, in createListener or in Stop.  The acceptor is the factory*)
(* itself, so in createListener its Close hits the new listener.           *)
stopListener(from, to) ==
    /\ caller = from
    /\ caller' = to
    /\ IF acceptor THEN FactoryClose ELSE UNCHANGED <<sockets, held, conn>>
    /\ UNCHANGED <<acceptor, cancelled, listens, loop, taken, crashed, failed>>

ClearAcceptor(from, to) ==
    /\ caller = from
    /\ caller' = to
    /\ acceptor' = FALSE
    /\ UNCHANGED <<sockets, held, cancelled, listens, loop, taken, conn, crashed, failed>>

(* b.acceptor = l, then startListener starts the loop.                     *)
startListener == /\ caller = "start"
                 /\ caller' = "idle"
                 /\ acceptor' = TRUE
                 /\ loop' = [loop EXCEPT ![listens] = "top"]
                 /\ UNCHANGED <<sockets, held, cancelled, listens, taken, conn, crashed, failed>>

BeginStop == /\ caller = "idle" /\ ~cancelled
             /\ caller' = "stop"
             /\ UNCHANGED <<sockets, held, acceptor, cancelled, listens, loop, taken, conn, crashed, failed>>

bootstrapCancel == /\ caller = "cancel"
                   /\ caller' = "idle"
                   /\ cancelled' = TRUE
                   /\ UNCHANGED <<sockets, held, acceptor, listens, loop, taken, conn, crashed, failed>>

Caller == \/ Bind \/ startListener \/ bootstrapCancel
          \/ stopListener("swap", "swapped") \/ ClearAcceptor("swapped", "start")
          \/ stopListener("stop", "stopped") \/ ClearAcceptor("stopped", "cancel")

(***************************************************************************)
(* The accept loops                                                        *)
(***************************************************************************)
LoopAt(l, at, what) == /\ loop' = [loop EXCEPT ![l] = at]
                     /\ taken' = [taken EXCEPT ![l] = what]
                     /\ UNCHANGED <<sockets, held, acceptor, cancelled, caller, listens>>

(* b.acceptor.Accept(): a nil acceptor is a nil dereference in a goroutine *)
(* without recover; a factory without a listener returns an error.         *)
CallAccept(l) == /\ loop[l] = "top"
                 /\ LoopAt(l, IF ~acceptor \/ held = None THEN "end" ELSE "accept", held)
                 /\ crashed' = (crashed \/ ~acceptor)
                 /\ UNCHANGED <<conn, failed>>

(* AcceptTCP returns a connection of the queue.                            *)
AcceptTCP(l) == /\ loop[l] = "accept" /\ sockets[taken[l]] = "open"
                /\ \E c \in Conns :
                      /\ conn[c] = <<"queued", taken[l]>>
                      /\ conn' = [conn EXCEPT ![c] = <<"held", l>>]
                /\ LoopAt(l, "got", None)
                /\ UNCHANGED <<crashed, failed>>

(* It fails: the listener was closed, the system is out of descriptors, or *)
(* applyOptions fails on the new connection.  Any error ends the loop.     *)
AcceptFails(l) == /\ loop[l] = "accept"
                  /\ LoopAt(l, "end", None)
                  /\ failed' = (failed \/ sockets[taken[l]] = "open")
                  /\ UNCHANGED <<conn, crashed>>

(* The select on the context: a connection accepted too late is closed.    *)
TestContext(l) == /\ loop[l] = "got"
                  /\ LoopAt(l, IF cancelled THEN "end" ELSE "serve", None)
                  /\ conn' = [c \in Conns |-> IF cancelled /\ conn[c] = <<"held", l>>
                                              THEN <<"closed", None>> ELSE conn[c]]
                  /\ UNCHANGED <<crashed, failed>>

(* A slip of the loop: it ends after the first connection.                 *)
serveTransportOnce(l) == /\ loop[l] = "serve"
                         /\ conn' = [c \in Conns |-> IF conn[c] = <<"held", l>> THEN <<"served", None>> ELSE conn[c]]
                         /\ LoopAt(l, "end", None)
                         /\ UNCHANGED <<crashed, failed>>

(* serveTransport: the channel is created and its loops started.           *)
serveTransport(l) == /\ loop[l] = "serve"
                     /\ conn' = [c \in Conns |-> IF conn[c] = <<"held", l>> THEN <<"served", None>> ELSE conn[c]]
                     /\ LoopAt(l, "top", None)
                     /\ UNCHANGED <<crashed, failed>>

AcceptLoop(l) == CallAccept(l) \/ AcceptTCP(l) \/ TestContext(l) \/ serveTransport(l)

(* The network connects to an open listener.                               *)
Connect(c) == /\ conn[c] = <<"new", None>>
              /\ \E l \in Listens : sockets[l] = "open" /\ conn' = [conn EXCEPT ![c] = <<"queued", l>>]
              /\ UNCHANGED <<sockets, held, acceptor, cancelled, caller, listens, loop, taken, crashed, failed>>

LsnNext == /\ ~crashed
           /\ \/ BeginListen \/ BeginStop \/ Caller
              \/ \E l \in Listens : AcceptLoop(l) \/ AcceptFails(l)
              \/ \E c \in Conns : Connect(c)

(* A closed listener wakes its Accept, and the goroutines are scheduled.   *)
WokenByClose(l) == AcceptFails(l) /\ sockets[taken[l]] = "closed"

LsnSpec == LsnInit /\ [][LsnNext]_lsnVars

(***************************************************************************)
(* Properties                                                              *)
(***************************************************************************)
(* Loop k is going to accept from listener l, or to look which one there is. *)
Attends(k, l) == loop[k] \in {"top", "got", "serve"} \/ (loop[k] = "accept" /\ taken[k] = l)

(* No listener is left unattended: until the bootstrap is cancelled, and   *)
(* unless an accept has failed, an open listener has a loop that is going  *)
(* to accept from it, or the caller is on the way to start one.  A         *)
(* connection in its queue is then never forgotten.                        *)
Attended == \A l \in Listens :
               sockets[l] = "open" /\ ~failed /\ ~crashed /\ ~cancelled =>
                  \/ caller \in {"swap", "swapped", "start", "stop"}
                  \/ \E k \in Listens : Attends(k, l)

(* Stop ends the accept loops: once the bootstrap is stopped and stays so, *)
(* every loop ends and no connection stays accepted but not served, unless *)
(* the process has crashed on the acceptor that Stop cleared.              *)
StopEndsLoops ==
    LET Stopped == cancelled /\ caller = "idle" /\ ~acceptor /\ listens = MaxListens
    IN []<>(\/ ~Stopped \/ crashed
            \/ /\ \A l \in Listens : loop[l] \in {"none", "end"}
               /\ \A c \in Conns : conn[c][1] # "held")

(***************************************************************************)
(* The inductive invariant of Attended                                     *)
(***************************************************************************)
LsnTypeOK == /\ sockets \in [Listens -> {"none", "open", "closed"}]
             /\ held \in Listens \cup {None} /\ listens \in Listens \cup {None}
             /\ caller \in {"idle", "bind", "swap", "swapped", "start", "stop", "stopped", "cancel"}
             /\ loop \in [Listens -> {"none", "top", "accept", "got", "serve", "end"}]
             /\ taken \in [Listens -> Listens \cup {None}]

(* The factory holds the one listener that is open, none while a new one   *)
(* is bound or once Stop has closed it, and after a Listen the bootstrap   *)
(* knows the factory as its acceptor.                                      *)
OneListener == /\ \A l \in Listens : sockets[l] = "open" <=> held = l
               /\ caller \in {"bind", "stopped", "cancel"} => held = None
               /\ caller \in {"idle", "stop"} /\ held # None => acceptor
               /\ caller \in {"bind", "swap", "swapped", "start"} => listens \in Listens

(* Also while Stop is about to close it.                                   *)
HeldAttended == held # None /\ caller \in {"idle", "stop"} /\ ~failed /\ ~crashed /\ ~cancelled
                   => \E k \in Listens : Attends(k, held)

LsnInv == LsnTypeOK /\ OneListener /\ HeldAttended
=============================================================================
