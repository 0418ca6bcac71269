----------------------------- MODULE Pipeline -----------------------------
(***************************************************************************)
(* The handler pipeline of a channel: netty/pipeline.go, the contexts of   *)
(* netty/context.go that form its doubly linked list, and the insertion of *)
(* the executor by bootstrap.serveChannel.  An initializer adds handlers;  *)
(* then the channel is served and the pipeline carries events along next   *)
(* or along prev to the handlers that implement their interface.  The      *)
(* loops of the channel fire at the head or the tail; what a handler       *)
(* writes, closes or triggers starts at its own context.  A walk only      *)
(* reads the links, so events are carried one at a time.                   *)
(***************************************************************************)
EXTENDS Integers, Sequences, SequencesExt

CONSTANTS Types,         \* types of handlers an initializer may add
          Implements,    \* interfaces of each type, "executor" included
          MaxHandlers,   \* bound: contexts between head and tail
          MaxGroup       \* bound: handlers of one call

(* The head and the tail are of types of their own, and so is the executor *)
(* that the bootstrap adds.                                                *)
ASSUME PipeAssumption == /\ {"head", "tail", "executor"} \cap Types = {}
                         /\ MaxHandlers \in Nat /\ MaxGroup \in Nat

VARIABLES pipe,          \* the linked contexts: next, prev, type and size
          pipeStage,     \* "filling", "served", "panic" or "closed"
          called,        \* history: the last call that filled or served
          event,         \* the event under way: its interface, start, cursor
                         \* and who has seen it
          unhandled      \* an exception that every handler has passed on

pipeVars == <<pipe, pipeStage, called, event, unhandled>>

HeadCtx == 0
TailCtx == 1
NilCtx  == -1

Forward  == {"active", "read", "exception", "event"}
Backward == {"write", "inactive"}

(* A type is a codec if it also has CodecName and handles both directions: *)
(* the handlers of this program have one too.                              *)
Codecs == {t \in Types : {"codec", "read", "write"} \subseteq Implements[t]}

(* Argument lists of one call.                                             *)
Groups == UNION {[1..n -> Types] : n \in 1..MaxGroup}

(* checkHandler: a value that implements no interface is refused.          *)
checkHandler(t) == Implements[t] \cap (Forward \cup Backward) # {}

(* A walk that begins at context n, and no walk.                           *)
WalkFrom(n, kind) == [kind |-> kind, from |-> n, at |-> n, seen |-> <<>>]

NoEvent == WalkFrom(NilCtx, "none")

Calling(op, pos, hs) == [op |-> op, pos |-> pos, hs |-> hs]

PipeInit == /\ pipe = [next |-> [c \in 0..1 |-> IF c = HeadCtx THEN TailCtx ELSE NilCtx],
                       prev |-> [c \in 0..1 |-> IF c = TailCtx THEN HeadCtx ELSE NilCtx],
                       type |-> [c \in 0..1 |-> IF c = HeadCtx THEN "head" ELSE "tail"],
                       size |-> 2]
            /\ pipeStage = "filling" /\ called = Calling("none", 0, <<>>)
            /\ event = NoEvent
            /\ unhandled = FALSE

(***************************************************************************)
(* Filling                                                                 *)
(***************************************************************************)
(* Link a new context for t behind context n: the context gets both its    *)
(* links, n a new next, and the old next of n a new prev.                  *)
Link(p, n, t) ==
    LET new == p.size
        old == p.next[n]
    IN [next |-> [c \in 0..new |-> IF c = n THEN new ELSE IF c = new THEN old ELSE p.next[c]],
        prev |-> [c \in 0..new |-> IF c = old THEN new ELSE IF c = new THEN n ELSE p.prev[c]],
        type |-> [c \in 0..new |-> IF c = new THEN t ELSE p.type[c]],
        size |-> new + 1]

(* addFirst links behind the head, addLast behind the prev of the tail.    *)
addFirst(p, t) == Link(p, HeadCtx, t)
addLast(p, t)  == Link(p, p.prev[TailCtx], t)

(* The loops over the handlers of a call: each in front of the one before, *)
(* each at the end, or (AddHandler) each behind the one before, the first  *)
(* of them behind context n.                                               *)
AllFirst(p, hs) ==
    LET q[i \in 0..Len(hs)] == IF i = 0 THEN p ELSE addFirst(q[i - 1], hs[i])
    IN q[Len(hs)]

AllLast(p, hs) ==
    LET q[i \in 0..Len(hs)] == IF i = 0 THEN p ELSE addLast(q[i - 1], hs[i])
    IN q[Len(hs)]

(* A slip of the last: the cursor stays where it was.                      *)
InsertAllStill(p, n, hs) ==
    LET q[i \in 0..Len(hs)] == IF i = 0 THEN p ELSE Link(q[i - 1], n, hs[i])
    IN q[Len(hs)]

InsertAll(p, n, hs) ==
    LET q[i \in 0..Len(hs)] ==
            IF i = 0 THEN p ELSE Link(q[i - 1], IF i = 1 THEN n ELSE q[i - 1].size - 1, hs[i])
    IN q[Len(hs)]

(* So many steps along the links, from context n.                          *)
Along(link, n, steps) ==
    LET at[i \in 0..steps] == IF i = 0 THEN n ELSE link[at[i - 1]]
    IN at[steps]

(* The context at a position, counted along next from the head.            *)
ContextAt(p, pos) == Along(p.next, HeadCtx, pos)

(* LastIndexOf counts down from size - 1 while it walks prev from the tail.*)
LastIndexOf(p, T) ==
    LET hits == {i \in 0..p.size - 1 : p.type[Along(p.prev, TailCtx, i)] \in T}
    IN IF hits = {} THEN -1 ELSE p.size - 1 - CHOOSE i \in hits : \A j \in hits : i <= j

Room(hs) == pipeStage = "filling" /\ pipe.size - 2 + Len(hs) <= MaxHandlers

(* AddFirst and AddLast test and link one handler after the other, so the  *)
(* handlers before a refused one stay linked when the call panics.         *)
AllFine(hs) == \A i \in 1..Len(hs) : checkHandler(hs[i])
Accepted(hs) == SubSeq(hs, 1, CHOOSE n \in 0..Len(hs) : /\ \A i \in 1..n : checkHandler(hs[i])
                                                        /\ n < Len(hs) => ~checkHandler(hs[n + 1]))
Filled(fine) == pipeStage' = IF fine THEN "filling" ELSE "panic"

AddFirst(hs) == /\ Room(hs)
                /\ pipe' = AllFirst(pipe, Accepted(hs))
                /\ called' = Calling("AddFirst", 0, hs)
                /\ Filled(AllFine(hs))
                /\ UNCHANGED <<event, unhandled>>

AddLast(hs) == /\ Room(hs)
               /\ pipe' = AllLast(pipe, Accepted(hs))
               /\ called' = Calling("AddLast", 0, hs)
               /\ Filled(AllFine(hs))
               /\ UNCHANGED <<event, unhandled>>

(* AddHandler tests every handler and the position first.  -1 and the      *)
(* position of the tail mean the end; any other is inserted behind.        *)
AddHandler(pos, hs) ==
    LET legal == pos < pipe.size /\ AllFine(hs)
        atEnd == pos = -1 \/ pos = pipe.size - 1
    IN /\ Room(hs)
       /\ Filled(legal)
       /\ called' = Calling("AddHandler", pos, hs)
       /\ pipe' = IF ~legal THEN pipe
                  ELSE IF atEnd THEN AllLast(pipe, hs)
                  ELSE InsertAll(pipe, ContextAt(pipe, pos), hs)
       /\ UNCHANGED <<event, unhandled>>

(***************************************************************************)
(* Serving                                                                 *)
(***************************************************************************)
(* The end at which the channel fires, and what it fires.                  *)
Outset(kind) == IF kind \in Forward THEN HeadCtx ELSE TailCtx
Fired(kind)  == WalkFrom(Outset(kind), kind)

(* serveChannel of the bootstrap: with an executor, it goes directly       *)
(* behind the last codec, and a pipeline without a codec is an assertion   *)
(* failure; then the active event is fired.                                *)
ServePipe(executor) ==
    LET pos == LastIndexOf(pipe, Codecs)
    IN /\ pipeStage = "filling"
       /\ IF executor /\ pos = -1
            THEN pipeStage' = "panic" /\ UNCHANGED <<pipe, event>>
            ELSE /\ pipeStage' = "served"
                 /\ pipe' = IF ~executor THEN pipe
                            ELSE InsertAll(pipe, ContextAt(pipe, pos), <<"executor">>)
                 /\ event' = Fired("active")
       /\ called' = Calling(IF executor THEN "serve with executor" ELSE "serve", 0, <<>>)
       /\ UNCHANGED unhandled

Quiet == pipeStage = "served" /\ event.kind = "none"

(* The read loop fires what it has read; a recovered panic is fired as an  *)
(* exception, and Close as inactive.                                       *)
FireEvent(kind) == /\ Quiet
                   /\ event' = Fired(kind)
                   /\ unhandled' = (kind = "exception")
                   /\ UNCHANGED <<pipe, pipeStage, called>>

(* Write, Close and Trigger of the context of a handler, which it has kept *)
(* or handed out since it became active, or uses while it handles an       *)
(* event.                                                                  *)
FireFrom(n, kind) == /\ Quiet
                     /\ n \in 2..pipe.size - 1
                     /\ event' = WalkFrom(n, kind)
                     /\ UNCHANGED <<pipe, pipeStage, called, unhandled>>

Takes(p, n, kind) ==
    CASE p.type[n] = "head" -> kind \in {"active", "read", "write", "exception", "inactive"}
      [] p.type[n] = "tail" -> kind \in {"exception", "inactive", "write"}
      [] OTHER              -> kind \in Implements[p.type[n]]

(* The context so many steps onward from the one an event is at.           *)
Onward(p, e, steps) == Along(IF e.kind \in Forward THEN p.next ELSE p.prev, e.at, steps)

(* The loop ends at a context that takes the event or behind the last one. *)
Stops(p, e, steps) == LET n == Onward(p, e, steps) IN n = NilCtx \/ Takes(p, n, e.kind)

(* A slip of that loop: the neighbour is stepped over before the test.     *)
SearchPast(p, e) ==
    IF Onward(p, e, 1) = NilCtx THEN NilCtx ELSE IF Stops(p, e, 2) THEN Onward(p, e, 2) ELSE NilCtx

(* The loop of a handlerContext method: the first context on the way that  *)
(* implements the interface.                                               *)
Search(p, e) == Onward(p, e, CHOOSE i \in 1..p.size : Stops(p, e, i) /\ \A j \in 1..i - 1 : ~Stops(p, e, j))

(* The handler found runs.  One of the program passes the event on or      *)
(* keeps it.                                                               *)
Found(n) == pipeStage = "served" /\ event.kind # "none" /\ n = Search(pipe, event)

AtHandler(n) ==
    /\ Found(n) /\ n \notin {HeadCtx, TailCtx, NilCtx}
    /\ \/ event' = [event EXCEPT !.at = n, !.seen = Append(@, n)] /\ UNCHANGED unhandled
       \/ event' = NoEvent /\ unhandled' = FALSE
    /\ UNCHANGED <<pipe, pipeStage, called>>

(* The tail turns an exception into ctx.Close of its own context.          *)
AtTail == /\ Found(TailCtx)
          /\ event' = Fired("inactive")
          /\ UNCHANGED <<pipe, pipeStage, called, unhandled>>

(* The head hands a write to the channel and answers inactive by a close.  *)
AtHead == /\ Found(HeadCtx)
          /\ event' = NoEvent
          /\ pipeStage' = IF event.kind = "inactive" THEN "closed" ELSE "served"
          /\ UNCHANGED <<pipe, called, unhandled>>

(* No context on the way takes the event: it is over.                      *)
AtNobody == /\ Found(NilCtx)
            /\ event' = NoEvent
            /\ UNCHANGED <<pipe, pipeStage, called, unhandled>>

PipeDone == pipeStage \in {"panic", "closed"} /\ UNCHANGED pipeVars

PipeNext == \/ \E hs \in Groups : AddFirst(hs) \/ AddLast(hs) \/ \E pos \in -1..pipe.size : AddHandler(pos, hs)
            \/ \E executor \in BOOLEAN : ServePipe(executor)
            \/ \E kind \in {"read", "exception", "inactive"} : FireEvent(kind)
            \/ \E kind \in {"write", "inactive", "event"}, n \in 2..pipe.size - 1 : FireFrom(n, kind)
            \/ \E n \in 2..pipe.size : AtHandler(n)
            \/ AtTail \/ AtHead \/ AtNobody
            \/ PipeDone

PipeSpec == PipeInit /\ [][PipeNext]_pipeVars

(***************************************************************************)
(* Properties                                                              *)
(***************************************************************************)
(* The position of a context, and the order in which an event meets two.   *)
Position(p, n) == CHOOSE i \in 0..p.size - 1 : ContextAt(p, i) = n
Before(p, kind, m, n) == IF kind \in Forward THEN Position(p, m) < Position(p, n)
                                             ELSE Position(p, n) < Position(p, m)

(* The handlers behind the start of an event that take it and are not      *)
(* behind its cursor.                                                      *)
Due(p, kind, from, at) ==
    {n \in 2..p.size - 1 : /\ Takes(p, n, kind)
                           /\ Before(p, kind, from, n)
                           /\ n = at \/ Before(p, kind, n, at)}

SeenByAll(p, e) ==
    /\ ToSet(e.seen) = Due(p, e.kind, e.from, e.at)
    /\ \A i, j \in 1..Len(e.seen) : i < j => Before(p, e.kind, e.seen[i], e.seen[j])

(* Nobody is skipped: an event that is under way, from whatever context it *)
(* started, has been seen by exactly the handlers that implement its       *)
(* interface and lie between that context and its cursor, each once and in *)
(* the order of the list.                                                  *)
NobodySkipped == event.kind # "none" => SeenByAll(pipe, event)

ExceptionCloses == unhandled /\ event.kind = "none" => pipeStage = "closed"

(* Events are delivered: nobody on their way is skipped, and the final     *)
(* closing is provided when no handler deals with an exception - once the  *)
(* event is over, an exception that everyone passed on has closed the      *)
(* channel, unless a handler kept the inactive event.                      *)
EventsDelivered == NobodySkipped /\ ExceptionCloses

(* The types of the contexts in the order of next, head and tail left out. *)
TypesOf(p) == [i \in 1..p.size - 2 |-> p.type[ContextAt(p, i)]]

Abstract == INSTANCE AbstractPipeline WITH
               order <- TypesOf(pipe), served <- pipeStage \in {"served", "closed"},
               call <- called, Fine <- {t \in Types : checkHandler(t)}

(* The linked contexts implement the list of the abstract pipeline: every  *)
(* call puts the handlers it accepts at its own place of the list, and     *)
(* leaves the others in their order.                                       *)
ImplementsList == Abstract!PipePromise

=============================================================================
