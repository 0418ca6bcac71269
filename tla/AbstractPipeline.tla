------------------------- MODULE AbstractPipeline -------------------------
(***************************************************************************)
(* What a pipeline promises to the code that fills it: a list of handlers  *)
(* between a head and a tail, and for every call the place where it puts   *)
(* its handlers.  AddFirst puts them at the front one by one, AddLast at   *)
(* the back, AddHandler behind a position that is counted from the head,   *)
(* and serving the channel puts the executor directly behind the last      *)
(* codec.  A value that is no handler is refused with what follows it, and *)
(* by AddHandler with the whole call.  Nothing that is in the list ever    *)
(* leaves it or changes its place relative to others.                      *)
(***************************************************************************)
EXTENDS Integers, Sequences, SequencesExt

CONSTANTS Fine,      \* the types of values that are handlers
          Codecs,    \* those of them that are codecs
          Groups     \* the argument lists of one call

VARIABLES order,     \* the types of the handlers, front to back
          served,    \* the channel is being served
          call       \* the last call: its name, position and handlers

PipeSpecInit == order = <<>> /\ served = FALSE /\ call.op = "none"

Insert(pos, hs) == SubSeq(order, 1, pos) \o hs \o SubSeq(order, pos + 1, Len(order))

(* The handlers of a call up to a refused one.                             *)
TakesUpTo(hs, n) == /\ \A i \in 1..n : hs[i] \in Fine
                    /\ n < Len(hs) => hs[n + 1] \notin Fine

PutFirst == /\ call'.op = "AddFirst"
            /\ \E n \in 0..Len(call'.hs) : /\ TakesUpTo(call'.hs, n)
                                           /\ order' = Insert(0, Reverse(SubSeq(call'.hs, 1, n)))

PutLast == /\ call'.op = "AddLast"
           /\ \E n \in 0..Len(call'.hs) : /\ TakesUpTo(call'.hs, n)
                                          /\ order' = Insert(Len(order), SubSeq(call'.hs, 1, n))

(* Position 0 is the head and Len(order) + 1 the tail; it and -1 stand for *)
(* the end of the list.                                                    *)
PutBehind ==
    LET pos == call'.pos
        end == pos = -1 \/ pos = Len(order) + 1
        legal == pos <= Len(order) + 1 /\ TakesUpTo(call'.hs, Len(call'.hs))
    IN /\ call'.op = "AddHandler"
       /\ order' = IF ~legal THEN order ELSE Insert(IF end THEN Len(order) ELSE pos, call'.hs)

PipeFill == /\ ~served /\ served' = FALSE
            /\ call'.hs \in Groups
            /\ PutFirst \/ PutLast \/ PutBehind

IsLastCodec(i) == /\ i \in 1..Len(order) /\ order[i] \in Codecs
                  /\ \A j \in i + 1..Len(order) : order[j] \notin Codecs

(* Without a codec there is no place for an executor.                      *)
PipeServe ==
    /\ ~served
    /\ \/ /\ call'.op = "serve"
          /\ served' = TRUE /\ order' = order
       \/ /\ call'.op = "serve with executor"
          /\ served' = TRUE
          /\ \E i \in 1..Len(order) : IsLastCodec(i) /\ order' = Insert(i, <<"executor">>)
       \/ /\ call'.op = "serve with executor"
          /\ \A i \in 1..Len(order) : order[i] \notin Codecs
          /\ served' = FALSE /\ order' = order

listVars == <<order, served, call>>

PipePromise == PipeSpecInit /\ [][PipeFill \/ PipeServe]_listVars
=============================================================================
