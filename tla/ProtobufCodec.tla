--------------------------- MODULE ProtobufCodec ---------------------------
(***************************************************************************)
(* The two protobuf codecs: serial/protocol/protobuf.go, which reassembles *)
(* frames from a TCP stream (the branch of netty/codec/format/protobuf.go  *)
(* for TCP is the same), and the UDP branch of the latter, which takes a   *)
(* frame from each datagram.  A frame is a varint length and a payload;    *)
(* payloads are byte sequences, and a byte has one continuation bit and    *)
(* Base values (128 in the code, scaled down).  What protobuf makes of a   *)
(* payload is not modelled: Unmarshal is taken to succeed.                 *)
(***************************************************************************)
EXTENDS Integers, Sequences, SequencesExt, Digits

CONSTANTS Base,         \* values of a varint digit, 2^7 in the code
          Word,         \* values of a uint32, 2^32 in the code
          Payloads,     \* marshalled messages a peer may write
          Poison,       \* payloads whose handler panics
          MaxFrames,    \* bound: frames written
          PackLength,   \* bytes of one read
          FrameLimit,   \* maxFrameLength of the UDP codec, 2M for TCP
          Mark          \* the two bytes that tell the type of a frame

(* A word has at most five digits, and one read holds them: 2^32 values    *)
(* and 2048 bytes in the code.                                             *)
ASSUME CodAssumption == /\ Base \in Nat /\ Base >= 2
                        /\ Word \in Nat /\ FrameLimit \in 0..Word - 1
                        /\ \A x \in 0..Word - 1 : Shifted(Base, x, 5) = 0
                        /\ PackLength \in Nat /\ PackLength >= 5
                        /\ Payloads \subseteq Seq(Nat)
                        /\ Mark \in Nat \X Nat

VARIABLES scheme,       \* "tcp" or "udp"
          written,      \* payloads written so far
          underWay,         \* TCP: bytes under way; UDP: datagrams under way
          buffer,       \* v.buffer / packetBuffer, or the reused rxBuffer
          frameLength,  \* v.frameLength: 0 while no header is parsed
          handled,      \* payloads handed to the next handler, with type
          stats         \* frames counted by SetStats

codVars == <<scheme, written, underWay, buffer, frameLength, handled, stats>>

(***************************************************************************)
(* The varint of utils/binary.go                                           *)
(***************************************************************************)
PutUvarint32(x) == PutUvarint(Base, x)

(* Value and number of bytes; 0 bytes when no byte ends the number, a      *)
(* negative number beyond the sixth byte.  Bits above the word are lost.   *)
Uvarint32(buf) ==
    LET n == UvarintLen(Base, buf)
    IN IF n = 0 THEN [x |-> 0, n |-> 0]
       ELSE IF n > 6 \/ (n = 6 /\ buf[n] > 1) THEN [x |-> 0, n |-> -n]
       ELSE [x |-> Uvarint(Base, buf) % Word, n |-> n]

Drop(s, n) == SubSeq(s, n + 1, Len(s))
Prefix(s, n) == SubSeq(s, 1, n)

(***************************************************************************)
(* Writing                                                                 *)
(***************************************************************************)
(* HandleWrite: header and payload are handed on as one pair of buffers;   *)
(* the length is converted to a word.                                      *)
Encode(payload) == PutUvarint32(Len(payload) % Word) \o payload

CodInit == /\ scheme \in {"tcp", "udp"}
           /\ written = <<>>
           /\ underWay = <<>>
           /\ buffer = <<>>
           /\ frameLength = 0
           /\ handled = <<>>
           /\ stats = [read |-> 0, write |-> 0]

HandleWrite(payload) ==
    /\ Len(written) < MaxFrames
    /\ written' = Append(written, payload)
    /\ underWay' = IF scheme = "tcp" THEN underWay \o Encode(payload) ELSE Append(underWay, Encode(payload))
    /\ stats' = [stats EXCEPT !.write = @ + 1]
    /\ UNCHANGED <<scheme, buffer, frameLength, handled>>

(***************************************************************************)
(* Reading from a stream                                                   *)
(***************************************************************************)
(* The type of a payload: data[0] and, only if that byte matches, data[1]. *)
(* An index beyond the payload panics, and so may the handler.             *)
TypeOf(data) == IF Len(data) >= 2 /\ Prefix(data, 2) = Mark THEN "data" ELSE "server"
Panics(data) == Len(data) = 0 \/ data = Prefix(Mark, 1) \/ data \in Poison

Deliver(d, data) == [d EXCEPT !.out = Append(@, [type |-> TypeOf(data), data |-> data])]

(* recover in readAndDeal: buffer and length are reset, whatever follows   *)
(* the frame in the buffer is lost.                                        *)
Recovered(d) == [d EXCEPT !.buf = <<>>, !.len = 0]

(* Parse a header in front of the buffer, if it is complete.  Five bytes   *)
(* without an end count as a header of no bytes and length 0; a length     *)
(* above the limit is waited on for ever.                                  *)
Header(d) ==
    LET h == Uvarint32(d.buf)
    IN IF (h.n = 0 /\ Len(d.buf) < 5) \/ h.x > FrameLimit THEN [d EXCEPT !.len = 0, !.more = FALSE]
       ELSE IF h.n < 0 THEN [Recovered(d) EXCEPT !.more = FALSE]
       ELSE [d EXCEPT !.len = h.x, !.buf = Drop(@, h.n)]

(* One turn of readAndDeal: it ends when the rest is shorter than the next *)
(* frame, with a panic, with the last byte, or without a complete header.  *)
DealFrame(d) ==
    LET data == Prefix(d.buf, d.len)
        rest == [d EXCEPT !.buf = Drop(@, d.len), !.len = 0]
    IN IF ~d.more THEN d
       ELSE IF Len(d.buf) < d.len THEN [d EXCEPT !.more = FALSE]
       ELSE IF Panics(data) THEN [Recovered(IF data \in Poison THEN Deliver(d, data) ELSE d) EXCEPT !.more = FALSE]
       ELSE IF Len(d.buf) = d.len THEN [Deliver(rest, data) EXCEPT !.more = FALSE]
       ELSE Header(Deliver(rest, data))

(* Turn after turn: each but the last one takes a byte off the buffer.     *)
Deal(d) ==
    LET q[i \in 0..Len(d.buf) + 1] == IF i = 0 THEN d ELSE DealFrame(q[i - 1])
    IN q[Len(d.buf) + 1]

(* A slip of readAndDeal: the length of a split frame is not remembered.   *)
readAndDealForgets(buf, len) ==
    LET d == [buf |-> buf, len |-> len, out |-> <<>>, more |-> TRUE]
    IN [Deal(Header(d)) EXCEPT !.len = 0]

readAndDeal(buf, len) ==
    LET d == [buf |-> buf, len |-> len, out |-> <<>>, more |-> TRUE]
    IN Deal(IF len = 0 THEN Header(d) ELSE d)

(* HandleRead of the TCP codec: what the read returns, at most PackLength  *)
(* bytes and cut anywhere, is appended and dealt with.                     *)
ReadStream(n) ==
    /\ scheme = "tcp" /\ n <= Len(underWay) /\ n <= PackLength
    /\ underWay' = Drop(underWay, n)
    /\ LET d == readAndDeal(buffer \o Prefix(underWay, n), frameLength)
       IN /\ buffer' = d.buf
          /\ frameLength' = d.len
          /\ handled' = handled \o d.out
          /\ stats' = [stats EXCEPT !.read = @ + Len(d.out)]
    /\ UNCHANGED <<scheme, written>>

(***************************************************************************)
(* Reading datagrams                                                       *)
(***************************************************************************)
(* The header is parsed from the whole buffer, stale bytes included, but   *)
(* the payload ends where the read ended; one of less than three bytes is  *)
(* dropped.                                                                *)
FrameOf(rx, rn) ==
    LET h == Uvarint32(rx)
    IN IF (h.n = 0 /\ rn < 5) \/ h.x > FrameLimit \/ h.n >= rn - 2 THEN <<>>
       ELSE SubSeq(rx, h.n + 1, rn)

(* A datagram is read over the bytes of the previous one; what does not    *)
(* fit into the buffer is cut off.  Datagrams arrive in any order.         *)
ReadDatagram(k) ==
    LET pkt   == underWay[k]
        rn    == IF Len(pkt) < PackLength THEN Len(pkt) ELSE PackLength
        rx    == Prefix(pkt, rn) \o Drop(buffer, rn)
        frame == FrameOf(rx, rn)
    IN /\ scheme = "udp"
       /\ underWay' = RemoveAt(underWay, k)
       /\ buffer' = rx
       /\ IF frame = <<>> THEN UNCHANGED <<handled, stats>>
          ELSE /\ handled' = Append(handled, [type |-> TypeOf(frame), data |-> frame])
               /\ stats' = [stats EXCEPT !.read = @ + 1]
       /\ UNCHANGED <<scheme, written, frameLength>>

LoseDatagram(k) == /\ scheme = "udp"
                   /\ underWay' = RemoveAt(underWay, k)
                   /\ UNCHANGED <<scheme, written, buffer, frameLength, handled, stats>>

CodNext == \/ \E payload \in Payloads : HandleWrite(payload)
           \/ \E n \in 1..PackLength : ReadStream(n)
           \/ \E k \in 1..Len(underWay) : ReadDatagram(k) \/ LoseDatagram(k)

CodSpec == CodInit /\ [][CodNext]_codVars

(***************************************************************************)
(* Properties                                                              *)
(***************************************************************************)
(* The first frame at which reassembly may lose its place: one that makes  *)
(* readAndDeal panic, or one above the limit.                              *)
Spoils(payload) == Panics(payload) \/ Len(payload) > FrameLimit
FirstBad == CHOOSE k \in 1..Len(written) + 1 :
               /\ k = Len(written) + 1 \/ Spoils(written[k])
               /\ \A j \in 1..k - 1 : ~Spoils(written[j])

(* However the stream is cut into reads, the frames come out whole and in  *)
(* the order they were written, and once everything is read none is left   *)
(* in the buffer - up to the first frame that readAndDeal cannot take.     *)
FramesInOrder ==
    scheme = "tcp" =>
       /\ \A i \in 1..Len(handled) : i < FirstBad =>
             i <= Len(written) /\ handled[i] = [type |-> TypeOf(written[i]), data |-> written[i]]
       /\ underWay = <<>> => Len(handled) >= FirstBad - 1
       /\ underWay = <<>> /\ FirstBad > Len(written) => buffer = <<>> /\ frameLength = 0

(* The part of a payload that one read can hold.                           *)
Held(payload) == Drop(Prefix(Encode(payload), IF Len(Encode(payload)) < PackLength THEN Len(Encode(payload)) ELSE PackLength),
                      Len(Encode(payload)) - Len(payload))

(* What is handed up from a datagram is the payload of a datagram that was *)
(* written, never mixed with the bytes an earlier one left in the buffer;  *)
(* one longer than the buffer is cut.                                      *)
DatagramsIntact ==
    scheme = "udp" => \A i \in 1..Len(handled) : \E k \in 1..Len(written) : handled[i].data = Held(written[k])
(* Frames leave the codec as they were written, over both schemes.         *)
FramesIntact == FramesInOrder /\ DatagramsIntact
=============================================================================
