---------------------------- MODULE FrameCodecs ----------------------------
(***************************************************************************)
(* The frame codecs of netty/codec/frame over a byte stream: length field, *)
(* varint length, delimiter, fixed length, and the two that do not frame,  *)
(* packet and variable length.  A writer encodes messages and a reader     *)
(* takes one frame after the other from the stream, waiting inside a frame *)
(* until its bytes have come; a failed assertion ends the reading (the     *)
(* exception closes the channel).  Bytes have ByteValues values (256 in    *)
(* the code) and messages are sequences of bytes.  The rest of a frame is  *)
(* a reader the next handler drains.                                       *)
(***************************************************************************)
EXTENDS Integers, Sequences, SequencesExt, Digits

CONSTANTS ByteValues,       \* values of a byte
          Messages,         \* messages a program may write
          MaxMessages,      \* bound: messages written
          MaxLength,        \* maxFrameLength of every codec
          Delimiter,        \* of the delimiter codec
          FixedLength,      \* of the fixed-length codec
          FieldLengths      \* bytes a length field may have: 1, 2, 4 or 8

(* The constructors of the codecs assert that the lengths are positive and *)
(* the delimiter is not empty.                                             *)
ASSUME FrmAssumption == /\ ByteValues \in Nat /\ ByteValues >= 4
                        /\ Messages \subseteq Seq(0..ByteValues - 1)
                        /\ Delimiter \in Seq(0..ByteValues - 1) /\ Delimiter # <<>>
                        /\ FixedLength \in Nat \ {0} /\ MaxLength \in Nat
                        /\ FieldLengths \subseteq Nat \ {0}

CodecNames == {"lengthField", "varint", "delimiter", "fixed", "packet"}

VARIABLES codec,            \* the codec of the channel
          fieldLength,      \* bytes of the length field
          sentMsgs,         \* messages written
          stream,           \* bytes that have arrived and are not read yet
          frames,           \* frames handed to the next handler
          reading           \* "ok", or "failed" after an assertion

frmVars == <<codec, fieldLength, sentMsgs, stream, frames, reading>>

FrmInit == /\ codec \in CodecNames /\ fieldLength \in FieldLengths
           /\ sentMsgs = <<>> /\ stream = <<>> /\ frames = <<>>
           /\ reading = "ok"

(***************************************************************************)
(* Encoding                                                                *)
(***************************************************************************)
(* packFieldLength, big endian: a length beyond the field loses its top.   *)
packFieldLength(fieldLen, n) == [i \in 1..fieldLen |-> Shifted(ByteValues, n, fieldLen - i) % ByteValues]

(* The default encoder: LengthFieldPrepender without adjustment.           *)
LengthFieldPrepender(m) == packFieldLength(fieldLength, Len(m)) \o m

(* The digits of a varint: half of the values of a byte.                   *)
Half == ByteValues \div 2

Encoded(m) == CASE codec = "lengthField" -> LengthFieldPrepender(m)
                [] codec = "varint"      -> PutUvarint(Half, Len(m)) \o m
                [] codec = "delimiter"   -> m \o Delimiter
                [] OTHER                 -> m

(* HandleWrite; only the varint codec tests the length, and panics in the  *)
(* writer.                                                                 *)
WriteMessage(m) == /\ Len(sentMsgs) < MaxMessages
                   /\ codec = "varint" => Len(m) <= MaxLength
                   /\ sentMsgs' = Append(sentMsgs, m)
                   /\ stream' = stream \o Encoded(m)
                   /\ UNCHANGED <<codec, fieldLength, frames, reading>>

(***************************************************************************)
(* Decoding: [take |-> bytes consumed, frame] , Wait or Fail               *)
(***************************************************************************)
Wait == [take |-> -1, frame |-> <<>>]
Fail == [take |-> -2, frame |-> <<>>]
Cut(s, skip, n) == IF Len(s) < skip + n THEN Wait ELSE [take |-> skip + n, frame |-> SubSeq(s, skip + 1, skip + n)]

unpackFieldLength(fieldLen, s) == Number(ByteValues, SubSeq(s, 1, fieldLen))

(* A slip of the length field codec: the length counts the field as well.  *)
LengthFieldCodecWhole(s) ==
    IF Len(s) < fieldLength THEN Wait
    ELSE LET n == unpackFieldLength(fieldLength, s)
         IN IF n > MaxLength \/ n < fieldLength THEN Fail ELSE Cut(s, fieldLength, n - fieldLength)

(* With no offset and no adjustment the frame is the field and its body;   *)
(* the field is stripped.                                                  *)
LengthFieldCodec(s) ==
    IF Len(s) < fieldLength THEN Wait
    ELSE LET n == unpackFieldLength(fieldLength, s)
         IN IF n + fieldLength > MaxLength THEN Fail ELSE Cut(s, fieldLength, n)

VarintLengthFieldCodec(s) ==
    LET last == UvarintLen(Half, s)
        n    == Uvarint(Half, s)
    IN IF last = 0 THEN Wait ELSE IF n > MaxLength THEN Fail ELSE Cut(s, last, n)

(* Byte after byte until the last ones are the delimiter, or the limit.    *)
DelimiterCodec(s) ==
    LET d    == Len(Delimiter)
        ends == {i \in d..Len(s) : i <= MaxLength /\ SubSeq(s, i - d + 1, i) = Delimiter}
        last == CHOOSE i \in ends : \A j \in ends : i <= j
    IN IF ends # {} THEN [take |-> last, frame |-> SubSeq(s, 1, last - d)]
       ELSE IF Len(s) >= MaxLength THEN Fail ELSE Wait

FixedLengthCodec(s) == Cut(s, 0, FixedLength)

Decoded(s) == CASE codec = "lengthField" -> LengthFieldCodec(s)
                [] codec = "varint"      -> VarintLengthFieldCodec(s)
                [] codec = "delimiter"   -> DelimiterCodec(s)
                [] codec = "fixed"       -> FixedLengthCodec(s)

Readable == codec # "packet" /\ reading = "ok" /\ stream # <<>> /\ Decoded(stream) # Wait

ReadFrame == LET d == Decoded(stream)
             IN /\ Readable
                /\ IF d = Fail THEN reading' = "failed" /\ UNCHANGED <<stream, frames>>
                   ELSE /\ frames' = Append(frames, d.frame)
                        /\ stream' = SubSeq(stream, d.take + 1, Len(stream))
                        /\ UNCHANGED reading
                /\ UNCHANGED <<codec, fieldLength, sentMsgs>>

(* packetCodec and variableLengthCodec hand on what one read returns: as   *)
(* much as has come, up to the limit, wherever a message ends.             *)
ReadPiece == /\ codec = "packet" /\ stream # <<>>
             /\ \E n \in 1..Len(stream) :
                   /\ n <= MaxLength
                   /\ frames' = Append(frames, SubSeq(stream, 1, n))
                   /\ stream' = SubSeq(stream, n + 1, Len(stream))
             /\ UNCHANGED <<codec, fieldLength, sentMsgs, reading>>

FrmNext == (\E m \in Messages : WriteMessage(m)) \/ ReadFrame \/ ReadPiece

FrmSpec == FrmInit /\ [][FrmNext]_frmVars

(***************************************************************************)
(* Properties                                                              *)
(***************************************************************************)
(* A message the codec can carry: its length fits into the field and the   *)
(* limit, it has the fixed length, or the delimiter occurs in the encoded  *)
(* message at its end only.                                                *)
Carries(m) == CASE codec = "lengthField" -> Shifted(ByteValues, Len(m), fieldLength) = 0 /\ Len(m) + fieldLength <= MaxLength
                [] codec \in {"varint", "packet"} -> TRUE
                [] codec = "fixed"       -> Len(m) = FixedLength
                [] codec = "delimiter"   ->
                     LET e == m \o Delimiter
                     IN /\ Len(e) <= MaxLength
                        /\ \A i \in 1..Len(e) - Len(Delimiter) : SubSeq(e, i, i + Len(Delimiter) - 1) # Delimiter

(* Messages the codec can carry come out as they went in, in order and     *)
(* without a failure, and none is stuck in the stream; a codec that does   *)
(* not frame keeps the bytes, not the messages.                            *)
RoundTrip ==
    (\A i \in 1..Len(sentMsgs) : Carries(sentMsgs[i])) =>
       /\ reading = "ok"
       /\ IF codec = "packet" THEN FlattenSeq(Append(frames, stream)) = FlattenSeq(sentMsgs)
          ELSE /\ IsPrefix(frames, sentMsgs)
               /\ ~Readable => frames = sentMsgs /\ stream = <<>>
=============================================================================
