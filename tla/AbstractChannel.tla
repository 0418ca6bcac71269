--------------------------- MODULE AbstractChannel --------------------------
(***************************************************************************)
(* What a netty channel promises to the services that write to it          *)
(* (src/netty/channel.go): the packets it accepts reach the transport in   *)
(* the order of acceptance, none twice and none left out, until the        *)
(* channel goes down; and an accepted packet is not kept back for ever     *)
(* while the channel is up.                                                *)
(***************************************************************************)
EXTENDS Naturals, Sequences

CONSTANT MaxPackets   \* how many packets are ever written

VARIABLES
    accepted,     \* what Write has accepted, in that order
    wire,         \* what the transport has taken
    up            \* whether the transport is still open

APacket == 1..MaxPackets

avars == <<accepted, wire, up>>

AInit == accepted = <<>> /\ wire = <<>> /\ up = TRUE

\* Write does not tell a channel that is down from one that is up: headHandler
\* drops the error, and the select of Write may accept after the cancellation.
Accept ==
    /\ \E p \in APacket : accepted' = Append(accepted, p)
    /\ UNCHANGED <<wire, up>>

Deliver ==
    /\ up
    /\ \E n \in (Len(wire) + 1)..Len(accepted) : wire' = SubSeq(accepted, 1, n)
    /\ UNCHANGED <<accepted, up>>

Down == up /\ up' = FALSE /\ UNCHANGED <<accepted, wire>>

ANext == Accept \/ Deliver \/ Down

ASpec == AInit /\ [][ANext]_avars

\* No packet is kept back for ever; an accepted one stays accepted.
ALive ==
    \A n \in APacket : []<>(Len(accepted) < n \/ Len(wire) >= n \/ ~ up)
=============================================================================
