------------------------------- MODULE MCWire -------------------------------
(* The parts of the netty library: the channel and what is below and       *)
(* around it.  As modelled they share no state, so one run explores each   *)
(* of them by itself: wirePart, chosen at the start, names the part that   *)
(* moves.                                                                  *)
EXTENDS NettyChannel, Pipeline, Listener, UdpAcceptor, ProtobufCodec, FrameCodecs

VARIABLE wirePart

wireVars == <<wirePart, vars, pipeVars, lsnVars, udpVars, codVars, frmVars>>

(* Handlers as this program has them: its message handlers carry a         *)
(* CodecName, so they count as codecs; "none" implements no interface.     *)
MCTypes == {"idle", "codec", "app", "none"}
MCImplements == [t \in MCTypes \cup {"executor"} |->
    CASE t = "idle"     -> {"active", "read", "inactive"}
      [] t = "codec"    -> {"codec", "read", "write"}
      [] t = "app"      -> {"codec", "active", "read", "write", "exception", "inactive", "event"}
      [] t = "executor" -> {"read"}
      [] t = "none"     -> {}]

(* One and two byte headers, frames that are cut by one read, too short    *)
(* frames, and one whose handler panics.                                   *)
MCMark == <<3, 1>>
MCPayloads == {<<3, 1>>, <<0, 2, 3>>, <<3, 1, 2, 2, 2>>, <<3, 1, 0, 0, 0, 0, 0>>, <<1, 1>>, <<3>>, <<>>}
MCPoison == {<<1, 1>>}

MCMessages == UNION {[1..n -> 0..1] : n \in 0..3} \cup {<<1, 1, 1, 1>>, <<0, 0, 0, 0, 0>>}
MCDelimiter == <<1, 0>>

WireInit == /\ wirePart \in {"channel", "pipe", "listener", "udp", "protobuf", "frames"}
            /\ Init /\ PipeInit /\ LsnInit /\ UdpInit /\ CodInit /\ FrmInit
            /\ wirePart # "channel" => watch = "read"
            /\ wirePart # "protobuf" => scheme = "tcp"
            /\ wirePart # "frames" => codec = "varint" /\ fieldLength = 1

WireNext ==
    /\ UNCHANGED wirePart
    /\ \/ wirePart = "channel" /\ Next /\ UNCHANGED <<pipeVars, lsnVars, udpVars, codVars, frmVars>>
       \/ wirePart = "pipe" /\ PipeNext /\ UNCHANGED <<vars, lsnVars, udpVars, codVars, frmVars>>
       \/ wirePart = "listener" /\ LsnNext /\ UNCHANGED <<vars, pipeVars, udpVars, codVars, frmVars>>
       \/ wirePart = "udp" /\ UdpNext /\ UNCHANGED <<vars, pipeVars, lsnVars, codVars, frmVars>>
       \/ wirePart = "protobuf" /\ CodNext /\ UNCHANGED <<vars, pipeVars, lsnVars, udpVars, frmVars>>
       \/ wirePart = "frames" /\ FrmNext /\ UNCHANGED <<vars, pipeVars, lsnVars, udpVars, codVars>>

(* Goroutines that can run do run: those of a channel, the caller of       *)
(* Listen and Stop, the accept loops, mainLoop and whoever is in Close.    *)
(* Nobody has to call or to break anything, and no timer need fire.        *)
InChannel == wirePart = "channel"
InListener == wirePart = "listener" /\ ~crashed
InUdp == wirePart = "udp" /\ ~panicked

WireSpec ==
    /\ WireInit /\ [][WireNext]_wireVars
    /\ WF_vars(InChannel /\ (Serve \/ Step("serve")))
    /\ WF_vars(InChannel /\ (ReadRuns \/ Step("read")))
    /\ WF_vars(InChannel /\ (WriteLoop \/ Step("write")))
    /\ \A t \in Ticks : WF_vars(InChannel /\ (Tick(t) \/ Step(t)))
    /\ \A u \in Users : WF_vars(InChannel /\ Step(u))
    /\ WF_lsnVars(InListener /\ Caller)
    /\ \A l \in Listens : WF_lsnVars(InListener /\ (AcceptLoop(l) \/ WokenByClose(l)))
    /\ WF_udpVars(InUdp /\ mainLoop)
    /\ \A t \in Trans : /\ WF_udpVars(InUdp /\ ReadPacket(t))
                        /\ \A w \in Closers : WF_udpVars(InUdp /\ CloseStep(t, w))
=============================================================================
