----------------------------- MODULE MCServices -----------------------------
(* The services beside the P2P links, the link to the server and the       *)
(* directory.  As modelled they share no state, so one run explores each   *)
(* of them by itself: part, chosen at the start, names the one that moves. *)
EXTENDS SerialPort, NetworkCard, PeerRequests, Configuration

VARIABLE part

serviceVars == <<part, vars, cardVars, reqVars, confVars>>

ServicesInit ==
    /\ part \in {"serial", "card", "requests", "configuration"}
    /\ Init /\ CardInit /\ ReqInit /\ ConfInit
    /\ part # "card" => platform = "linux"
    /\ part # "configuration" => file.is = "missing"

ServicesNext ==
    /\ UNCHANGED part
    /\ \/ part = "serial" /\ Next /\ UNCHANGED <<cardVars, reqVars, confVars>>
       \/ part = "card" /\ CardNext /\ UNCHANGED <<vars, reqVars, confVars>>
       \/ part = "requests" /\ ReqNext /\ UNCHANGED <<vars, cardVars, confVars>>
       \/ part = "configuration" /\ ConfNext /\ UNCHANGED <<vars, cardVars, reqVars>>

(* The goroutines of the services run, timers fire and the server goes on  *)
(* to acknowledge; the user need not call.                                 *)
InSerial == part = "serial"
InCard == part = "card"

ServicesSpec ==
    /\ ServicesInit /\ [][ServicesNext]_serviceVars
    /\ \A a \in Actors : WF_vars(InSerial /\ EndStop(a))
    /\ \A c \in Conns : WF_vars(InSerial /\ ClientRead(c)) /\ WF_vars(InSerial /\ ServerRead(c))
    /\ WF_vars(InSerial /\ ClientSweep) /\ WF_vars(InSerial /\ ServerSweep)
    /\ WF_cardVars(InCard /\ UiRuns) /\ WF_cardVars(InCard /\ AckRuns)
    /\ \A r \in Readers : WF_cardVars(InCard /\ ReaderRuns(r))
    /\ \A c \in Askers : WF_reqVars(part = "requests" /\ ReqStep(c))
=============================================================================
