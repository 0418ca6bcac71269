---------------------------- MODULE MCP2pService ----------------------------
(***************************************************************************)
(* Instances of P2pService for TLC.  Contexts are interchangeable, and so  *)
(* are read loops; no liveness property is checked under the symmetry.     *)
(***************************************************************************)
EXTENDS P2pService, TLC

Symmetry == Permutations(Socks) \cup Permutations(Punches)
                \cup Permutations(Readers)

\* A bound of the runs about the peer contexts: one goroutine punches at a
\* time (the races between several are the subject of P2pPunching).
OnePuncher ==
    Cardinality({t \in Threads : pc[t].at \in {"store", "dialPunch", "bind"}}) <= 1

(***************************************************************************)
(* Two states that differ only in fields no step reads are one to TLC.     *)
(* LocalSock and StartTime are read through punchSocks, TryConnCount       *)
(* through p2pTrySocks, LastReceive and silentRounds through a map or a    *)
(* P2PSuccess under way, and any other context comes back only by a read   *)
(* that overwrites what it is judged by; the read uses PingTryCount only   *)
(* if the limit is more than 1 (AfterRead).  No step and no invariant      *)
(* tells an open peer channel from one that is stopping, nor a context     *)
(* that was never heard from one that is silent.  FailedTime matters       *)
(* between one failure and FailLimit.                                      *)
(***************************************************************************)
View ==
    LET punched == Entries(punchSocks, Macs)
        tried == Entries(p2pTrySocks, Macs)
        linked == (Entries(p2pSocks, Macs)
                      \cup {success[s].ctx : s \in Socks}) \ {None}
        PunchView(p) ==
            IF FreePunch(p) THEN <<>>
            ELSE IF p \in punched THEN <<punch[p]>>
            ELSE <<punch[p].mac, punch[p].chan>>
        SockView(s) ==
            IF FreeSock(s) THEN <<>>
            ELSE <<sock[s].mac,
                   IF sock[s].chan = "stopping" THEN "open" ELSE sock[s].chan,
                   IF s \in tried \cup linked \/ PingLimit > 1
                   THEN sock[s].pings ELSE 0,
                   IF s \in tried THEN sock[s].tries ELSE 0,
                   s \in tried \cup linked /\ sock[s].heard = "fresh",
                   IF s \in linked THEN silentRounds[s] ELSE 0>>
        FailView(m) ==
            <<failed[m], cooling[m] /\ failed[m] \in 1..(FailLimit - 1)>>
    IN  <<running, punchSocks, p2pTrySocks, p2pSocks,
          [m \in Macs |-> FailView(m)], [p \in Punches |-> PunchView(p)],
          [s \in Socks |-> SockView(s)], pc, success, checker, toRemove>>

=============================================================================
