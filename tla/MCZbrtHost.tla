------------------------------- MODULE MCZbrtHost ------------------------------
(*****************************************************************************)
(* Small instances of the host's two guest clients in one model: a behaviour *)
(* is one of a ZBRT session (ZbrtHost) or one of a framed vsock client       *)
(* (HostVsock).                                                              *)
(*****************************************************************************)
EXTENDS ZbrtHost, HostVsock

CONSTANTS e1, s1, q1, none

MCTurn == {e1, s1}
MCStream == {s1}
MCCtl == {q1}

VARIABLE scene

ClientInit ==
  /\ scene \in {"zbrt", "framed"}
  /\ Init /\ HvInit
  /\ scene = "zbrt" => hmode = "shared" /\ pinned = 0

ClientNext ==
  /\ \/ scene = "zbrt" /\ Next /\ UNCHANGED hvars
     \/ scene = "framed" /\ HvNext /\ UNCHANGED vars
     \/ scene = "framed" /\ UNCHANGED <<vars, hvars>>      \* the client may come to rest
  /\ UNCHANGED scene

ClientSpec == ClientInit /\ [][ClientNext]_<<scene, vars, hvars>>

\* Every variable of the two clients keeps its type.
ClientTypeOK == IF scene = "zbrt" THEN TypeOK ELSE HvTypeOK

=============================================================================
