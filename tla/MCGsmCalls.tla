----------------------------- MODULE MCGsmCalls -----------------------------
(* Small instances of GsmCalls for TLC. *)
EXTENDS GsmCalls, TLC

CONSTANTS a, b, n     \* call ids

(* One call, answered before. *)
OneConnected == a :> "connected"
HoldResumeMedia == a :> {"HOLD", "RESUME", "UPD_MEDIA_CAP"}

(* A call in progress, an incoming one and one that the user starts. *)
Waiting == {b}
Three == a :> "connected" @@ b :> "new" @@ n :> "new"
Busy == a :> {"RESUME", "END_CALL"} @@ b :> {"ANSWER"} @@ n :> {"OFFHOOK", "DIALSTRING", "END_CALL"}

(* Requests and faults are bounded: in the end nothing is under way. *)
Done ==
    /\ gsmQ = <<>> /\ sipQ = <<>> /\ pc = "get"
    /\ UNCHANGED vars

MCSpec == Init /\ [][Next \/ Done]_vars
MCFairSpec == MCSpec /\ Fairness
=============================================================================
