------------------------------ MODULE MCRegMgr ------------------------------
(***************************************************************************)
(* Instances of RegMgr for TLC; the configurations give the constants.     *)
(***************************************************************************)
EXTENDS RegMgr

(* Answers of call managers that accept or refuse, and every answer. *)
AcceptOrRefuse == {"200", "4xx", "5xx"}
AnyAnswer == {"100", "200", "200min", "4xx", "5xx", "retry"}
=============================================================================
