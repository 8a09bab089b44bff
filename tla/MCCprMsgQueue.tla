--------------------------- MODULE MCCprMsgQueue ---------------------------
(* Small instances of CprMsgQueue for TLC. *)
EXTENDS CprMsgQueue

(* Behaviours stop once every thread has made its calls and the queue is   *)
(* drained: that is the only state without a successor.                    *)
Drained ==
    /\ associated /\ Whole = delivered
    /\ \A t \in Threads : pc[t] = "idle" /\ sends[t] = MaxSends
Done == Drained /\ UNCHANGED vars

MCSpec == Init /\ [][Next \/ Done]_vars /\ Fairness
=============================================================================
