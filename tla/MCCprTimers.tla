---------------------------- MODULE MCCprTimers ----------------------------
(* A small instance of CprTimers for TLC. *)
EXTENDS CprTimers, TLC

\* Each thread has one timer.
OneEach == CHOOSE f \in [Timers -> Clients] : \A t, u \in Timers : f[t] = f[u] => t = u

\* One thread makes three calls, enough for a queue that is full when the
\* service wants to post to the thread that is waiting for it; the other
\* makes one, with a longer duration.
Busy == CHOOSE c \in Clients : TRUE
Calls31 == [c \in Clients |-> IF c = Busy THEN 3 ELSE 1]
OneDuration ==
    \A c \in Clients : call'[c].op \in {"start", "update"}
                       => call'[c].duration = (IF c = Busy THEN 1 ELSE 2)

(* Calls are bounded: the last state is the one where everyone is done. *)
Done ==
    /\ now = MaxTime /\ list = <<>> /\ svc = "select"
    /\ \A c \in Clients : pc[c] = "idle" /\ queue[c] = <<>> /\ calls[c] = MaxCalls[c]
    /\ \A t \in Timers : exists[t]
    /\ UNCHANGED vars

MCSpec == Init /\ [][(Next /\ OneDuration) \/ Done]_vars /\ Fairness
=============================================================================
