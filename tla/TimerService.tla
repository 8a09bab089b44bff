---------------------------- MODULE TimerService ----------------------------
(***************************************************************************)
(* What the CPR timers promise their users: a timer that was started and   *)
(* not stopped expires once, with the data it was started with, and not    *)
(* before its time, except that each request the service handles may bring *)
(* the running timers a little forward; one that was stopped does not      *)
(* expire.  CprTimers implements this with a list of deltas, a service     *)
(* thread and a socket.                                                    *)
(***************************************************************************)
EXTENDS Integers, Sequences

CONSTANTS Timers,    \* the timers
          Users,     \* the threads that use them
          UserOf,    \* UserOf[t]: the thread that t belongs to
          Delays,    \* times to run
          Rounding,  \* how much one request may bring a running timer forward
          Cap,       \* messages the mailbox of a thread can hold
          Horizon,   \* where the clock stops: it stands for all later times
          None       \* no timer

VARIABLES timer,     \* what each running timer was started for
          firing,    \* the timer whose expiry is being delivered, or None
          mail,      \* expiries delivered to each thread and not yet handled
          now        \* the clock

Off == [on |-> FALSE, due |-> 0, early |-> 0, data |-> 0]
For(d, x) == [on |-> TRUE, due |-> now + d, early |-> 0, data |-> x]

Running(t) == timer[t].on

\* The timers after a request was handled that makes a of t.
Forward(u) ==
    IF Running(u)
    THEN [on |-> TRUE, due |-> timer[u].due, early |-> timer[u].early + Rounding,
          data |-> timer[u].data]
    ELSE timer[u]
Handled(t, a) == [u \in Timers |-> IF u = t THEN a ELSE Forward(u)]

Init ==
    /\ timer = [t \in Timers |-> Off]
    /\ firing = None
    /\ mail = [c \in Users |-> <<>>]
    /\ now = 0

Start(t, d, x) ==
    /\ firing = None /\ ~Running(t)
    /\ timer' = Handled(t, For(d, x))
    /\ UNCHANGED <<firing, mail, now>>

Stop(t) ==
    /\ firing = None /\ Running(t)
    /\ timer' = Handled(t, Off)
    /\ UNCHANGED <<firing, mail, now>>

(* A request that starts or stops nothing. *)
Idle ==
    /\ firing = None
    /\ timer' = [u \in Timers |-> Forward(u)]
    /\ UNCHANGED <<firing, mail, now>>

(* The expiry is delivered, or lost when the mailbox is full. *)
Expire(t) ==
    /\ firing = None /\ Running(t)
    /\ timer[t].due - timer[t].early <= now \/ now = Horizon
    /\ firing' = t
    /\ LET c == UserOf[t]
       IN  mail' = IF Len(mail[c]) < Cap
                   THEN [mail EXCEPT ![c] = Append(@, [timer |-> t, data |-> timer[t].data])]
                   ELSE mail
    /\ UNCHANGED <<timer, now>>

(* A timer that has expired runs no longer. *)
End ==
    /\ firing # None
    /\ timer' = [timer EXCEPT ![firing] = Off]
    /\ firing' = None
    /\ UNCHANGED <<mail, now>>

Handle(c) ==
    /\ mail[c] # <<>>
    /\ mail' = [mail EXCEPT ![c] = Tail(@)]
    /\ UNCHANGED <<timer, firing, now>>

Tick ==
    /\ now < Horizon
    /\ now' = now + 1
    /\ UNCHANGED <<timer, firing, mail>>

Next ==
    \/ End \/ Tick \/ Idle
    \/ \E t \in Timers : Stop(t) \/ Expire(t) \/ \E d \in Delays, x \in {0, 1} : Start(t, d, x)
    \/ \E c \in Users : Handle(c)

Spec == Init /\ [][Next]_<<timer, firing, mail, now>>
=============================================================================
