----------------------------- MODULE RetxWindow -----------------------------
(***************************************************************************)
(* What the list of recent SIP messages promises: it remembers the last    *)
(* Size messages handed to the SIP core, newest first, each with an answer *)
(* made for it.  A message it remembers is not handed on again (unless it  *)
(* is provisional), and a retransmission is met with an answer made in its *)
(* own transaction and dialog.  RelDev implements it with a ring and a     *)
(* cursor.                                                                 *)
(***************************************************************************)
EXTENDS Naturals

CONSTANTS Size,          \* messages remembered
          Msgs,          \* messages that can arrive
          Provisional,   \* those handed on every time they arrive
          None           \* no message, no answer, nothing sent

VARIABLES win,           \* win[a] is the entry stored a places ago
          out            \* what the step sent again, and to what

Ages == 0..(Size - 1)

Blank == [msg |-> None, ans |-> None]

(* Two messages that differ at most in their response codes. *)
Alike(m, n) ==
    /\ m.call = n.call
    /\ m.req = n.req
    /\ m.cseq = n.cseq
    /\ m.method = n.method
    /\ m.tag = n.tag

Init ==
    /\ win = [a \in Ages |-> Blank]
    /\ out = None

RequestsOf(c) ==
    {a \in Ages : win[a].msg # None /\ win[a].msg.call = c /\ win[a].msg.req}

(* The answer kept with m is sent again. *)
Resent(m) ==
    \E a \in Ages :
       /\ win[a].msg = m
       /\ win[a].ans # None
       /\ out' = [to |-> m, sent |-> win[a].ans]

(* A message that is not remembered is handed on and becomes the newest.   *)
(* The first INVITE of a call makes the list forget the requests it has    *)
(* of that call.                                                           *)
(* A failure response is acknowledged, and the ACK kept, at once.          *)
Deliver(m) ==
    /\ \E F \in {{}, RequestsOf(m.call)}, kept \in {None, [made |-> m, whole |-> TRUE]} :
          /\ m \in Provisional \/ \A a \in Ages \ F : win[a].msg # m
          /\ win' = [a \in Ages |-> IF a = 0 THEN [msg |-> m, ans |-> kept]
                                    ELSE IF a - 1 \in F THEN Blank
                                    ELSE win[a - 1]]
    /\ out' = None \/ (m \in Provisional /\ Resent(m))

(* An answer to m is kept with a message of its transaction and dialog;    *)
(* [whole] is FALSE when composing the text failed half-way.               *)
Couple(m) ==
    /\ \E a \in Ages, b \in BOOLEAN :
          /\ win[a].msg # None
          /\ Alike(m, win[a].msg)
          /\ win' = [win EXCEPT ![a].ans = [made |-> m, whole |-> b]]
    /\ out' = None

(* A retransmission of m is met with the answer kept with m. *)
Resend(m) == Resent(m) /\ UNCHANGED win

ForgetAll ==
    /\ win' = [a \in Ages |-> Blank]
    /\ out' = None

(* Nothing but the end of a resending. *)
Quiet == out' = None /\ UNCHANGED win

Next == ForgetAll \/ Quiet \/ \E m \in Msgs : Deliver(m) \/ Couple(m) \/ Resend(m)

Spec == Init /\ [][Next]_<<win, out>>
=============================================================================
