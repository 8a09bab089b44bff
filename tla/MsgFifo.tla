------------------------------ MODULE MsgFifo ------------------------------
(***************************************************************************)
(* What a CPR message queue promises its users: a bounded FIFO buffer.     *)
(* CprMsgQueue implements it with two queues and a mutex.                  *)
(***************************************************************************)
EXTENDS Naturals, Sequences

CONSTANTS Values,    \* the messages
          Capacity   \* messages the buffer can hold

VARIABLES queue,     \* messages accepted and not yet read
          got        \* messages read, in order

Init == queue = <<>> /\ got = <<>>

(* A sender's message is accepted, once. *)
Put(m) ==
    /\ Len(queue) < Capacity
    /\ \A i \in 1..Len(queue) : queue[i] # m
    /\ \A i \in 1..Len(got) : got[i] # m
    /\ queue' = Append(queue, m)
    /\ UNCHANGED got

(* The reader takes the oldest one. *)
Get ==
    /\ queue # <<>>
    /\ queue' = Tail(queue)
    /\ got' = Append(got, Head(queue))

Next == Get \/ \E m \in Values : Put(m)

(* No message is lost, doubled, made up or overtaken. *)
Safety == Init /\ [][Next]_<<queue, got>>

(* And none is left unread for ever. *)
Spec == Safety /\ WF_<<queue, got>>(Get)
=============================================================================
