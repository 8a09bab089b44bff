------------------------------ MODULE MCRelDev ------------------------------
(***************************************************************************)
(* The peer calls us, and later both ends send a re-INVITE, numbered       *)
(* alike.  Another call is made twice with one Call-ID, and we are         *)
(* notified in it.                                                         *)
(***************************************************************************)
EXTENDS RelDev

Request(c, k, meth, t) ==
    [call |-> c, req |-> TRUE, cseq |-> k, method |-> meth, tag |-> t, code |-> 0]

Response(c, k, meth, t, code) ==
    [call |-> c, req |-> FALSE, cseq |-> k, method |-> meth, tag |-> t, code |-> code]

Crossing == {Request("in", 1, "INVITE", ""),
             Request("in", 2, "INVITE", "us"),
             Response("in", 2, "INVITE", "peer", 180),
             Response("in", 2, "INVITE", "peer", 200),
             Response("in", 2, "INVITE", "peer", 486)}

Again == {Request("again", 1, "INVITE", ""), Request("again", 1, "ACK", "us"),
          Request("again", 2, "NOTIFY", "us")}

Exchange == Crossing \cup Again

(* A call of ours is answered after it rang. *)
Answered == {Response("out", 1, "INVITE", "peer", 180),
             Response("out", 1, "INVITE", "peer", 200)}
=============================================================================
