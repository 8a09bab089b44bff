------------------------------- MODULE RelDev -------------------------------
(***************************************************************************)
(* The SIP stack's reliable delivery (ccsip_reldev.c) and its callers: a   *)
(* ring of the messages received last, each with the answer that was sent  *)
(* (the response to a request, the ACK to a response), so that a           *)
(* retransmission is answered from the ring and not processed again.       *)
(*                                                                         *)
(* A message is a record of the fields the ring compares: the Call-ID, the *)
(* CSeq number and method, the tag of the To header ("" in the first       *)
(* request of a call, "us" in the peer's later ones), and the response     *)
(* code (0 in a request).  [req] stands for is_request and for the From    *)
(* and To users, which tell the peer's requests from the responses to      *)
(* ours.  The SIP thread makes every call, so a step is one whole call.    *)
(***************************************************************************)
EXTENDS Naturals

CONSTANTS N,      \* SIP_RRLIST_LENGTH
          Calls,  \* Call-IDs
          Reused, \* those the peer may use again for another call
          Msgs,   \* messages the peer sends, each as often as it likes
          None    \* no message, no answer

SameTransaction(m, n) ==
    m.call = n.call /\ m.cseq = n.cseq /\ m.method = n.method

MsgType == [call : Calls, req : BOOLEAN, cseq : Nat, method : STRING,
            tag : STRING, code : Nat]

ASSUME NAssumption == N \in Nat \ {0}

(* A request has no code, a response no tag of ours, and the peer numbers  *)
(* its requests: two of one call differ in their CSeq.  A NOTIFY and a     *)
(* response to one of ours are never in one call, nor are a first request  *)
(* of the peer and a response without a tag.  In a call whose Call-ID is   *)
(* used again, our requests are not numbered like the peer's.              *)
ASSUME MsgsAssumption ==
    /\ Msgs \subseteq MsgType
    /\ None \notin Msgs
    /\ \A m \in Msgs : /\ m.req <=> m.code = 0
                       /\ m.req => m.tag \in {"", "us"}
                       /\ ~m.req => m.tag # "us"
    /\ \A m, n \in Msgs : m.req /\ SameTransaction(m, n) =>
          \/ m = n
          \/ /\ ~n.req /\ m.method # "NOTIFY" /\ n.tag # ""
             /\ m.call \notin Reused

VARIABLES
    ring,     \* gSIPRRList
    counter,  \* the cursor of sipRelDevMessageStore
    phase,    \* of each call: the states of its ccb that matter here
    lastCode, \* last_recvd_response_code of each call
    toAck,    \* the 200 of each call whose ACK waits for the call control
    acked,    \* <<call, cseq>> of our INVITEs that are over
    open,     \* requests handed to the SIP core, which it may answer
    out       \* what the step sent again, and to what

vars == <<ring, counter, phase, lastCode, toAck, acked, open, out>>

Slots == 0..(N - 1)
Blank == [msg |-> None, ans |-> None]
Phases == {"new",         \* no ccb, or one in SIP_STATE_IDLE
           "responding",  \* RECV_INVITE_PROCEEDING or _ALERTING
           "connected",   \* RECV_INVITE_CONNECTED: 200 sent, no ACK yet
           "up",          \* any later state, or a call of ours
           "over"}        \* a previous call

Init ==
    /\ ring = [i \in Slots |-> Blank]
    /\ counter = 0
    /\ phase = [c \in Calls |-> "new"]
    /\ lastCode = [c \in Calls |-> 0]
    /\ toAck = [c \in Calls |-> None]
    /\ acked = {}
    /\ open = {}
    /\ out = None

-----------------------------------------------------------------------------
(* ccsip_reldev.c *)

(* The loops of the list stop at the first slot that matches. *)
FirstOf(S) == {i \in S : \A j \in S : i <= j}

(* Mutants of StoreAt: the cursor never wraps; it wraps one slot too early. *)
StoreAtNoWrap == counter
StoreAtTooEarly == IF counter > N - 2 THEN 0 ELSE counter

(* The slot the next message goes to: the cursor wraps lazily. *)
StoreAt == IF counter > N - 1 THEN 0 ELSE counter

(* sipRelDevMessageStore *)
Stored(r, m) == [r EXCEPT ![StoreAt] = [msg |-> m, ans |-> None]]

MessageStore(r, m) ==
    /\ ring' = Stored(r, m)
    /\ counter' = StoreAt + 1

(* Mutant of IsDuplicate: neither the tag nor the users are compared. *)
IsDuplicateByCSeq(r, m) ==
    {i \in Slots : /\ r[i].msg # None
                   /\ SameTransaction(m, r[i].msg)
                   /\ m.req \/ m.code = r[i].msg.code}

(* sipRelDevMessageIsDuplicate: a request is compared without its code. *)
IsDuplicate(r, m) ==
    {i \in Slots : /\ r[i].msg # None
                   /\ SameTransaction(m, r[i].msg)
                   /\ m.tag = r[i].msg.tag
                   /\ m.req = r[i].msg.req
                   /\ m.req \/ m.code = r[i].msg.code}

(* The slots sipRelDevCoupledMessageStore takes for the answer to m, whose *)
(* To header has the given tag: it compares neither the users nor whether  *)
(* the stored message is a request, and the code only for an ACK.          *)
CoupledMatch(r, m, tag, ignoreTag, code) ==
    {i \in Slots : /\ r[i].msg # None
                   /\ SameTransaction(m, r[i].msg)
                   /\ ignoreTag \/ tag = r[i].msg.tag
                   /\ m.req \/ r[i].msg.code = code}

(* The text is composed into the slot.  If that fails the slot stays valid *)
(* when it was, with the length of the answer it held.                     *)
Coupled(r, i, m, whole) == [r EXCEPT ![i].ans = [made |-> m, whole |-> whole]]

Written(r, i, m) ==
    {Coupled(r, i, m, TRUE),
     IF r[i].ans = None THEN r ELSE Coupled(r, i, m, FALSE)}

(* sipRelDevCoupledMessageStore: what the ring may be afterwards. *)
CoupledMessageStore(r, m, tag, ignoreTag, code) ==
    LET match == CoupledMatch(r, m, tag, ignoreTag, code)
    IN IF match = {} THEN {r} ELSE UNION {Written(r, i, m) : i \in FirstOf(match)}

(* sipRelDevCoupledMessageSend: an entry without an answer sends nothing. *)
CoupledMessageSend(r, i, m) ==
    out' = IF r[i].ans = None THEN None ELSE [to |-> m, sent |-> r[i].ans]

(* sipRelDevMessagesClear, with the users of the request m. *)
Forget(F) == [i \in Slots |-> IF i \in F THEN Blank ELSE ring[i]]

RequestsOf(c) ==
    {i \in Slots : ring[i].msg # None /\ ring[i].msg.call = c /\ ring[i].msg.req}

MessagesClear(m) == Forget(RequestsOf(m.call))

(* sipRelDevAllMessagesClear, when the subscriptions are rolled over to    *)
(* another call manager.                                                   *)
AllMessagesClear ==
    /\ ring' = Forget(Slots)
    /\ out' = None
    /\ UNCHANGED <<counter, phase, lastCode, toAck, acked, open>>

-----------------------------------------------------------------------------
(* Requests *)

FirstInvite(m) == m.method = "INVITE" /\ m.tag = ""

(* The end of sipSPICheckRequest: a duplicate is answered from the ring,   *)
(* or dropped if it is an ACK; any other request is recorded and handed on.*)
CheckRequest(r, m) ==
    LET dup == IsDuplicate(r, m)
    IN \/ /\ dup = {}
          /\ MessageStore(r, m)
          /\ open' = open \cup {m}
          /\ out' = None
       \/ /\ dup # {}
          /\ ring' = r
          /\ IF m.method = "ACK" THEN out' = None
             ELSE \E i \in FirstOf(dup) : CoupledMessageSend(r, i, m)
          /\ UNCHANGED <<counter, open>>

(* Mutant of NewCall: the requests of an older call are not forgotten. *)
NewCallRemembers(m) ==
    /\ m.req /\ FirstInvite(m)
    /\ phase[m.call] = "new"
    /\ CheckRequest(ring, m)
    /\ phase' = [phase EXCEPT ![m.call] = "responding"]
    /\ UNCHANGED <<lastCode, toAck, acked>>

(* The first INVITE of a call finds an idle ccb: requests of an older call *)
(* with its Call-ID are forgotten first.                                   *)
NewCall(m) ==
    /\ m.req /\ FirstInvite(m)
    /\ phase[m.call] = "new"
    /\ CheckRequest(MessagesClear(m), m)
    /\ phase' = [phase EXCEPT ![m.call] = "responding"]
    /\ UNCHANGED <<lastCode, toAck, acked>>

(* A request that passes the tag check; a NOTIFY is outside any call. *)
ReceiveRequest(m) ==
    /\ m.req
    /\ \/ m.method = "NOTIFY"
       \/ m.tag = "us" /\ phase[m.call] \in {"responding", "connected", "up"}
       \/ FirstInvite(m) /\ phase[m.call] \in {"responding", "connected"}
    /\ CheckRequest(ring, m)
    /\ UNCHANGED <<phase, lastCode, toAck, acked>>

(* A first INVITE that arrives again once the call is up fails the tag     *)
(* check, before the ring is looked at.  The error response is sent and    *)
(* kept like any other.                                                    *)
TagMismatch(m) ==
    /\ m.req /\ FirstInvite(m)
    /\ phase[m.call] = "up"
    /\ ring' \in CoupledMessageStore(ring, m, m.tag, FALSE, 0)
    /\ out' = None
    /\ UNCHANGED <<counter, phase, lastCode, toAck, acked, open>>

(* SendResponse: the SIP core answers a request, possibly once more.  The  *)
(* To header of the answer has our tag, or the one of the request (100     *)
(* Trying, error responses).                                               *)
Answer(m) ==
    /\ m \in open
    /\ m.method # "ACK"
    /\ phase[m.call] # "over"
    /\ \E tag \in {m.tag, "us"} :
          ring' \in CoupledMessageStore(ring, m, tag,
                        m.method = "NOTIFY" \/ phase[m.call] = "responding", 0)
    /\ out' = None
    /\ UNCHANGED <<counter, phase, lastCode, toAck, acked, open>>

(* SIPTaskRetransmitPreviousResponse for a request to a call that is over; *)
(* one that is not in the ring is refused.                                 *)
PreviousRequest(m) ==
    /\ m.req /\ m.method \notin {"ACK", "NOTIFY"}
    /\ phase[m.call] = "over"
    /\ \/ /\ \E i \in FirstOf(IsDuplicate(ring, m)) :
                CoupledMessageSend(ring, i, m)
          /\ UNCHANGED ring
       \/ /\ IsDuplicate(ring, m) = {}
          /\ ring' \in CoupledMessageStore(ring, m, m.tag, FALSE, 0)
          /\ out' = None
    /\ UNCHANGED <<counter, phase, lastCode, toAck, acked, open>>

-----------------------------------------------------------------------------
(* Responses *)

IsProvisional(m) == ~m.req /\ m.method = "INVITE" /\ m.code < 200

(* Our INVITE is outstanding until its ACK. *)
TrxOpen(m) == m.method = "INVITE" => <<m.call, m.cseq>> \notin acked

(* What the core does with a response that has a transaction: a 200 to an  *)
(* INVITE waits for the call control, an error is acknowledged at once.    *)
HandOn(r, m) ==
    LET final == m.method = "INVITE" /\ m.code >= 200
    IN /\ lastCode' = [lastCode EXCEPT ![m.call] = m.code]
       /\ IF final /\ m.code >= 300 /\ toAck[m.call] = None
          THEN /\ ring' \in CoupledMessageStore(r, m, m.tag, FALSE, m.code)
               /\ acked' = acked \cup {<<m.call, m.cseq>>}
          ELSE ring' = r /\ UNCHANGED acked
       /\ toAck' = IF final /\ m.code < 300 /\ toAck[m.call] = None
                   THEN [toAck EXCEPT ![m.call] = m] ELSE toAck

(* sipSPICheckResponse: a duplicate makes the ACK go out again; it is      *)
(* discarded unless it is provisional, which is recorded once more.  The   *)
(* response is recorded before its transaction is looked for.              *)
ReceiveResponse(m) ==
    LET dup == IsDuplicate(ring, m)
    IN /\ ~m.req
       /\ phase[m.call] \in {"new", "up"}
       /\ phase' = [phase EXCEPT ![m.call] = "up"]
       /\ \/ dup = {} /\ out' = None
          \/ \E i \in FirstOf(dup) : CoupledMessageSend(ring, i, m)
       /\ \/ /\ dup = {} \/ IsProvisional(m)
             /\ counter' = StoreAt + 1
             /\ \/ TrxOpen(m) /\ HandOn(Stored(ring, m), m)
                \/ /\ ~TrxOpen(m)
                   /\ ring' = Stored(ring, m)
                   /\ UNCHANGED <<lastCode, toAck, acked>>
          \/ /\ dup # {} /\ ~IsProvisional(m)
             /\ UNCHANGED <<ring, counter, lastCode, toAck, acked>>
       /\ UNCHANGED open

(* The call control has taken the 200 (cc_connected_ack): sipSPISendAck    *)
(* keeps the ACK with the code of the response received last.              *)
SendAck(c) ==
    /\ toAck[c] # None
    /\ phase[c] = "up"
    /\ ring' \in CoupledMessageStore(ring, toAck[c], toAck[c].tag, FALSE, lastCode[c])
    /\ toAck' = [toAck EXCEPT ![c] = None]
    /\ acked' = acked \cup {<<c, toAck[c].cseq>>}
    /\ out' = None
    /\ UNCHANGED <<counter, phase, lastCode, open>>

(* SIPTaskRetransmitPreviousResponse for a response. *)
PreviousResponse(m) ==
    /\ ~m.req
    /\ phase[m.call] = "over"
    /\ \E i \in FirstOf(IsDuplicate(ring, m)) : CoupledMessageSend(ring, i, m)
    /\ UNCHANGED <<ring, counter, phase, lastCode, toAck, acked, open>>

-----------------------------------------------------------------------------
(* The call goes on: 200 sent, ACK received, call ended; later it is no    *)
(* longer among the previous calls the phone knows.                        *)
Advance(c) ==
    /\ \/ /\ phase[c] = "responding"
          /\ phase' = [phase EXCEPT ![c] = "connected"]
          /\ UNCHANGED open
       \/ /\ phase[c] = "connected"
          /\ phase' = [phase EXCEPT ![c] = "up"]
          /\ UNCHANGED open
       \/ /\ phase[c] = "up" /\ toAck[c] = None
          /\ phase' = [phase EXCEPT ![c] = "over"]
          /\ open' = {m \in open : m.call # c}
       \/ /\ phase[c] = "over" /\ c \in Reused
          /\ phase' = [phase EXCEPT ![c] = "new"]
          /\ UNCHANGED open
    /\ out' = None
    /\ UNCHANGED <<ring, counter, lastCode, toAck, acked>>

Next ==
    \/ AllMessagesClear
    \/ \E m \in Msgs :
          \/ NewCall(m) \/ ReceiveRequest(m) \/ TagMismatch(m) \/ Answer(m)
          \/ PreviousRequest(m) \/ ReceiveResponse(m) \/ PreviousResponse(m)
    \/ \E c \in Calls : SendAck(c) \/ Advance(c)

Spec == Init /\ [][Next]_vars

-----------------------------------------------------------------------------
(* The state has its type; in particular the cursor stays in the ring. *)
AnsType == {None} \cup [made : Msgs, whole : BOOLEAN]

TypeOK ==
    /\ ring \in [Slots -> [msg : Msgs \cup {None}, ans : AnsType]]
    /\ counter \in 0..N
    /\ phase \in [Calls -> Phases]
    /\ lastCode \in [Calls -> Nat]
    /\ toAck \in [Calls -> Msgs \cup {None}]
    /\ acked \subseteq Calls \X Nat
    /\ open \subseteq Msgs
    /\ out \in {None} \cup [to : Msgs, sent : AnsType]

(* What a retransmission is answered with was made for that request, or    *)
(* for a response of the same transaction from the same end of a fork,     *)
(* although both ends number their requests alike, answers are stored by   *)
(* CSeq and the tag is not always compared (sipRelDevCoupledMessageStore). *)
OwnAnswer ==
    out # None =>
       /\ SameTransaction(out.to, out.sent.made)
       /\ out.to.req = out.sent.made.req
       /\ out.to.tag = out.sent.made.tag
       /\ out.to.req => out.to = out.sent.made

(* A call begins afresh: its first INVITE is handed on although the ring   *)
(* may hold the same INVITE of an older call with that Call-ID, and no     *)
(* answer made in the older call is left for its requests                  *)
(* (sipRelDevMessagesClear, as sipSPICheckRequest calls it).               *)
BeginsAfresh(c) ==
    phase[c] = "new" /\ phase'[c] = "responding" =>
        /\ out' = None /\ \E m \in open' : m.call = c /\ FirstInvite(m)
        /\ \A i \in Slots :
              ring'[i].msg # None /\ ring'[i].msg.call = c /\ ring'[i].msg.req
                  => ring'[i].ans = None

NewCallsAreNew == [][\A c \in Calls : BeginsAfresh(c)]_vars

(* An ACK is kept with the final response it acknowledges, "and not        *)
(* transitional responses" (comment in sipRelDevCoupledMessageStore).      *)
AckWithFinal ==
    \A i \in Slots : ring[i].msg # None /\ ring[i].ans # None
                        => ~IsProvisional(ring[i].msg)

(* The ring, seen from its newest entry, is a window on the last N         *)
(* messages: nothing among them is handed on twice, wherever the cursor    *)
(* is and however often it has wrapped.                                    *)
SlotOf(a) == IF a < counter THEN counter - 1 - a ELSE counter - 1 - a + N

Window == INSTANCE RetxWindow
             WITH Size <- N,
                  Provisional <- {m \in Msgs : IsProvisional(m)},
                  win <- [a \in Slots |-> ring[SlotOf(a)]]

IsWindow == Window!Spec
=============================================================================
