------------------------ MODULE GsmCallsDialogProofs ------------------------
(***************************************************************************)
(* Theorems about GsmCalls that relate call control to the SIP thread: a   *)
(* re-INVITE of the peer is answered, and a call that waits for something  *)
(* has something to wake it.                                               *)
(***************************************************************************)
EXTENDS GsmCallsProofs

-----------------------------------------------------------------------------
(***************************************************************************)
(* What is in a queue, and what is in it before anything else.             *)
(***************************************************************************)
Holds(q, S) == \E i \in 1 .. Len(q) : q[i] \in S
Before(q, S, T) == \E i \in 1 .. Len(q) : q[i] \in S /\ \A j \in 1 .. i - 1 : q[j] \notin T

LEMMA HoldsConcat ==
    ASSUME NEW A, NEW q \in Seq(A), NEW p \in Seq(A), NEW S
    PROVE  Holds(q \o p, S) <=> Holds(q, S) \/ Holds(p, S)
<1>1. /\ q \o p \in Seq(A) /\ Len(q \o p) = Len(q) + Len(p) /\ Len(q) \in Nat /\ Len(p) \in Nat
      /\ \A i \in 1 .. Len(q) : (q \o p)[i] = q[i]
      /\ \A i \in 1 .. Len(p) : (q \o p)[Len(q) + i] = p[i]
  OBVIOUS
<1>2. ASSUME Holds(q \o p, S) PROVE Holds(q, S) \/ Holds(p, S)
  <2>1. PICK i \in 1 .. Len(q) + Len(p) : (q \o p)[i] \in S
    BY <1>1, <1>2 DEF Holds
  <2>2. CASE i <= Len(q)
    BY <1>1, <2>1, <2>2 DEF Holds
  <2>3. CASE i > Len(q)
    <3>1. i - Len(q) \in 1 .. Len(p) /\ i = Len(q) + (i - Len(q))
      BY <1>1, <2>3
    <3> QED
      BY <1>1, <2>1, <3>1 DEF Holds
  <2> QED
    BY <1>1, <2>2, <2>3
<1>3. ASSUME Holds(q, S) PROVE Holds(q \o p, S)
  BY <1>1, <1>3 DEF Holds
<1>4. ASSUME Holds(p, S) PROVE Holds(q \o p, S)
  <2>1. PICK i \in 1 .. Len(p) : p[i] \in S
    BY <1>4 DEF Holds
  <2>2. Len(q) + i \in 1 .. Len(q \o p) /\ (q \o p)[Len(q) + i] \in S
    BY <1>1, <2>1
  <2> QED
    BY <2>2 DEF Holds
<1> QED
  BY <1>2, <1>3, <1>4

LEMMA HoldsTail ==
    ASSUME NEW A, NEW q \in Seq(A), q # <<>>, NEW S
    PROVE  Holds(q, S) <=> Head(q) \in S \/ Holds(Tail(q), S)
<1>1. /\ Len(q) \in Nat /\ Len(q) >= 1 /\ Len(Tail(q)) = Len(q) - 1 /\ Head(q) = q[1]
      /\ \A i \in 1 .. Len(q) - 1 : Tail(q)[i] = q[i + 1]
  OBVIOUS
<1>2. ASSUME Holds(q, S), Head(q) \notin S PROVE Holds(Tail(q), S)
  <2>1. PICK i \in 1 .. Len(q) : q[i] \in S
    BY <1>2 DEF Holds
  <2>2. i - 1 \in 1 .. Len(q) - 1 /\ (i - 1) + 1 = i
    BY <1>1, <1>2, <2>1
  <2> QED
    BY <1>1, <2>1, <2>2 DEF Holds
<1>3. ASSUME Holds(Tail(q), S) PROVE Holds(q, S)
  <2>1. PICK i \in 1 .. Len(q) - 1 : q[i + 1] \in S
    BY <1>1, <1>3 DEF Holds
  <2>2. i + 1 \in 1 .. Len(q)
    BY <1>1, <2>1
  <2> QED
    BY <2>1, <2>2 DEF Holds
<1>4. ASSUME Head(q) \in S PROVE Holds(q, S)
  BY <1>1, <1>4 DEF Holds
<1> QED
  BY <1>2, <1>3, <1>4

LEMMA HoldsOne == ASSUME NEW e, NEW S PROVE Holds(<<e>>, S) <=> e \in S
BY DEF Holds

LEMMA HoldsNothing == ASSUME NEW S PROVE ~Holds(<<>>, S)
BY DEF Holds

LEMMA HoldsOnly ==
    ASSUME NEW A, NEW q \in Seq(A), NEW S, A \cap S = {} PROVE ~Holds(q, S)
BY DEF Holds

LEMMA BeforeConcat ==
    ASSUME NEW A, NEW q \in Seq(A), NEW p \in Seq(A), NEW S, NEW T, Before(q, S, T)
    PROVE  Before(q \o p, S, T)
<1>1. /\ Len(q \o p) = Len(q) + Len(p) /\ Len(q) \in Nat /\ Len(p) \in Nat
      /\ \A i \in 1 .. Len(q) : (q \o p)[i] = q[i]
  OBVIOUS
<1>2. PICK i \in 1 .. Len(q) : q[i] \in S /\ \A j \in 1 .. i - 1 : q[j] \notin T
  BY DEF Before
<1>3. i \in 1 .. Len(q \o p) /\ (q \o p)[i] \in S
  BY <1>1, <1>2
<1>4. \A j \in 1 .. i - 1 : (q \o p)[j] \notin T
  BY <1>1, <1>2
<1> QED
  BY <1>3, <1>4 DEF Before

(* What comes first is taken first. *)
LEMMA BeforeTail ==
    ASSUME NEW A, NEW q \in Seq(A), q # <<>>, NEW S, NEW T, Before(q, S, T), Head(q) \notin S
    PROVE  Before(Tail(q), S, T) /\ Head(q) \notin T
<1>1. /\ Len(q) \in Nat /\ Len(q) >= 1 /\ Len(Tail(q)) = Len(q) - 1 /\ Head(q) = q[1]
      /\ \A i \in 1 .. Len(q) - 1 : Tail(q)[i] = q[i + 1]
  OBVIOUS
<1>2. PICK i \in 1 .. Len(q) : q[i] \in S /\ \A j \in 1 .. i - 1 : q[j] \notin T
  BY DEF Before
<1>3. i - 1 \in 1 .. Len(q) - 1 /\ (i - 1) + 1 = i
  BY <1>1, <1>2
<1>4. Head(q) \notin T
  BY <1>1, <1>2, <1>3
<1>5. \A j \in 1 .. (i - 1) - 1 : Tail(q)[j] \notin T
  <2> TAKE j \in 1 .. (i - 1) - 1
  <2>1. j + 1 \in 1 .. i - 1 /\ j \in 1 .. Len(q) - 1
    BY <1>3
  <2> QED
    BY <1>1, <1>2, <2>1
<1>6. Tail(q)[i - 1] \in S
  BY <1>1, <1>2, <1>3
<1> QED
  BY <1>1, <1>3, <1>4, <1>5, <1>6 DEF Before

(* A message that is added is behind nothing of T if there is nothing of T. *)
LEMMA BeforeNew ==
    ASSUME NEW A, NEW q \in Seq(A), NEW e \in A, NEW S, NEW T, e \in S, ~Holds(q, T)
    PROVE  Before(q \o <<e>>, S, T)
<1>1. /\ Len(q \o <<e>>) = Len(q) + 1 /\ Len(q) \in Nat
      /\ \A i \in 1 .. Len(q) : (q \o <<e>>)[i] = q[i]
      /\ (q \o <<e>>)[Len(q) + 1] = e
  OBVIOUS
<1>2. Len(q) + 1 \in 1 .. Len(q \o <<e>>) /\ (Len(q) + 1) - 1 = Len(q)
  BY <1>1
<1>3. \A j \in 1 .. Len(q) : (q \o <<e>>)[j] \notin T
  BY <1>1 DEF Holds
<1> QED
  BY <1>1, <1>2, <1>3 DEF Before

(* The messages of a call, in the two queues. *)
Of(c, evs) == {m \in Message : m.call = c /\ m.ev \in evs}
SipOf(c, evs) == {m \in SipMessage : m.call = c /\ m.ev \in evs}

LEMMA NullIsNone == NullMessage \notin Message
<1>1. DOMAIN NullMessage = {"ev"}
  BY DEF NullMessage
<1>2. \A m \in Message : "call" \in DOMAIN m
  BY DEF Message
<1> QED
  BY <1>1, <1>2

LEMMA QueuedIs ==
    ASSUME NEW q \in Seq(Message \cup {NullMessage}), NEW c, NEW evs
    PROVE  (\E i \in 1 .. Len(q) : q[i] # NullMessage /\ q[i].call = c /\ q[i].ev \in evs)
              <=> Holds(q, Of(c, evs))
<1>1. \A i \in 1 .. Len(q) : q[i] \in Message \cup {NullMessage}
  OBVIOUS
<1>2. \A i \in 1 .. Len(q) : q[i] \in Message <=> q[i] # NullMessage
  BY <1>1, NullIsNone
<1> QED
  BY <1>2 DEF Holds, Of

LEMMA SentIs ==
    ASSUME NEW q \in Seq(SipMessage), NEW c, NEW evs
    PROVE  (\E i \in 1 .. Len(q) : q[i].call = c /\ q[i].ev \in evs) <=> Holds(q, SipOf(c, evs))
<1>1. \A i \in 1 .. Len(q) : q[i] \in SipMessage
  OBVIOUS
<1> QED
  BY <1>1 DEF Holds, SipOf

-----------------------------------------------------------------------------
(***************************************************************************)
(* The inductive invariant, on top of Inv.  Known: nothing is known of a   *)
(* call id before it is used, the requests of the user are the only        *)
(* messages that the lock of the user interface filters, and the gate sets *)
(* aside only what it may.                                                 *)
(***************************************************************************)
KnownMessage == {m \in Message : m.call \in started /\ (m.src = "UI" => m.ev \in UiEvents)}
SetAside == {m \in KnownMessage : m.ev \in DeferredEvents}
KnownSipMessage == {m \in SipMessage : m.call \in started}

Known ==
    /\ gsmQ \in Seq(KnownMessage \cup {NullMessage})
    /\ dcsm.q \in Seq(SetAside)
    /\ sipQ \in Seq(KnownSipMessage)
    /\ \A c \in Calls : call[c].chain \/ call[c].tmr = "on" \/ call[c].errTmr => c \in started
    /\ \A c \in Calls : c \notin started => sip[c].st = "IDLE"

(* RecordGood: a call with a dialog is ended with RELEASE, a call that may *)
(* use the audio path is not held, and only a call that is left to its     *)
(* request pending timer has been misled about it.                         *)
RecordGood(r) ==
    /\ r.st \notin {"IDLE", "COLLECT_INFO", "RELEASING"} => r.sendRelease
    /\ r.st \in UpToConnecting \cup ConnectedStates => ~r.held
    /\ r.misled => r.st \in RetryStates
RecordsGood == \A c \in Calls : RecordGood(call[c])

(* SipAhead: what the SIP thread has told call control agrees with the     *)
(* state of its dialog, however far call control is behind.                *)
Talking == {"HOLD_PENDING", "HOLDING"} \cup ConnectedStates
Final == {"RELEASE", "RELEASE_BYE_SENT", "CLEANED_UP"}
SipAhead(c) ==
    /\ Queued(c, {"RELEASE"}) => sip[c].st \in Final
    /\ Queued(c, {"CONNECTED"}) \/ Sent(c, {"CONNECTED_ACK"}) =>
          sip[c].st \in {"SENT_INVITE_CONNECTED"} \cup Established \cup Final
    /\ Queued(c, {"CONNECTED_ACK", "MEDIA"}) => sip[c].st \in Established \cup Final

(* GsmAhead: a call with a dialog in the SIP thread is in a state in which *)
(* call control answers a re-INVITE, or is about to be in one before it    *)
(* sees the re-INVITE, or has asked the SIP thread to end the dialog.      *)
Alive(c) == call[c].st \in Talking \/ Sent(c, {"RELEASE"})
AckAhead(c) == Before(gsmQ, Of(c, {"CONNECTED_ACK"}), Of(c, {"MEDIA"}))
Agreed(c) == sip[c].st = "RECV_INVITE_CONNECTED" \/
             (sip[c].st = "RECV_INVITE" /\ Sent(c, {"CONNECTED"}))
GsmAhead(c) ==
    /\ sip[c].st = "SENT_INVITE_CONNECTED" /\ Sent(c, {"CONNECTED_ACK"}) => Alive(c)
    /\ Agreed(c) => call[c].st = "CONNECTING" \/ Sent(c, {"RELEASE"})
    /\ sip[c].st \in Established => Alive(c) \/ (call[c].st = "CONNECTING" /\ AckAhead(c))

-----------------------------------------------------------------------------
(***************************************************************************)
(* What one handler does, in the terms of this invariant: the call gets    *)
(* the record n, messages of call control's own are posted, and at most    *)
(* one message e is sent to the SIP thread.                                *)
(***************************************************************************)
Inner == {m \in KnownMessage : m.ev \in UiEvents \cup {"ONHOOK"}} \cup {NullMessage}
Sends(e, c) == IF e = "none" THEN <<>> ELSE ToSip(e, c)

Outcome(x, c, n, e) ==
    /\ call' = [call EXCEPT ![c] = n]
    /\ \E posts \in Seq(Inner) : gsmQ' = x.q \o posts
    /\ sipQ' = sipQ \o Sends(e, c)
    /\ dcsm'.q = x.d.q

(* What message m may change a record r to, and what may be sent with it. *)
DialogKept(m, r, n, e) ==
    /\ r.st \in Talking /\ n.st \notin Talking => e = "RELEASE" \/ m.ev = "RELEASE"
    /\ r.st = "CONNECTING" /\ n.st # "CONNECTING" =>
          e = "RELEASE" \/ m.ev = "RELEASE" \/ (m.ev = "CONNECTED_ACK" /\ n.st \in Talking)
    /\ r.st = "CONNECTING" /\ m.ev = "CONNECTED_ACK" => n.st \in Talking
    /\ r.st \in Talking /\ m.ev = "MEDIA" => e = "MEDIA_ACK"
    /\ e = "CONNECTED_ACK" => n.st \in Talking /\ m.ev = "CONNECTED"
    /\ e = "CONNECTED" => n.st = "CONNECTING"

(* The same for what a waiting call waits for.  The expiry of its timer    *)
(* may still be in the queue.                                              *)
Expired(x, m) == Holds(x.q, Of(m.call, {"REQ_PEND_TIMER_EXP"}))
WakeKept(x, m, r, n, e) ==
    /\ n.st \in RetryStates =>
          \/ n.misled \/ n.tmr = "on" \/ e = "RESUME" \/ Expired(x, m)
          \/ /\ r.st \in RetryStates /\ n.tmr = r.tmr /\ (r.misled => n.misled)
             /\ m.ev \notin {"REQ_PEND_TIMER_EXP", "RELEASE"}
             /\ m.ev = "RESUME_ACK" => r.st = "HOLD_PENDING" /\ r.held
    /\ n.st = "HOLD_PENDING" /\ n.held =>
          \/ n.misled \/ n.tmr = "on" \/ Expired(x, m)
          \/ /\ r.st = "HOLD_PENDING" /\ r.held /\ n.tmr = r.tmr /\ (r.misled => n.misled)
             /\ m.ev # "REQ_PEND_TIMER_EXP"
    /\ n.st = "CONNECTED_MEDIA_PEND" =>
          \/ n.tmr = "on" \/ e = "MEDIA"
          \/ /\ r.st = "CONNECTED_MEDIA_PEND" /\ n.tmr = r.tmr
             /\ m.ev \notin {"REQ_PEND_TIMER_EXP", "RELEASE", "MEDIA_ACK"}

Allowed(x, m, r, n, e) ==
    /\ RecordGood(n)
    /\ DialogKept(m, r, n, e)
    /\ WakeKept(x, m, r, n, e)

Done(x, m) == \E n \in CallRecord, e \in SipEvents \cup {"none"} :
    Outcome(x, m.call, n, e) /\ Allowed(x, m, call[m.call], n, e)

(* The situation of a handler. *)
Situation(x, m) ==
    /\ Core /\ Known /\ RecordsGood /\ GoodX(x)
    /\ m \in KnownMessage

(* What fsm_change_state() makes of a call record. *)
LEMMA MovedIs ==
    ASSUME NEW r \in CallRecord, NEW s \in States
    PROVE  /\ Moved(r, s) \in CallRecord
           /\ Moved(r, s).st = s /\ Moved(r, s).tmr = r.tmr /\ Moved(r, s).held = r.held
           /\ Moved(r, s).sendRelease = r.sendRelease
           /\ Moved(r, s).misled => r.misled /\ s \in RetryStates
           /\ r.misled /\ s \in RetryStates => Moved(r, s).misled
<1>1. (r.misled /\ s \in RetryStates) \in BOOLEAN
  OBVIOUS
<1> DEFINE b == r.misled /\ s \in RetryStates
<1>2. Moved(r, s) = [r EXCEPT !.st = s, !.misled = b]
  BY DEF Moved
<1> HIDE DEF b
<1>3. /\ Moved(r, s) \in CallRecord
      /\ Moved(r, s).st = s /\ Moved(r, s).tmr = r.tmr /\ Moved(r, s).held = r.held
      /\ Moved(r, s).sendRelease = r.sendRelease
      /\ Moved(r, s).misled = b
  BY <1>1, <1>2 DEF CallRecord, b
<1> QED
  BY <1>3 DEF b

LEMMA MovedGood ==
    ASSUME NEW r \in CallRecord, NEW s \in States,
           s \notin {"IDLE", "COLLECT_INFO", "RELEASING"} => r.sendRelease,
           s \in UpToConnecting \cup ConnectedStates => ~r.held
    PROVE  RecordGood(Moved(r, s))
BY MovedIs DEF RecordGood

LEMMA StayDone ==
    ASSUME NEW x, NEW m, Situation(x, m), NEW n \in CallRecord, NEW e \in SipEvents \cup {"none"},
           NEW posts \in Seq(Inner), Stay(x, m.call, n, posts, Sends(e, m.call)),
           Allowed(x, m, call[m.call], n, e)
    PROVE  Done(x, m)
<1>1. Outcome(x, m.call, n, e)
  BY DEF Stay, Outcome
<1> QED
  BY <1>1 DEF Done

LEMMA ChangeDone ==
    ASSUME NEW x, NEW m, Situation(x, m), NEW r \in CallRecord, NEW s \in States,
           NEW e \in SipEvents \cup {"none"},
           ChangeState(x, m.call, r, s, Sends(e, m.call)),
           Allowed(x, m, call[m.call], Moved(r, s), e)
    PROVE  Done(x, m)
<1> DEFINE n == Moved(r, s)
<1>1. n \in CallRecord
  BY MovedIs
<1>2. dcsm'.q = x.d.q
  <2>1. x.d \in DcsmRecord
    BY DEF Situation, GoodX
  <2> QED
    BY <2>1 DEF ChangeState, UpdateGsmState, DcsmRecord
<1>3. PICK posts \in Seq(Inner) : gsmQ' = x.q \o posts
  <2>1. x.q \in Seq(Message \cup {NullMessage})
    BY DEF Situation, GoodX
  <2>2. <<NullMessage>> \in Seq(Inner) /\ <<>> \in Seq(Inner)
    BY DEF Inner
  <2>3. Append(x.q, NullMessage) = x.q \o <<NullMessage>> /\ x.q \o <<>> = x.q
    BY <2>1
  <2> QED
    BY <2>2, <2>3 DEF ChangeState
<1>4. Outcome(x, m.call, n, e)
  BY <1>2, <1>3 DEF ChangeState, Outcome
<1> QED
  BY <1>1, <1>4 DEF Done

-----------------------------------------------------------------------------
(* The helpers of the handlers: fsmdef_release(), fsm_hold_local() and the *)
(* others, when a handler may use them.                                    *)
LEMMA NoCallGood ==
    /\ NoCall \in CallRecord /\ RecordGood(NoCall) /\ NoCall.st = "IDLE" /\ NoCall.tmr = "off"
    /\ ~NoCall.misled
BY NoCallType DEF RecordGood, NoCall

LEMMA StatesApart ==
    /\ Talking \cap {"IDLE", "RELEASING", "CONNECTING", "COLLECT_INFO", "INCOMING_ALERTING"} = {}
    /\ Talking \cap CallSent = {} /\ "CONNECTED" \in Talking /\ "HOLDING" \in Talking
    /\ "HOLD_PENDING" \in Talking /\ "RESUME_PENDING" \in Talking
    /\ "CONNECTED_MEDIA_PEND" \in Talking
    /\ (UpToConnecting \cup ConnectedStates) \cap {"RELEASING", "HOLDING", "HOLD_PENDING"} = {}
    /\ RetryStates = {"HOLD_PENDING", "RESUME_PENDING"}
BY DEF Talking, ConnectedStates, CallSent, Dialing, UpToConnecting, RetryStates

LEMMA SituationFacts ==
    ASSUME NEW x, NEW m, Situation(x, m)
    PROVE  /\ m \in Message /\ m.call \in Calls /\ m.call \in started
           /\ m.ev \in Events /\ m.cause \in Causes /\ m.src \in {"UI", "GSM", "SIP"}
           /\ call[m.call] \in CallRecord /\ RecordGood(call[m.call])
           /\ call[m.call].sendRelease \in BOOLEAN
           /\ call[m.call].st # "IDLE" => call[m.call].chain
BY DEF Situation, KnownMessage, Message, Core, CoreType, ChainOut, RecordsGood, CallRecord

LEMMA FreeDone ==
    ASSUME NEW x, NEW m, Situation(x, m), NEW e \in {"none", "RELEASE_COMPLETE"},
           Free(x, m.call, Sends(e, m.call)),
           m.ev = "RELEASE" \/ call[m.call].st \notin Talking \cup {"CONNECTING"},
           m.ev \notin {"CONNECTED_ACK", "MEDIA"}
    PROVE  Done(x, m)
<1>1. ChangeState(x, m.call, NoCall, "IDLE", Sends(e, m.call))
  BY DEF Free
<1>2. Moved(NoCall, "IDLE") = NoCall
  <2>1. (NoCall.misled /\ "IDLE" \in RetryStates) = FALSE
    BY DEF NoCall
  <2>2. Moved(NoCall, "IDLE") = [NoCall EXCEPT !.st = "IDLE", !.misled = FALSE]
    BY <2>1 DEF Moved
  <2> QED
    BY <2>2 DEF NoCall
<1>3. Allowed(x, m, call[m.call], NoCall, e)
  BY NoCallGood, StatesApart DEF Allowed, DialogKept, WakeKept
<1>4. e \in SipEvents \cup {"none"} /\ "IDLE" \in States
  BY DEF SipEvents, States, UpToConnecting
<1> QED
  BY <1>1, <1>2, <1>3, <1>4, NoCallGood, ChangeDone

LEMMA ReleaseDone ==
    ASSUME NEW x, NEW m, Situation(x, m), NEW r \in CallRecord, NEW sendRelease \in BOOLEAN,
           Release(x, m.call, r, sendRelease),
           r.tmr = call[m.call].tmr,
           sendRelease \/ m.ev = "RELEASE" \/ call[m.call].st \notin Talking \cup {"CONNECTING"},
           m.ev \notin {"CONNECTED_ACK", "MEDIA"}
    PROVE  Done(x, m)
<1>1. CASE sendRelease
  <2> DEFINE n == Moved(r, "RELEASING")
  <2>1. ChangeState(x, m.call, r, "RELEASING", Sends("RELEASE", m.call))
    BY <1>1 DEF Release, Sends
  <2>2. n.st = "RELEASING" /\ n.tmr = r.tmr /\ ~n.misled
    BY MovedIs DEF States, RetryStates
  <2> HIDE DEF n
  <2>3. Allowed(x, m, call[m.call], n, "RELEASE")
    BY <2>2, StatesApart DEF Allowed, RecordGood, DialogKept, WakeKept
  <2>4. "RELEASE" \in SipEvents \cup {"none"} /\ "RELEASING" \in States
    BY DEF SipEvents, States
  <2> QED
    BY <2>1, <2>3, <2>4, ChangeDone DEF n
<1>2. CASE ~sendRelease
  <2>1. PICK e \in {"none", "RELEASE_COMPLETE"} : Free(x, m.call, Sends(e, m.call))
    BY <1>2 DEF Release, Sends
  <2> QED
    BY <1>2, <2>1, FreeDone
<1> QED
  BY <1>1, <1>2

(* Nothing is changed, and nothing is sent. *)
LEMMA SameDone ==
    ASSUME NEW x, NEW m, Situation(x, m), NEW n \in CallRecord,
           Stay(x, m.call, n, <<>>, <<>>), Allowed(x, m, call[m.call], n, "none")
    PROVE  Done(x, m)
<1>1. <<>> \in Seq(Inner) /\ <<>> = Sends("none", m.call)
  BY DEF Sends
<1> QED
  BY <1>1, StayDone

LEMMA ToHolding ==
    ASSUME NEW x, NEW m, Situation(x, m), NEW r \in CallRecord, NEW e \in {"none", "HOLD"},
           ChangeState(x, m.call, [r EXCEPT !.held = TRUE], "HOLDING", Sends(e, m.call)),
           call[m.call].st \in Talking, r.sendRelease, r.tmr \in {call[m.call].tmr, "off"},
           m.ev # "MEDIA"
    PROVE  Done(x, m)
<1> DEFINE h == [r EXCEPT !.held = TRUE]
           n == Moved(h, "HOLDING")
<1>1. h \in CallRecord /\ h.sendRelease /\ h.tmr = r.tmr
  BY DEF CallRecord
<1>2. e \in SipEvents \cup {"none"} /\ "HOLDING" \in States
  BY DEF SipEvents, States
<1> HIDE DEF h
<1>3. Allowed(x, m, call[m.call], n, e)
  <2>1. n.st = "HOLDING" /\ n.tmr = r.tmr /\ n.sendRelease /\ ~n.misled
    BY <1>1, <1>2, MovedIs DEF RetryStates
  <2> HIDE DEF n
  <2> QED
    BY <2>1, StatesApart DEF Allowed, RecordGood, DialogKept, WakeKept
<1>4. ChangeState(x, m.call, h, "HOLDING", Sends(e, m.call))
  BY DEF h
<1> QED
  BY <1>1, <1>2, <1>3, <1>4, ChangeDone

LEMMA HoldLocalDone ==
    ASSUME NEW x, NEW m, Situation(x, m), NEW r \in CallRecord, NEW resend \in BOOLEAN,
           HoldLocal(x, m.call, r, resend),
           call[m.call].st \in Talking, r.sendRelease, r.tmr \in {call[m.call].tmr, "off"},
           m.ev # "MEDIA",
           r.held /\ ~resend => Allowed(x, m, call[m.call], r, "none")
    PROVE  Done(x, m)
<1>1. CASE ~resend /\ r.held
  BY <1>1, SameDone DEF HoldLocal
<1>2. CASE ~(~resend /\ r.held)
  <2>1. ChangeState(x, m.call, [r EXCEPT !.held = TRUE], "HOLDING", Sends("HOLD", m.call))
    BY <1>2 DEF HoldLocal, Sends
  <2> QED
    BY <2>1, ToHolding
<1> QED
  BY <1>1, <1>2

LEMMA HoldLocalOnlyDone ==
    ASSUME NEW x, NEW m, Situation(x, m), NEW r \in CallRecord,
           HoldLocalOnly(x, m.call, r),
           call[m.call].st \in Talking, r.sendRelease, r.tmr \in {call[m.call].tmr, "off"},
           m.ev # "MEDIA",
           r.held => Allowed(x, m, call[m.call], r, "none")
    PROVE  Done(x, m)
<1>1. CASE r.held
  BY <1>1, SameDone DEF HoldLocalOnly
<1>2. CASE ~r.held
  <2>1. ChangeState(x, m.call, [r EXCEPT !.held = TRUE], "HOLDING", Sends("none", m.call))
    BY <1>2 DEF HoldLocalOnly, Sends
  <2> QED
    BY <2>1, ToHolding
<1> QED
  BY <1>1, <1>2

LEMMA TransitionDone ==
    ASSUME NEW x, NEW m, Situation(x, m), NEW r \in CallRecord,
           NEW e \in {"none", "CONNECTED_ACK"},
           TransitionToConnected(x, m.call, r, Sends(e, m.call)),
           r.sendRelease, ~r.held, m.ev # "MEDIA", e # "none" => m.ev = "CONNECTED",
           call[m.call].st = "CONNECTING" => m.ev = "CONNECTED_ACK"
    PROVE  Done(x, m)
<1> DEFINE t == [r EXCEPT !.tmr = "off"]
           n == Moved(t, "CONNECTED")
<1>1. t \in CallRecord /\ t.tmr = "off" /\ t.sendRelease /\ ~t.held
  BY DEF CallRecord
<1>2. e \in SipEvents \cup {"none"} /\ "CONNECTED" \in States
  BY DEF SipEvents, States, ConnectedStates
<1>3. ChangeState(x, m.call, t, "CONNECTED", Sends(e, m.call))
  BY DEF TransitionToConnected
<1> HIDE DEF t
<1>4. Allowed(x, m, call[m.call], n, e)
  <2>1. n.st = "CONNECTED" /\ n.tmr = "off" /\ n.sendRelease /\ ~n.held /\ ~n.misled
    BY <1>1, <1>2, MovedIs DEF RetryStates
  <2> HIDE DEF n
  <2> QED
    BY <2>1, StatesApart DEF Allowed, RecordGood, DialogKept, WakeKept
<1> QED
  BY <1>1, <1>2, <1>3, <1>4, ChangeDone

-----------------------------------------------------------------------------
(* The handlers of fsmdef's table. *)
LEMMA InGives ==
    ASSUME NEW x, NEW m, Situation(x, m), NEW S, NEW evs, In(m, S, evs)
    PROVE  m.ev \in evs /\ call[m.call].st \in S /\ call[m.call].chain
BY DEF In

(* What fsmdef_wait_to_start_new_call() posts is for calls that exist. *)
LEMMA ClearTheWayInner ==
    ASSUME NEW x, NEW m, Situation(x, m), NEW src \in {"UI", "GSM", "SIP"},
           NEW ev \in UiEvents, NEW again, again = Msg(ev, m.call, src, "ok")
    PROVE  \A s \in {"UI", "GSM", "SIP"} : ClearTheWay(m.call, s, again) \in Seq(Inner)
<1> TAKE s \in {"UI", "GSM", "SIP"}
<1> DEFINE c == m.call
           E == {Msg("END_CALL", k, "GSM", "ok") : k \in ToEnd(c)}
           f == [k \in ToEnd(c) |-> Msg("END_CALL", k, "GSM", "ok")]
           h == IF Connected = {} THEN <<>>
                ELSE <<Msg("HOLD", CHOOSE k \in Connected : TRUE, s, "ok")>>
<1>1. IsFiniteSet(ToEnd(c))
  <2>1. ToEnd(c) \in SUBSET Calls
    BY DEF ToEnd, RingingOrReleasing
  <2> QED
    BY <2>1, CallsAssumption, FS_Subset
<1>2. IsFiniteSet(E)
  <2>1. f \in Surjection(ToEnd(c), E)
    BY Zenon DEF Surjection
  <2> QED
    BY <1>1, <2>1, FS_Surjection
<1>3. \A k \in Calls, e \in UiEvents, v \in {"UI", "GSM", "SIP"} :
         k \in started => Msg(e, k, v, "ok") \in Inner
  BY DEF Msg, Message, Inner, KnownMessage, Events, Causes
<1>4. \A k \in Calls : call[k].chain => k \in started
  BY DEF Situation, Known
<1>5. SetToSeq(E) \in Seq(Inner)
  <2>1. E \subseteq Inner
    BY <1>3, <1>4 DEF ToEnd, RingingOrReleasing, UiEvents
  <2> HIDE DEF E
  <2>2. SetToSeq(E) \in Seq(E)
    BY <1>2, SetToSeqType
  <2> QED
    BY <2>1, <2>2, SeqMonotone
<1>6. h \in Seq(Inner)
  <2>1. CASE Connected = {}
    BY <2>1, EmptyType
  <2>2. CASE Connected # {}
    <3> DEFINE k == CHOOSE k \in Connected : TRUE
    <3>1. k \in Calls /\ call[k].st \in ConnectedStates
      BY <2>2 DEF Connected
    <3>2. k \in started
      BY <1>4, <3>1 DEF Situation, Core, ChainOut, ConnectedStates
    <3> HIDE DEF k
    <3>3. Msg("HOLD", k, s, "ok") \in Inner
      BY <1>3, <3>1, <3>2 DEF UiEvents
    <3>4. <<Msg("HOLD", k, s, "ok")>> \in Seq(Inner)
      BY <3>3, OneType
    <3> QED
      BY <2>2, <3>4 DEF k
  <2> QED
    BY <2>1, <2>2
<1>7. again \in Inner
  BY <1>3, SituationFacts
<1>8. ClearTheWay(c, s, again) = h \o SetToSeq(E) \o <<again>>
  BY DEF ClearTheWay
<1> HIDE DEF E, h
<1> QED
  BY <1>5, <1>6, <1>7, <1>8, ConcatType, OneType, Zenon

(* A handler that waits for other calls to get out of the way. *)
LEMMA WaitDone ==
    ASSUME NEW x, NEW m, Situation(x, m), NEW n \in CallRecord,
           NEW src \in {"UI", "GSM", "SIP"}, NEW v \in {"UI", "GSM", "SIP"}, m.ev \in UiEvents,
           Stay(x, m.call, n, ClearTheWay(m.call, src, Msg(m.ev, m.call, v, "ok")), <<>>),
           Allowed(x, m, call[m.call], n, "none")
    PROVE  Done(x, m)
<1>1. ClearTheWay(m.call, src, Msg(m.ev, m.call, v, "ok")) \in Seq(Inner)
  BY ClearTheWayInner
<1>2. <<>> = Sends("none", m.call) /\ "none" \in SipEvents \cup {"none"}
  BY DEF Sends
<1> QED
  BY <1>1, <1>2, StayDone

(* A call that is not in use and gets its first record. *)
LEMMA FirstAllowed ==
    ASSUME NEW x, NEW m, NEW r, r.st \in {"IDLE", "INCOMING_ALERTING", "COLLECT_INFO", "CALL_SENT",
                                   "OUTGOING_PROCEEDING", "OUTGOING_ALERTING"},
           NEW n, NEW e \in {"none", "SETUP"}, RecordGood(n),
           n.st \in {"IDLE", "INCOMING_ALERTING"} \cup Dialing
    PROVE  Allowed(x, m, r, n, e)
BY DEF Allowed, DialogKept, WakeKept, Talking, RetryStates, ConnectedStates, Dialing

LEMMA SetupDone ==
    ASSUME NEW x, NEW m, Situation(x, m),
           \/ IdleSetup(x, m) \/ IdleEndCall(x, m) \/ IdleOffhook(x, m) \/ Dialstring(x, m)
           \/ CollectingInfoEndCall(x, m)
    PROVE  Done(x, m)
<1> DEFINE c == m.call
           r == call[c]
<1>1. /\ m.ev \in Events /\ m.src \in {"UI", "GSM", "SIP"} /\ r \in CallRecord /\ RecordGood(r)
      /\ c \in Calls /\ c \in started /\ r.sendRelease \in BOOLEAN
  BY SituationFacts
<1>2. \A e \in SipEvents : ToSip(e, c) = Sends(e, c)
  BY DEF Sends, SipEvents
<1>3. <<>> = Sends("none", c)
  BY DEF Sends
<1>4. "none" \in SipEvents \cup {"none"} /\ "SETUP" \in SipEvents
  BY DEF SipEvents
<1>5. Core
  BY DEF Situation
<1> HIDE DEF r
<1>6. CASE IdleSetup(x, m)
  <2> DEFINE n == [NoCall EXCEPT !.chain = TRUE]
             p == <<Msg("END_CALL", c, "GSM", "ok")>>
             a == [n EXCEPT !.sendRelease = TRUE, !.sendComplete = TRUE]
             z == Moved(a, "INCOMING_ALERTING")
  <2>1. r.st = "IDLE"
    BY <1>1, <1>5, <1>6 DEF IdleSetup, Core, ChainOut, r
  <2>2. /\ n \in CallRecord /\ n.st = "IDLE" /\ RecordGood(n)
        /\ a \in CallRecord /\ z.st = "INCOMING_ALERTING" /\ RecordGood(z)
    <3>1. /\ n \in CallRecord /\ n.st = "IDLE" /\ RecordGood(n)
          /\ a \in CallRecord /\ a.sendRelease /\ ~a.held
      BY NoCallType DEF RecordGood, NoCall, CallRecord
    <3>2. "INCOMING_ALERTING" \in States
      BY DEF States, UpToConnecting
    <3> HIDE DEF n, a
    <3> QED
      BY <3>1, <3>2, MovedIs, MovedGood
  <2>3. p \in Seq(Inner)
    <3>1. Msg("END_CALL", c, "GSM", "ok") \in Inner
      BY <1>1 DEF Msg, Message, Inner, KnownMessage, Events, UiEvents, Causes
    <3> QED
      BY <3>1, OneType
  <2>4. \/ Stay(x, c, n, p, <<>>)
        \/ ChangeState(x, c, a, "INCOMING_ALERTING", <<>>)
    BY <1>6 DEF IdleSetup
  <2> HIDE DEF n, a, p
  <2>5. CASE Stay(x, c, n, p, <<>>)
    <3>1. Allowed(x, m, r, n, "none")
      BY <2>1, <2>2, FirstAllowed
    <3> QED
      BY <1>3, <1>4, <2>2, <2>3, <2>5, <3>1, StayDone DEF r
  <2>6. CASE ChangeState(x, c, a, "INCOMING_ALERTING", <<>>)
    <3>1. Allowed(x, m, r, z, "none")
      <4> HIDE DEF z
      <4> QED
        BY <2>1, <2>2, FirstAllowed
    <3>2. "INCOMING_ALERTING" \in States
      BY DEF States, UpToConnecting
    <3> QED
      BY <1>3, <1>4, <2>2, <2>6, <3>1, <3>2, ChangeDone DEF r
  <2> QED
    BY <2>4, <2>5, <2>6
<1>7. CASE IdleEndCall(x, m)
  <2> DEFINE n == [r EXCEPT !.sendRelease = ~r.out]
  <2>1. r.st = "IDLE" /\ m.ev = "END_CALL"
    BY <1>7 DEF IdleEndCall, In, r
  <2>2. n \in CallRecord /\ n.sendRelease \in BOOLEAN /\ n.tmr = r.tmr
    BY <1>1 DEF CallRecord
  <2>3. Release(x, c, n, n.sendRelease)
    BY <1>7 DEF IdleEndCall, r
  <2> HIDE DEF n
  <2> QED
    BY <2>1, <2>2, <2>3, ReleaseDone, StatesApart DEF r
<1>8. CASE IdleOffhook(x, m)
  <2> DEFINE n == [NoCall EXCEPT !.chain = TRUE, !.out = TRUE]
             o == Moved(n, "COLLECT_INFO")
             d == [n EXCEPT !.sendRelease = TRUE]
             z == Moved(d, "CALL_SENT")
  <2>1. r.st = "IDLE" /\ m.ev \in {"OFFHOOK", "DIALSTRING"} /\ m.ev \in UiEvents
    BY <1>8 DEF IdleOffhook, UiEvents, r
  <2>2. /\ n \in CallRecord /\ n.st = "IDLE" /\ RecordGood(n)
        /\ o.st = "COLLECT_INFO" /\ RecordGood(o)
        /\ d \in CallRecord /\ z.st = "CALL_SENT" /\ RecordGood(z)
    <3>1. /\ n \in CallRecord /\ n.st = "IDLE" /\ RecordGood(n) /\ ~n.held
          /\ d \in CallRecord /\ d.sendRelease /\ ~d.held
      BY NoCallType DEF RecordGood, NoCall, CallRecord
    <3>2. "COLLECT_INFO" \in States /\ "CALL_SENT" \in States
      BY DEF States, UpToConnecting, Dialing
    <3> HIDE DEF n, d
    <3> QED
      BY <3>1, <3>2, MovedIs, MovedGood
  <2>3. \/ Stay(x, c, n, ClearTheWay(c, "GSM", Msg(m.ev, c, "GSM", "ok")), <<>>)
        \/ ChangeState(x, c, n, "COLLECT_INFO", <<>>)
        \/ ChangeState(x, c, d, "CALL_SENT", ToSip("SETUP", c))
    BY <1>8 DEF IdleOffhook
  <2>4. /\ {"COLLECT_INFO", "CALL_SENT"} \subseteq States /\ "COLLECT_INFO" \in Dialing
        /\ "CALL_SENT" \in Dialing
    BY DEF States, UpToConnecting, Dialing
  <2> HIDE DEF n, d
  <2>5. Allowed(x, m, r, n, "none") /\ Allowed(x, m, r, o, "none") /\ Allowed(x, m, r, z, "SETUP")
    <3> HIDE DEF o, z
    <3> QED
      BY <2>1, <2>2, <2>4, FirstAllowed
  <2>6. CASE Stay(x, c, n, ClearTheWay(c, "GSM", Msg(m.ev, c, "GSM", "ok")), <<>>)
    BY <2>1, <2>2, <2>5, <2>6, WaitDone DEF r
  <2>7. CASE ChangeState(x, c, n, "COLLECT_INFO", <<>>)
    BY <1>3, <1>4, <2>2, <2>4, <2>5, <2>7, ChangeDone DEF r
  <2>8. CASE ChangeState(x, c, d, "CALL_SENT", ToSip("SETUP", c))
    BY <1>2, <1>4, <2>2, <2>4, <2>5, <2>8, ChangeDone DEF r
  <2> QED
    BY <2>3, <2>6, <2>7, <2>8
<1>9. CASE Dialstring(x, m)
  <2> DEFINE d == [r EXCEPT !.sendRelease = TRUE]
             z == Moved(d, "CALL_SENT")
  <2>1. r.st = "COLLECT_INFO" /\ ChangeState(x, c, d, "CALL_SENT", ToSip("SETUP", c))
    BY <1>9 DEF Dialstring, In, r
  <2>2. d \in CallRecord /\ d.sendRelease /\ d.held = r.held
    BY <1>1 DEF CallRecord
  <2>3. "CALL_SENT" \in States /\ "CALL_SENT" \in Dialing
    BY DEF States, UpToConnecting, Dialing
  <2>4. ~r.held
    BY <1>1, <2>1 DEF RecordGood, UpToConnecting, Dialing
  <2> HIDE DEF d
  <2>5. Allowed(x, m, r, z, "SETUP")
    <3>1. RecordGood(z) /\ z.st = "CALL_SENT"
      BY <2>2, <2>3, <2>4, MovedIs, MovedGood
    <3> HIDE DEF z
    <3> QED
      BY <2>1, <2>3, <3>1, FirstAllowed
  <2> QED
    BY <1>2, <1>4, <2>1, <2>2, <2>3, <2>5, ChangeDone DEF r
<1>10. CASE CollectingInfoEndCall(x, m)
  <2>1. r.st = "COLLECT_INFO" /\ m.ev = "END_CALL" /\ Release(x, c, r, FALSE)
    BY <1>10 DEF CollectingInfoEndCall, In, r
  <2> QED
    BY <1>1, <2>1, ReleaseDone, StatesApart DEF r
<1> QED
  BY <1>6, <1>7, <1>8, <1>9, <1>10

LEMMA AnswerDone ==
    ASSUME NEW x, NEW m, Situation(x, m),
           \/ Proceeding(x, m) \/ OutAlerting(x, m) \/ EvConnected(x, m)
           \/ CallSentRelease(x, m) \/ CallSentEndCall(x, m)
           \/ Answer(x, m) \/ ConnectedAck(x, m)
    PROVE  Done(x, m)
<1> DEFINE c == m.call
           r == call[c]
<1>1. r \in CallRecord /\ RecordGood(r) /\ r.sendRelease \in BOOLEAN /\ c \in Calls
  BY SituationFacts
<1>2. \A e \in SipEvents : ToSip(e, c) = Sends(e, c)
  BY DEF Sends, SipEvents
<1>3. <<>> = Sends("none", c)
  BY DEF Sends
<1>4. {"none", "CONNECTED", "CONNECTED_ACK", "RELEASE_COMPLETE"} \subseteq SipEvents \cup {"none"}
  BY DEF SipEvents
<1> HIDE DEF r
<1>5. \A s : r.st \in CallSent /\ s \in CallSent
         => LET n == Moved(r, s)
            IN RecordGood(n) /\ n.st = s /\ s \in States /\ s \in Dialing
  <2> SUFFICES ASSUME NEW s, r.st \in CallSent, s \in CallSent
               PROVE  /\ RecordGood(Moved(r, s)) /\ Moved(r, s).st = s
                      /\ s \in States /\ s \in Dialing
    OBVIOUS
  <2>1. s \in States /\ s \in Dialing
    BY DEF CallSent, Dialing, UpToConnecting, States
  <2>2. r.sendRelease /\ ~r.held
    BY <1>1 DEF RecordGood, CallSent, Dialing, UpToConnecting
  <2> QED
    BY <1>1, <2>1, <2>2, MovedIs, MovedGood
<1>6. r.st \in CallSent => r.st \in {"CALL_SENT", "OUTGOING_PROCEEDING", "OUTGOING_ALERTING"}
                           /\ r.st \notin Talking \cup {"CONNECTING"} /\ ~r.held /\ r.sendRelease
  BY <1>1, StatesApart DEF CallSent, Dialing, RecordGood, UpToConnecting
<1>7. CASE Proceeding(x, m) \/ OutAlerting(x, m)
  <2>1. PICK s \in {"OUTGOING_PROCEEDING", "OUTGOING_ALERTING"} :
           ChangeState(x, c, r, s, <<>>) /\ r.st \in CallSent
    BY <1>7, Zenon DEF Proceeding, OutAlerting, In, r, CallSent, Dialing
  <2>2. s \in CallSent
    BY DEF CallSent, Dialing
  <2> DEFINE n == Moved(r, s)
  <2>3. Allowed(x, m, r, n, "none")
    <3>1. RecordGood(n) /\ n.st = s /\ s \in Dialing
      BY <1>5, <2>1, <2>2
    <3> HIDE DEF n
    <3> QED
      BY <1>6, <2>1, <3>1, FirstAllowed
  <2> QED
    BY <1>1, <1>3, <1>4, <1>5, <2>1, <2>2, <2>3, ChangeDone DEF r
<1>8. CASE EvConnected(x, m)
  <2>1. r.st \in CallSent /\ m.ev = "CONNECTED"
    BY <1>8 DEF EvConnected, In, r
  <2>2. \/ Release(x, c, r, TRUE)
        \/ TransitionToConnected(x, c, r, ToSip("CONNECTED_ACK", c))
    BY <1>8 DEF EvConnected, r
  <2>3. CASE Release(x, c, r, TRUE)
    BY <1>1, <2>1, <2>3, ReleaseDone DEF r
  <2>4. CASE TransitionToConnected(x, c, r, ToSip("CONNECTED_ACK", c))
    BY <1>1, <1>2, <1>4, <1>6, <2>1, <2>4, TransitionDone DEF r
  <2> QED
    BY <2>2, <2>3, <2>4
<1>9. CASE CallSentRelease(x, m)
  <2> DEFINE n == [r EXCEPT !.sendRelease = FALSE, !.sendComplete = TRUE]
             q == [n EXCEPT !.earlyError = TRUE, !.errTmr = TRUE]
             z == Moved(q, "RELEASING")
  <2>1. r.st \in CallSent /\ m.ev = "RELEASE"
    BY <1>9 DEF CallSentRelease, In, r
  <2>2. \/ ChangeState(x, c, q, "RELEASING", ToSip("RELEASE_COMPLETE", c))
        \/ Release(x, c, n, FALSE)
    BY <1>9 DEF CallSentRelease, r
  <2>3. n \in CallRecord /\ n.tmr = r.tmr /\ q \in CallRecord
    BY <1>1 DEF CallRecord
  <2> HIDE DEF n, q
  <2>4. Allowed(x, m, r, z, "RELEASE_COMPLETE")
    <3>1. z.st = "RELEASING" /\ ~z.misled
      BY <2>3, MovedIs DEF States, RetryStates
    <3> HIDE DEF z
    <3> QED
      BY <1>6, <2>1, <3>1, StatesApart DEF Allowed, RecordGood, DialogKept, WakeKept
  <2>5. CASE ChangeState(x, c, q, "RELEASING", ToSip("RELEASE_COMPLETE", c))
    <3>1. "RELEASING" \in States
      BY DEF States
    <3> QED
      BY <1>2, <1>4, <2>3, <2>4, <2>5, <3>1, ChangeDone DEF r
  <2>6. CASE Release(x, c, n, FALSE)
    BY <2>1, <2>3, <2>6, ReleaseDone DEF r
  <2> QED
    BY <2>2, <2>5, <2>6
<1>10. CASE CallSentEndCall(x, m)
  <2> DEFINE n == [r EXCEPT !.earlyError = FALSE]
  <2>1. r.st \in CallSent /\ m.ev = "END_CALL" /\ Release(x, c, n, n.sendRelease)
    BY <1>10 DEF CallSentEndCall, In, r
  <2>2. n \in CallRecord /\ n.tmr = r.tmr /\ n.sendRelease \in BOOLEAN
    BY <1>1 DEF CallRecord
  <2> HIDE DEF n
  <2> QED
    BY <1>6, <2>1, <2>2, ReleaseDone DEF r
<1>11. CASE Answer(x, m)
  <2> DEFINE z == Moved(r, "CONNECTING")
  <2>1. r.st = "INCOMING_ALERTING" /\ m.ev = "ANSWER" /\ m.ev \in UiEvents
    BY <1>11 DEF Answer, In, UiEvents, r
  <2>2. \/ Stay(x, c, r, ClearTheWay(c, "GSM", Msg(m.ev, c, "GSM", "ok")), <<>>)
        \/ ChangeState(x, c, r, "CONNECTING", ToSip("CONNECTED", c))
    BY <1>11, <2>1 DEF Answer, r
  <2>3. ~r.held /\ r.sendRelease
    BY <1>1, <2>1 DEF RecordGood, UpToConnecting
  <2>4. z.st = "CONNECTING" /\ RecordGood(z)
    <3>1. "CONNECTING" \in States
      BY DEF States, UpToConnecting
    <3> QED
      BY <1>1, <2>3, <3>1, MovedIs, MovedGood
  <2>5. CASE Stay(x, c, r, ClearTheWay(c, "GSM", Msg(m.ev, c, "GSM", "ok")), <<>>)
    <3>1. Allowed(x, m, r, r, "none")
      BY <1>1, <2>1, FirstAllowed
    <3> QED
      BY <1>1, <2>1, <2>5, <3>1, WaitDone DEF r
  <2>6. CASE ChangeState(x, c, r, "CONNECTING", ToSip("CONNECTED", c))
    <3>1. Allowed(x, m, r, z, "CONNECTED")
      <4> HIDE DEF z
      <4> QED
        BY <2>1, <2>4, StatesApart DEF Allowed, DialogKept, WakeKept
    <3>2. "CONNECTING" \in States /\ "CONNECTED" \in SipEvents
      BY DEF States, UpToConnecting, SipEvents
    <3> QED
      BY <1>1, <1>2, <1>4, <2>6, <3>1, <3>2, ChangeDone DEF r
  <2> QED
    BY <2>2, <2>5, <2>6
<1>12. CASE ConnectedAck(x, m)
  <2>1. r.st = "CONNECTING" /\ m.ev = "CONNECTED_ACK" /\ TransitionToConnected(x, c, r, <<>>)
    BY <1>12 DEF ConnectedAck, In, r
  <2>2. ~r.held /\ r.sendRelease
    BY <1>1, <2>1 DEF RecordGood, UpToConnecting
  <2> QED
    BY <1>1, <1>3, <2>1, <2>2, TransitionDone DEF r
<1> QED
  BY <1>7, <1>8, <1>9, <1>10, <1>11, <1>12

(* The end of a call that has a dialog. *)
LEMMA EndDone ==
    ASSUME NEW x, NEW m, Situation(x, m), EndCall(x, m) \/ EvRelease(x, m)
    PROVE  Done(x, m)
<1> DEFINE c == m.call
           r == call[c]
<1>1. r \in CallRecord /\ RecordGood(r) /\ r.sendRelease \in BOOLEAN
  BY SituationFacts
<1> HIDE DEF r
<1>2. CASE EndCall(x, m)
  <2> DEFINE n == [r EXCEPT !.locked = FALSE]
  <2>1. /\ r.st \in {"INCOMING_ALERTING", "CONNECTING", "HOLD_PENDING", "HOLDING"}
                       \cup ConnectedStates
        /\ m.ev = "END_CALL" /\ Release(x, c, n, n.sendRelease)
    BY <1>2 DEF EndCall, In, r
  <2>2. n \in CallRecord /\ n.tmr = r.tmr /\ n.sendRelease = r.sendRelease
    BY <1>1 DEF CallRecord
  <2>3. r.sendRelease
    BY <1>1, <2>1 DEF RecordGood, ConnectedStates
  <2> HIDE DEF n
  <2> QED
    BY <2>1, <2>2, <2>3, ReleaseDone DEF r
<1>3. CASE EvRelease(x, m)
  <2> DEFINE n == [r EXCEPT !.sendRelease = FALSE, !.sendComplete = TRUE]
  <2>1. m.ev = "RELEASE" /\ Release(x, c, n, FALSE)
    BY <1>3 DEF EvRelease, In, r
  <2>2. n \in CallRecord /\ n.tmr = r.tmr
    BY <1>1 DEF CallRecord
  <2> HIDE DEF n
  <2> QED
    BY <2>1, <2>2, ReleaseDone DEF r
<1> QED
  BY <1>2, <1>3

(* Handlers that leave the call's state alone. *)
LEMMA SameStateAllowed ==
    ASSUME NEW x, NEW m, NEW r, RecordGood(r), NEW n, RecordGood(n),
           NEW e \in {"none", "MEDIA_ACK"},
           n.st = r.st, n.tmr = r.tmr, n.held = r.held, n.misled = r.misled,
           r.st \in Talking /\ m.ev = "MEDIA" => e = "MEDIA_ACK",
           ~(r.st = "CONNECTING" /\ m.ev = "CONNECTED_ACK"),
           r.st \in {"HOLD_PENDING", "RESUME_PENDING"}
              => m.ev \notin {"REQ_PEND_TIMER_EXP", "RELEASE", "RESUME_ACK"},
           r.st = "CONNECTED_MEDIA_PEND"
              => m.ev \notin {"REQ_PEND_TIMER_EXP", "RELEASE", "MEDIA_ACK"}
    PROVE  Allowed(x, m, r, n, e)
BY StatesApart DEF Allowed, DialogKept, WakeKept

(* A timer that counts as running runs, has its expiry in the queue, or    *)
(* misleads its reader.                                                    *)
LEMMA MisledOr ==
    ASSUME NEW x, NEW m, Situation(x, m), TmrRunning(call[m.call])
    PROVE  Misled(x, m.call, call[m.call]) \/ call[m.call].tmr = "on" \/ Expired(x, m)
<1> DEFINE e == Msg("REQ_PEND_TIMER_EXP", m.call, "GSM", "ok")
<1>1. e \in Of(m.call, {"REQ_PEND_TIMER_EXP"})
  BY SituationFacts DEF Msg, Of, Message, Events, Causes
<1>2. call[m.call].tmr \in {"on", "fired"}
  BY SituationFacts DEF TmrRunning, CallRecord
<1> QED
  BY <1>1, <1>2 DEF Misled, Expired, Holds

LEMMA MediaDone ==
    ASSUME NEW x, NEW m, Situation(x, m),
           \/ RemoteMedia(x, m) \/ ConnectedHold(x, m) \/ UpdMediaCap(x, m)
           \/ MediaPendHold(x, m) \/ MediaPendTimerExp(x, m) \/ MediaPendAck(x, m)
    PROVE  Done(x, m)
<1> DEFINE c == m.call
           r == call[c]
           on == [r EXCEPT !.tmr = "on"]
           later == [r EXCEPT !.holdPending = TRUE]
           now == [r EXCEPT !.holdPending = FALSE]
           nowOn == [now EXCEPT !.tmr = "on"]
           nowMisled == [r EXCEPT !.holdPending = FALSE, !.misled = Misled(x, c, r)]
<1>1. r \in CallRecord /\ RecordGood(r) /\ r.sendRelease \in BOOLEAN /\ c \in Calls
  BY SituationFacts
<1>2. \A e \in SipEvents : ToSip(e, c) = Sends(e, c)
  BY DEF Sends, SipEvents
<1>3. <<>> = Sends("none", c) /\ <<>> \in Seq(Inner)
  BY DEF Sends
<1>4. {"none", "MEDIA_ACK", "MEDIA"} \subseteq SipEvents \cup {"none"}
  BY DEF SipEvents
<1>5. r.st \in ConnectedStates => ~r.held /\ r.sendRelease
  BY <1>1 DEF RecordGood, ConnectedStates
<1> HIDE DEF r
<1>6. /\ on \in CallRecord /\ on.st = r.st /\ on.tmr = "on" /\ on.held = r.held
      /\ on.sendRelease = r.sendRelease /\ on.misled = r.misled
      /\ later \in CallRecord /\ later.st = r.st /\ later.tmr = r.tmr /\ later.held = r.held
      /\ later.sendRelease = r.sendRelease /\ later.misled = r.misled
      /\ now \in CallRecord /\ now.st = r.st /\ now.tmr = r.tmr /\ now.held = r.held
      /\ now.sendRelease = r.sendRelease /\ now.misled = r.misled
      /\ nowOn \in CallRecord /\ nowOn.st = r.st /\ nowOn.tmr = "on" /\ nowOn.held = r.held
      /\ nowOn.sendRelease = r.sendRelease
      /\ nowMisled \in CallRecord /\ nowMisled.tmr = r.tmr /\ nowMisled.held = r.held
      /\ nowMisled.sendRelease = r.sendRelease /\ nowMisled.misled = Misled(x, c, r)
  BY <1>1, MisledType DEF CallRecord
<1>7. RecordGood(on) /\ RecordGood(later) /\ RecordGood(now)
  BY <1>1, <1>6 DEF RecordGood
<1> DEFINE pend(n) == Moved(n, "HOLD_PENDING")
<1>8. \A n \in CallRecord : /\ pend(n).st = "HOLD_PENDING" /\ pend(n).tmr = n.tmr
                            /\ n.sendRelease => RecordGood(pend(n))
                            /\ pend(n).held = n.held
                            /\ n.misled => pend(n).misled
  <2>1. "HOLD_PENDING" \in States /\ "HOLD_PENDING" \in RetryStates
    BY DEF States, RetryStates
  <2> QED
    BY <2>1, MovedIs, MovedGood, StatesApart
<1> HIDE DEF on, later, now, nowOn, nowMisled, pend
<1>9. CASE RemoteMedia(x, m)
  <2>1. /\ m.ev = "MEDIA" /\ r.st \in {"HOLD_PENDING", "HOLDING"} \cup ConnectedStates
        /\ Stay(x, c, r, <<>>, ToSip("MEDIA_ACK", c))
    BY <1>9 DEF RemoteMedia, In, r
  <2>2. Allowed(x, m, r, r, "MEDIA_ACK")
    BY <1>1, <2>1, SameStateAllowed
  <2>3. Stay(x, c, r, <<>>, Sends("MEDIA_ACK", c))
    BY <1>2, <2>1 DEF SipEvents
  <2> QED
    BY <1>1, <1>3, <1>4, <2>2, <2>3, StayDone DEF r
<1>10. CASE ConnectedHold(x, m)
  <2>1. m.ev = "HOLD" /\ r.st = "CONNECTED" /\ HoldLocal(x, c, r, FALSE)
    BY <1>10 DEF ConnectedHold, In, r
  <2>2. ~r.held /\ r.sendRelease
    BY <1>5, <2>1 DEF ConnectedStates
  <2> QED
    BY <1>1, <2>1, <2>2, HoldLocalDone, StatesApart DEF r
<1>11. CASE UpdMediaCap(x, m)
  <2> DEFINE n == [r EXCEPT !.tmr = "off"]
             z == Moved(n, "CONNECTED_MEDIA_PEND")
  <2>1. /\ m.ev = "UPD_MEDIA_CAP" /\ r.st = "CONNECTED"
        /\ ChangeState(x, c, n, "CONNECTED_MEDIA_PEND", ToSip("MEDIA", c))
    BY <1>11 DEF UpdMediaCap, In, r
  <2>2. ~r.held /\ r.sendRelease
    BY <1>5, <2>1 DEF ConnectedStates
  <2>3. n \in CallRecord /\ z.st = "CONNECTED_MEDIA_PEND" /\ RecordGood(z)
    <3>1. n \in CallRecord /\ n.sendRelease /\ ~n.held
      BY <1>1, <2>2 DEF CallRecord
    <3>2. "CONNECTED_MEDIA_PEND" \in States
      BY DEF States, ConnectedStates
    <3> HIDE DEF n
    <3> QED
      BY <3>1, <3>2, MovedIs, MovedGood
  <2> HIDE DEF n
  <2>4. Allowed(x, m, r, z, "MEDIA")
    <3> HIDE DEF z
    <3> QED
      BY <2>1, <2>3, StatesApart DEF Allowed, DialogKept, WakeKept
  <2>5. "CONNECTED_MEDIA_PEND" \in States /\ "MEDIA" \in SipEvents
    BY DEF States, ConnectedStates, SipEvents
  <2> QED
    BY <1>2, <1>4, <2>1, <2>3, <2>4, <2>5, ChangeDone DEF r
<1>12. "HOLD_PENDING" \in States
  BY DEF States
<1>13. CASE MediaPendHold(x, m)
  <2>1. /\ m.ev = "HOLD" /\ r.st = "CONNECTED_MEDIA_PEND"
    BY <1>13 DEF MediaPendHold, In, r
  <2>2. ~r.held /\ r.sendRelease
    BY <1>5, <2>1 DEF ConnectedStates
  <2>3. \/ TmrRunning(r) /\ ChangeState(x, c, nowMisled, "HOLD_PENDING", <<>>)
        \/ Stay(x, c, later, <<>>, <<>>)
    BY <1>13, <2>2 DEF MediaPendHold, r, nowMisled, later
  <2>4. CASE TmrRunning(r) /\ ChangeState(x, c, nowMisled, "HOLD_PENDING", <<>>)
    <3>1. nowMisled.misled \/ r.tmr = "on" \/ Expired(x, m)
      BY <1>1, <1>6, <2>4, MisledOr DEF r
    <3>2. Allowed(x, m, r, pend(nowMisled), "none")
      BY <1>6, <1>8, <2>1, <2>2, <3>1, StatesApart DEF Allowed, DialogKept, WakeKept
    <3> QED
      BY <1>3, <1>4, <1>6, <1>12, <2>4, <3>2, ChangeDone DEF r, pend
  <2>5. CASE Stay(x, c, later, <<>>, <<>>)
    <3>1. Allowed(x, m, r, later, "none")
      BY <1>1, <1>6, <1>7, <2>1, SameStateAllowed
    <3> QED
      BY <1>6, <2>5, <3>1, SameDone DEF r
  <2> QED
    BY <2>3, <2>4, <2>5
<1>14. CASE MediaPendTimerExp(x, m)
  <2>1. m.ev = "REQ_PEND_TIMER_EXP" /\ r.st = "CONNECTED_MEDIA_PEND"
    BY <1>14 DEF MediaPendTimerExp, In, r
  <2>2. ~r.held /\ r.sendRelease
    BY <1>5, <2>1 DEF ConnectedStates
  <2>3. \/ HoldLocal(x, c, now, FALSE)
        \/ Stay(x, c, r, <<>>, ToSip("MEDIA", c))
    BY <1>14 DEF MediaPendTimerExp, r, now
  <2>4. CASE HoldLocal(x, c, now, FALSE)
    BY <1>6, <2>1, <2>2, <2>4, HoldLocalDone, StatesApart DEF r
  <2>5. CASE Stay(x, c, r, <<>>, ToSip("MEDIA", c))
    <3>1. Allowed(x, m, r, r, "MEDIA")
      BY <1>1, <2>1, StatesApart DEF Allowed, DialogKept, WakeKept
    <3>2. Stay(x, c, r, <<>>, Sends("MEDIA", c))
      BY <1>2, <2>5 DEF SipEvents
    <3> QED
      BY <1>1, <1>3, <1>4, <3>1, <3>2, StayDone DEF r
  <2> QED
    BY <2>3, <2>4, <2>5
<1>15. CASE MediaPendAck(x, m)
  <2>1. m.ev = "MEDIA_ACK" /\ r.st = "CONNECTED_MEDIA_PEND"
    BY <1>15 DEF MediaPendAck, In, r
  <2>2. ~r.held /\ r.sendRelease
    BY <1>5, <2>1 DEF ConnectedStates
  <2>3. \/ ChangeState(x, c, nowOn, "HOLD_PENDING", <<>>)
        \/ Stay(x, c, on, <<>>, <<>>)
        \/ Release(x, c, r, r.sendRelease)
        \/ HoldLocal(x, c, now, FALSE)
        \/ TransitionToConnected(x, c, r, <<>>)
    BY <1>15 DEF MediaPendAck, r, now, on, nowOn
  <2>4. CASE ChangeState(x, c, nowOn, "HOLD_PENDING", <<>>)
    <3>1. Allowed(x, m, r, pend(nowOn), "none")
      BY <1>6, <1>8, <2>1, <2>2, StatesApart DEF Allowed, DialogKept, WakeKept
    <3> QED
      BY <1>3, <1>4, <1>6, <1>12, <2>4, <3>1, ChangeDone DEF r, pend
  <2>5. CASE Stay(x, c, on, <<>>, <<>>)
    <3>1. Allowed(x, m, r, on, "none")
      BY <1>6, <1>7, <2>1, StatesApart DEF Allowed, DialogKept, WakeKept
    <3> QED
      BY <1>6, <2>5, <3>1, SameDone DEF r
  <2>6. CASE Release(x, c, r, r.sendRelease)
    BY <1>1, <2>1, <2>2, <2>6, ReleaseDone DEF r
  <2>7. CASE HoldLocal(x, c, now, FALSE)
    BY <1>6, <2>1, <2>2, <2>7, HoldLocalDone, StatesApart DEF r
  <2>8. CASE TransitionToConnected(x, c, r, <<>>)
    BY <1>1, <1>3, <2>1, <2>2, <2>8, TransitionDone DEF r
  <2> QED
    BY <2>3, <2>4, <2>5, <2>6, <2>7, <2>8
<1> QED
  BY <1>9, <1>10, <1>11, <1>13, <1>14, <1>15

LEMMA HoldDone ==
    ASSUME NEW x, NEW m, Situation(x, m),
           \/ HoldPendingTimerExp(x, m) \/ HoldPendingAck(x, m) \/ HoldingHold(x, m)
           \/ Resume(x, m) \/ HoldingAck(x, m)
    PROVE  Done(x, m)
<1> DEFINE c == m.call
           r == call[c]
           on == [r EXCEPT !.tmr = "on"]
           pend == Moved(on, "HOLD_PENDING")
           n == [r EXCEPT !.held = FALSE, !.locked = TRUE, !.misled = Misled(x, c, r)]
           z == Moved(n, "RESUME_PENDING")
<1>1. /\ r \in CallRecord /\ RecordGood(r) /\ r.sendRelease \in BOOLEAN /\ c \in Calls
      /\ m.src \in {"UI", "GSM", "SIP"}
  BY SituationFacts
<1>2. \A e \in SipEvents : ToSip(e, c) = Sends(e, c)
  BY DEF Sends, SipEvents
<1>3. <<>> = Sends("none", c)
  BY DEF Sends
<1>4. {"none", "RESUME"} \subseteq SipEvents \cup {"none"} /\ "RESUME" \in SipEvents
  BY DEF SipEvents
<1>5. r.st \in {"HOLDING", "HOLD_PENDING"} => r.sendRelease
  BY <1>1 DEF RecordGood
<1> HIDE DEF r
<1>6. /\ on \in CallRecord /\ on.tmr = "on" /\ on.held = r.held
      /\ on.sendRelease = r.sendRelease
      /\ n \in CallRecord /\ n.tmr = r.tmr /\ ~n.held
      /\ n.sendRelease = r.sendRelease /\ n.misled = Misled(x, c, r)
  BY <1>1, MisledType DEF CallRecord
<1>7. "HOLD_PENDING" \in States /\ "RESUME_PENDING" \in States
  BY DEF States, ConnectedStates
<1>8. CASE HoldPendingTimerExp(x, m)
  <2>1. m.ev = "REQ_PEND_TIMER_EXP" /\ r.st = "HOLD_PENDING" /\ HoldLocal(x, c, r, TRUE)
    BY <1>8 DEF HoldPendingTimerExp, In, r
  <2> QED
    BY <1>1, <1>5, <2>1, HoldLocalDone, StatesApart DEF r
<1>9. CASE HoldPendingAck(x, m)
  <2>1. m.ev = "RESUME_ACK" /\ r.st = "HOLD_PENDING"
    BY <1>9 DEF HoldPendingAck, In, r
  <2>2. \/ HoldLocalOnly(x, c, r)
        \/ Release(x, c, r, r.sendRelease)
        \/ HoldLocal(x, c, r, FALSE)
    BY <1>9 DEF HoldPendingAck, r
  <2>3. r.held => Allowed(x, m, r, r, "none")
    BY <1>1, <2>1, StatesApart DEF Allowed, DialogKept, WakeKept
  <2>4. CASE HoldLocalOnly(x, c, r)
    BY <1>1, <1>5, <2>1, <2>3, <2>4, HoldLocalOnlyDone, StatesApart DEF r
  <2>5. CASE Release(x, c, r, r.sendRelease)
    BY <1>1, <1>5, <2>1, <2>5, ReleaseDone DEF r
  <2>6. CASE HoldLocal(x, c, r, FALSE)
    BY <1>1, <1>5, <2>1, <2>3, <2>6, HoldLocalDone, StatesApart DEF r
  <2> QED
    BY <2>2, <2>4, <2>5, <2>6
<1>10. r.st = "HOLDING" /\ m.ev \notin {"MEDIA", "CONNECTED_ACK"} => Allowed(x, m, r, r, "none")
  BY <1>1, SameStateAllowed
<1>11. CASE HoldingHold(x, m)
  <2>1. m.ev = "HOLD" /\ r.st = "HOLDING" /\ HoldLocal(x, c, r, FALSE)
    BY <1>11 DEF HoldingHold, In, r
  <2> QED
    BY <1>1, <1>5, <1>10, <2>1, HoldLocalDone, StatesApart DEF r
<1>12. CASE Resume(x, m)
  <2>1. m.ev = "RESUME" /\ r.st = "HOLDING" /\ m.ev \in UiEvents
    BY <1>12 DEF Resume, In, UiEvents, r
  <2>2. \/ Stay(x, c, r, <<>>, <<>>)
        \/ Stay(x, c, r, ClearTheWay(c, m.src, Msg(m.ev, c, m.src, "ok")), <<>>)
        \/ ChangeState(x, c, n, "RESUME_PENDING", IF TmrRunning(r) THEN <<>> ELSE ToSip("RESUME", c))
    BY <1>12, <2>1 DEF Resume, r
  <2>3. CASE Stay(x, c, r, <<>>, <<>>)
    BY <1>1, <1>10, <2>1, <2>3, SameDone DEF r
  <2>4. CASE Stay(x, c, r, ClearTheWay(c, m.src, Msg(m.ev, c, m.src, "ok")), <<>>)
    BY <1>1, <1>10, <2>1, <2>4, WaitDone DEF r
  <2>5. CASE ChangeState(x, c, n, "RESUME_PENDING", IF TmrRunning(r) THEN <<>> ELSE ToSip("RESUME", c))
    <3> DEFINE e == IF TmrRunning(r) THEN "none" ELSE "RESUME"
    <3>1. ChangeState(x, c, n, "RESUME_PENDING", Sends(e, c))
      <4>1. Sends(e, c) = IF TmrRunning(r) THEN <<>> ELSE ToSip("RESUME", c)
        BY <1>2, <1>3, <1>4
      <4> HIDE DEF n, e
      <4> QED
        BY <2>5, <4>1
    <3>2. n.misled \/ r.tmr = "on" \/ Expired(x, m) \/ e = "RESUME"
      BY <1>1, <1>6, MisledOr DEF r
    <3>3. e \in {"none", "RESUME"}
      OBVIOUS
    <3> HIDE DEF e
    <3>4. Allowed(x, m, r, z, e)
      <4> HIDE DEF n
      <4>1. RecordGood(z)
        BY <1>5, <1>6, <1>7, <2>1, MovedGood
      <4>2. z.st = "RESUME_PENDING" /\ z.tmr = r.tmr /\ ~z.held /\ (n.misled => z.misled)
        BY <1>6, <1>7, MovedIs DEF RetryStates
      <4> HIDE DEF z
      <4> QED
        BY <2>1, <3>2, <3>3, <4>1, <4>2, StatesApart DEF Allowed, DialogKept, WakeKept
    <3>5. e \in SipEvents \cup {"none"}
      BY <1>4, <3>3
    <3> HIDE DEF n
    <3> QED
      BY <1>6, <1>7, <3>1, <3>4, <3>5, ChangeDone DEF r
  <2> QED
    BY <2>2, <2>3, <2>4, <2>5
<1>13. CASE HoldingAck(x, m)
  <2>1. m.ev = "HOLD_ACK" /\ r.st = "HOLDING"
    BY <1>13 DEF HoldingAck, In, r
  <2>2. \/ ChangeState(x, c, on, "HOLD_PENDING", <<>>)
        \/ Release(x, c, r, r.sendRelease)
        \/ Stay(x, c, r, <<>>, <<>>)
    BY <1>13 DEF HoldingAck, r
  <2>3. Allowed(x, m, r, pend, "none")
    <3> HIDE DEF on
    <3>1. RecordGood(pend) /\ pend.st = "HOLD_PENDING" /\ pend.tmr = "on"
      BY <1>5, <1>6, <1>7, <2>1, MovedIs, MovedGood, StatesApart
    <3> HIDE DEF pend
    <3> QED
      BY <2>1, <3>1, StatesApart DEF Allowed, DialogKept, WakeKept
  <2> HIDE DEF on
  <2>4. CASE ChangeState(x, c, on, "HOLD_PENDING", <<>>)
    BY <1>3, <1>4, <1>6, <1>7, <2>3, <2>4, ChangeDone DEF r
  <2>5. CASE Release(x, c, r, r.sendRelease)
    BY <1>1, <1>5, <2>1, <2>5, ReleaseDone DEF r
  <2>6. CASE Stay(x, c, r, <<>>, <<>>)
    BY <1>1, <1>10, <2>1, <2>6, SameDone DEF r
  <2> QED
    BY <2>2, <2>4, <2>5, <2>6
<1> QED
  BY <1>8, <1>9, <1>11, <1>12, <1>13

LEMMA ResumeDone ==
    ASSUME NEW x, NEW m, Situation(x, m),
           \/ ResumePendingHold(x, m) \/ ResumePendingGsmHold(x, m)
           \/ ResumePendingTimerExp(x, m) \/ ResumePendingHoldAck(x, m)
           \/ ResumePendingAck(x, m)
    PROVE  Done(x, m)
<1> DEFINE c == m.call
           r == call[c]
           on == [r EXCEPT !.tmr = "on"]
           unlocked == [r EXCEPT !.locked = FALSE]
           locked == [r EXCEPT !.locked = TRUE]
           off == [unlocked EXCEPT !.tmr = "off"]
           pend == Moved(unlocked, "HOLD_PENDING")
           up == Moved(r, "CONNECTED")
<1>1. r \in CallRecord /\ RecordGood(r) /\ r.sendRelease \in BOOLEAN /\ c \in Calls
  BY SituationFacts
<1>2. \A e \in SipEvents : ToSip(e, c) = Sends(e, c)
  BY DEF Sends, SipEvents
<1>3. <<>> = Sends("none", c) /\ <<>> \in Seq(Inner)
  BY DEF Sends
<1>4. {"none", "RESUME"} \subseteq SipEvents \cup {"none"} /\ "RESUME" \in SipEvents
  BY DEF SipEvents
<1> HIDE DEF r
<1>5. r.st = "RESUME_PENDING" /\ ~r.held /\ r.sendRelease
      /\ m.ev \in {"HOLD", "REQ_PEND_TIMER_EXP", "HOLD_ACK", "RESUME_ACK"}
  <2>1. \E evs \in SUBSET {"HOLD", "REQ_PEND_TIMER_EXP", "HOLD_ACK", "RESUME_ACK"} :
           In(m, {"RESUME_PENDING"}, evs)
    BY DEF ResumePendingHold, ResumePendingGsmHold, ResumePendingTimerExp, ResumePendingHoldAck,
           ResumePendingAck
  <2>2. r.st = "RESUME_PENDING"
        /\ m.ev \in {"HOLD", "REQ_PEND_TIMER_EXP", "HOLD_ACK", "RESUME_ACK"}
    BY <2>1 DEF In, r
  <2> QED
    BY <1>1, <2>2 DEF RecordGood, ConnectedStates
<1>6. /\ on \in CallRecord /\ on.st = r.st /\ on.tmr = "on" /\ on.held = r.held
      /\ on.sendRelease = r.sendRelease /\ on.misled = r.misled
      /\ unlocked \in CallRecord /\ unlocked.st = r.st /\ unlocked.tmr = r.tmr
      /\ unlocked.held = r.held /\ unlocked.sendRelease = r.sendRelease
      /\ unlocked.misled = r.misled
      /\ locked \in CallRecord /\ locked.st = r.st /\ locked.tmr = r.tmr
      /\ locked.held = r.held /\ locked.sendRelease = r.sendRelease
      /\ locked.misled = r.misled
      /\ off \in CallRecord /\ off.tmr = "off" /\ off.held = r.held
      /\ off.sendRelease = r.sendRelease
      /\ pend.st = "HOLD_PENDING" /\ pend.tmr = r.tmr /\ pend.held = r.held
      /\ pend.sendRelease = r.sendRelease /\ (r.misled => pend.misled)
      /\ up.st = "CONNECTED" /\ up.held = r.held /\ ~up.misled
      /\ up.sendRelease = r.sendRelease
  <2>1. /\ on \in CallRecord /\ on.st = r.st /\ on.tmr = "on" /\ on.held = r.held
        /\ on.sendRelease = r.sendRelease /\ on.misled = r.misled
        /\ unlocked \in CallRecord /\ unlocked.st = r.st /\ unlocked.tmr = r.tmr
        /\ unlocked.held = r.held /\ unlocked.sendRelease = r.sendRelease
        /\ unlocked.misled = r.misled
        /\ locked \in CallRecord /\ locked.st = r.st /\ locked.tmr = r.tmr
        /\ locked.held = r.held /\ locked.sendRelease = r.sendRelease
        /\ locked.misled = r.misled
        /\ off \in CallRecord /\ off.tmr = "off" /\ off.held = r.held
        /\ off.sendRelease = r.sendRelease
    BY <1>1 DEF CallRecord
  <2>2. "HOLD_PENDING" \in States /\ "CONNECTED" \in States
    BY DEF States, ConnectedStates
  <2> HIDE DEF on, unlocked, locked, off
  <2> QED
    BY <1>1, <2>1, <2>2, MovedIs DEF RetryStates
<1>7. "HOLD_PENDING" \in States /\ "CONNECTED" \in States
  BY DEF States, ConnectedStates
<1>8. RecordGood(on) /\ RecordGood(locked) /\ RecordGood(pend) /\ RecordGood(up)
  <2> HIDE DEF on, locked, pend, up
  <2> QED
    BY <1>5, <1>6, StatesApart DEF RecordGood
<1>9. CASE ResumePendingHold(x, m)
  <2>1. m.ev = "HOLD"
    BY <1>9 DEF ResumePendingHold, In
  <2>2. \/ HoldLocalOnly(x, c, off)
        \/ ChangeState(x, c, unlocked, "HOLD_PENDING", <<>>)
    BY <1>9 DEF ResumePendingHold, r
  <2>3. Allowed(x, m, r, pend, "none")
    <3> HIDE DEF pend
    <3> QED
      BY <1>5, <1>6, <1>8, <2>1, StatesApart DEF Allowed, DialogKept, WakeKept
  <2> HIDE DEF off, unlocked
  <2>4. CASE HoldLocalOnly(x, c, off)
    BY <1>5, <1>6, <2>1, <2>4, HoldLocalOnlyDone, StatesApart DEF r
  <2>5. CASE ChangeState(x, c, unlocked, "HOLD_PENDING", <<>>)
    BY <1>3, <1>4, <1>6, <1>7, <2>3, <2>5, ChangeDone DEF r
  <2> QED
    BY <2>2, <2>4, <2>5
<1>10. CASE ResumePendingGsmHold(x, m)
  <2>1. m.ev = "HOLD" /\ HoldLocalOnly(x, c, unlocked)
    BY <1>10 DEF ResumePendingGsmHold, In, r
  <2> HIDE DEF unlocked
  <2> QED
    BY <1>5, <1>6, <2>1, HoldLocalOnlyDone, StatesApart DEF r
<1>11. CASE ResumePendingTimerExp(x, m)
  <2>1. m.ev = "REQ_PEND_TIMER_EXP" /\ Stay(x, c, locked, <<>>, ToSip("RESUME", c))
    BY <1>11 DEF ResumePendingTimerExp, In, r
  <2> HIDE DEF locked
  <2>2. Allowed(x, m, r, locked, "RESUME")
    BY <1>5, <1>6, <1>8, <2>1, StatesApart DEF Allowed, DialogKept, WakeKept
  <2>3. Stay(x, c, locked, <<>>, Sends("RESUME", c))
    BY <1>2, <1>4, <2>1
  <2> QED
    BY <1>3, <1>4, <1>6, <2>2, <2>3, StayDone DEF r
<1>12. Allowed(x, m, r, up, "none")
  <2> HIDE DEF up
  <2>1. m.ev # "MEDIA"
    BY <1>5
  <2> QED
    BY <1>5, <1>6, <1>8, <2>1, StatesApart DEF Allowed, DialogKept, WakeKept
<1>13. CASE ResumePendingHoldAck(x, m)
  <2>1. m.ev = "HOLD_ACK"
    BY <1>13 DEF ResumePendingHoldAck, In
  <2>2. \/ ChangeState(x, c, r, "CONNECTED", <<>>)
        \/ Release(x, c, r, r.sendRelease)
        \/ Stay(x, c, r, <<>>, <<>>)
    BY <1>13 DEF ResumePendingHoldAck, r
  <2>3. CASE ChangeState(x, c, r, "CONNECTED", <<>>)
    BY <1>1, <1>3, <1>4, <1>7, <1>12, <2>3, ChangeDone DEF r
  <2>4. CASE Release(x, c, r, r.sendRelease)
    BY <1>1, <1>5, <2>1, <2>4, ReleaseDone DEF r
  <2>5. CASE Stay(x, c, r, <<>>, <<>>)
    <3>1. Allowed(x, m, r, r, "none")
      BY <1>1, <1>5, <2>1, SameStateAllowed
    <3> QED
      BY <1>1, <2>5, <3>1, SameDone DEF r
  <2> QED
    BY <2>2, <2>3, <2>4, <2>5
<1>14. CASE ResumePendingAck(x, m)
  <2>1. m.ev = "RESUME_ACK"
    BY <1>14 DEF ResumePendingAck, In
  <2>2. \/ Stay(x, c, on, <<>>, <<>>)
        \/ Release(x, c, unlocked, r.sendRelease)
        \/ TransitionToConnected(x, c, unlocked, <<>>)
    BY <1>14 DEF ResumePendingAck, r
  <2> HIDE DEF on, unlocked, locked, off, pend, up
  <2>6. /\ unlocked \in CallRecord /\ unlocked.tmr = r.tmr /\ unlocked.sendRelease
        /\ ~unlocked.held
    BY <1>5, <1>6
  <2>3. CASE Stay(x, c, on, <<>>, <<>>)
    <3>1. Allowed(x, m, r, on, "none")
      BY <1>5, <1>6, <1>8, <2>1, StatesApart DEF Allowed, DialogKept, WakeKept
    <3> QED
      BY <1>6, <2>3, <3>1, SameDone DEF r
  <2>4. CASE Release(x, c, unlocked, r.sendRelease)
    BY <1>1, <1>5, <2>1, <2>4, <2>6, ReleaseDone DEF r
  <2>5. CASE TransitionToConnected(x, c, unlocked, <<>>)
    BY <1>3, <1>5, <2>1, <2>5, <2>6, TransitionDone DEF r
  <2> QED
    BY <2>2, <2>3, <2>4, <2>5
<1> QED
  BY <1>9, <1>10, <1>11, <1>13, <1>14

LEMMA ReleasingDone ==
    ASSUME NEW x, NEW m, Situation(x, m),
           \/ ReleasingRelease(x, m) \/ ReleaseComplete(x, m) \/ ReleasingEndCall(x, m)
           \/ ErrorOnhookTimeout(x, m)
    PROVE  Done(x, m)
<1> DEFINE c == m.call
           r == call[c]
<1>1. r \in CallRecord /\ RecordGood(r) /\ r.sendRelease \in BOOLEAN /\ c \in Calls /\ c \in started
  BY SituationFacts
<1>2. ToSip("RELEASE_COMPLETE", c) = Sends("RELEASE_COMPLETE", c)
  BY DEF Sends
<1>3. <<>> = Sends("none", c) /\ "none" \in SipEvents \cup {"none"}
  BY DEF Sends
<1> HIDE DEF r
<1>4. CASE ReleasingRelease(x, m) \/ ReleaseComplete(x, m)
  <2>1. r.st \in {"IDLE", "RELEASING"} /\ m.ev \in {"RELEASE", "RELEASE_COMPLETE"}
    BY <1>4 DEF ReleasingRelease, ReleaseComplete, In, r
  <2>2. Allowed(x, m, r, r, "none")
    BY <1>1, <2>1, SameStateAllowed
  <2>3. \/ Stay(x, c, r, <<>>, <<>>)
        \/ Free(x, c, ToSip("RELEASE_COMPLETE", c))
        \/ Free(x, c, <<>>)
    BY <1>4 DEF ReleasingRelease, ReleaseComplete, r
  <2>4. r.st \notin Talking \cup {"CONNECTING"}
    BY <2>1, StatesApart
  <2> QED
    BY <1>1, <1>2, <1>3, <2>1, <2>2, <2>3, <2>4, SameDone, FreeDone DEF r
<1>5. CASE ReleasingEndCall(x, m)
  <2>1. r.st = "RELEASING" /\ m.ev \in {"END_CALL", "ONHOOK"} /\ Release(x, c, r, FALSE)
    BY <1>5 DEF ReleasingEndCall, In, r
  <2> QED
    BY <1>1, <2>1, ReleaseDone, StatesApart DEF r
<1>6. CASE ErrorOnhookTimeout(x, m)
  <2> DEFINE p == <<Msg("ONHOOK", c, "GSM", "ok")>>
  <2>1. m.ev = "ERROR_ONHOOK_TIMER" /\ Stay(x, c, r, p, <<>>)
    BY <1>6 DEF ErrorOnhookTimeout, r
  <2>2. Msg("ONHOOK", c, "GSM", "ok") \in Inner
    BY <1>1 DEF Msg, Message, Inner, KnownMessage, Events, Causes
  <2>3. p \in Seq(Inner)
    BY <2>2, OneType
  <2>4. Allowed(x, m, r, r, "none")
    BY <1>1, <2>1, SameStateAllowed
  <2> HIDE DEF p
  <2> QED
    BY <1>1, <1>3, <2>1, <2>3, <2>4, StayDone DEF r
<1> QED
  BY <1>4, <1>5, <1>6

(* fim_process_event(): an event is handled or dropped, or it is set aside. *)
SetAsideBy(x, m) ==
    /\ m.ev \in DeferredEvents
    /\ dcsm'.q = Append(x.d.q, m) /\ gsmQ' = x.q
    /\ UNCHANGED <<call, sipQ>>

LEMMA FimDone ==
    ASSUME NEW x, NEW m, Situation(x, m), FimProcessEvent(x, m)
    PROVE  Done(x, m) \/ SetAsideBy(x, m)
<1> DEFINE r == call[m.call]
<1>1. /\ r \in CallRecord /\ RecordGood(r) /\ m.call \in Calls
      /\ r.st # "IDLE" => r.chain
      /\ m.src = "UI" => m.ev \in UiEvents
      /\ x.d \in DcsmRecord
  BY SituationFacts DEF Situation, KnownMessage, GoodX
<1>2. CASE Defers(x.d, m.ev) /\ dcsm' = AddEvent(x.d, m) /\ gsmQ' = x.q
           /\ UNCHANGED <<call, sipQ>>
  BY <1>1, <1>2 DEF SetAsideBy, Defers, AddEvent, DcsmRecord
<1>3. CASE /\ \/ ~r.chain /\ ~StartsCall(m)
              \/ FilteredByUiLock(m)
              \/ ~HasHandler(r.st, m.ev)
           /\ dcsm' = x.d /\ gsmQ' = x.q /\ UNCHANGED <<call, sipQ>>
  <2>1. \/ r.st = "IDLE"
        \/ m.ev \in UiEvents
        \/ ~HasHandler(r.st, m.ev)
    BY <1>1, <1>3 DEF FilteredByUiLock
  <2>2. /\ r.st \in Talking => m.ev # "MEDIA"
        /\ r.st = "CONNECTING" => m.ev # "CONNECTED_ACK"
        /\ r.st \in {"HOLD_PENDING", "RESUME_PENDING"}
              => m.ev \notin {"REQ_PEND_TIMER_EXP", "RELEASE", "RESUME_ACK"}
        /\ r.st = "CONNECTED_MEDIA_PEND"
              => m.ev \notin {"REQ_PEND_TIMER_EXP", "RELEASE", "MEDIA_ACK"}
    <3>1. CASE r.st = "IDLE"
      BY <3>1, StatesApart
    <3>2. CASE m.ev \in UiEvents
      BY <3>2 DEF UiEvents
    <3>3. CASE ~HasHandler(r.st, m.ev)
      BY <3>3 DEF HasHandler, Talking, ConnectedStates
    <3> QED
      BY <2>1, <3>1, <3>2, <3>3
  <2>3. Allowed(x, m, r, r, "none")
    BY <1>1, <2>2, SameStateAllowed
  <2>4. Outcome(x, m.call, r, "none")
    <3>1. call' = [call EXCEPT ![m.call] = r]
      BY <1>1, <1>3 DEF Situation, Core, CoreType
    <3>2. gsmQ' = x.q \o <<>> /\ <<>> \in Seq(Inner)
      BY <1>3, EmptyType DEF Situation, GoodX
    <3>3. sipQ' = sipQ \o Sends("none", m.call)
      BY <1>3 DEF Situation, Core, CoreType, Sends
    <3> QED
      BY <1>3, <3>1, <3>2, <3>3 DEF Outcome
  <2> QED
    BY <1>1, <2>3, <2>4 DEF Done
<1>4. CASE Fsmdef(x, m)
  BY <1>4, SetupDone, AnswerDone, EndDone, MediaDone, HoldDone, ResumeDone, ReleasingDone
     DEF Fsmdef
<1> QED
  BY <1>2, <1>3, <1>4 DEF FimProcessEvent

-----------------------------------------------------------------------------
(***************************************************************************)
(* A step of the GSM thread: a message m is taken from the queue, or it is *)
(* one that had been set aside.                                            *)
(***************************************************************************)
Taking(x, m) ==
    \/ gsmQ # <<>> /\ m = Head(gsmQ) /\ x.q = Tail(gsmQ)
    \/ x.q = gsmQ /\ m.ev \in DeferredEvents

InnerEvents == UiEvents \cup {"ONHOOK"}

LEMMA QueuedHolds ==
    ASSUME gsmQ \in Seq(Message \cup {NullMessage}), gsmQ' \in Seq(Message \cup {NullMessage}),
           NEW c, NEW evs
    PROVE  /\ Queued(c, evs) <=> Holds(gsmQ, Of(c, evs))
           /\ Queued(c, evs)' <=> Holds(gsmQ', Of(c, evs))
<1>1. Queued(c, evs) <=> Holds(gsmQ, Of(c, evs))
  BY QueuedIs DEF Queued
<1>2. Queued(c, evs)' <=> Holds(gsmQ', Of(c, evs))
  BY QueuedIs DEF Queued
<1> QED
  BY <1>1, <1>2

(* What such a step leaves in the queue, and what it may add. *)
LEMMA GsmQueueStep ==
    ASSUME gsmQ \in Seq(Message \cup {NullMessage}), NEW x, NEW m \in Message, Taking(x, m),
           NEW posts \in Seq(Inner), gsmQ' = x.q \o posts,
           NEW c, NEW evs
    PROVE  /\ Queued(c, evs) => Queued(c, evs)' \/ (m.call = c /\ m.ev \in evs)
           /\ Queued(c, evs)' => Queued(c, evs) \/ evs \cap InnerEvents # {}
<1> DEFINE A == Message \cup {NullMessage}
           S == Of(c, evs)
<1>1. x.q \in Seq(A) /\ posts \in Seq(A)
  <2>1. Inner \subseteq A
    BY DEF Inner, KnownMessage
  <2>2. x.q \in Seq(A)
    BY HeadTailType DEF Taking
  <2> QED
    BY <2>1, <2>2, SeqMonotone
<1>2. gsmQ' \in Seq(A)
  BY <1>1, ConcatType
<1>3. (Queued(c, evs) <=> Holds(gsmQ, S)) /\ (Queued(c, evs)' <=> Holds(gsmQ', S))
  BY <1>2, QueuedHolds
<1>4. Holds(gsmQ', S) <=> Holds(x.q, S) \/ Holds(posts, S)
  BY <1>1, HoldsConcat
<1>5. Holds(gsmQ, S) => Holds(x.q, S) \/ m \in S
  BY HoldsTail DEF Taking
<1>6. Holds(x.q, S) => Holds(gsmQ, S)
  BY HoldsTail DEF Taking
<1>7. Holds(posts, S) => evs \cap InnerEvents # {}
  <2>1. Inner \cap S # {} => evs \cap InnerEvents # {}
    BY NullIsNone DEF Inner, InnerEvents, Of
  <2> QED
    BY <2>1, HoldsOnly
<1>8. m \in S => m.call = c /\ m.ev \in evs
  BY DEF Of
<1> HIDE DEF S
<1> QED
  BY <1>3, <1>4, <1>5, <1>6, <1>7, <1>8

(* The CONNECTED_ACK that comes before a re-INVITE stays before it. *)
LEMMA AckStaysAhead ==
    ASSUME gsmQ \in Seq(Message \cup {NullMessage}), NEW x, NEW m \in Message, Taking(x, m),
           NEW posts \in Seq(Inner), gsmQ' = x.q \o posts,
           NEW c, AckAhead(c)
    PROVE  \/ AckAhead(c)' /\ ~(m.call = c /\ m.ev = "MEDIA")
           \/ m.call = c /\ m.ev = "CONNECTED_ACK"
<1> DEFINE A == Message \cup {NullMessage}
           S == Of(c, {"CONNECTED_ACK"})
           T == Of(c, {"MEDIA"})
<1>1. x.q \in Seq(A) /\ posts \in Seq(A)
  <2>1. Inner \subseteq A
    BY DEF Inner, KnownMessage
  <2>2. x.q \in Seq(A)
    BY HeadTailType DEF Taking
  <2> QED
    BY <2>1, <2>2, SeqMonotone
<1>2. /\ m \in S <=> m.call = c /\ m.ev = "CONNECTED_ACK"
      /\ m \in T <=> m.call = c /\ m.ev = "MEDIA"
  BY DEF Of
<1>3. Before(gsmQ, S, T) /\ (AckAhead(c)' <=> Before(gsmQ', S, T))
  BY DEF AckAhead, Of
<1>4. m.ev \in DeferredEvents => m \notin T
  BY DEF DeferredEvents, Of
<1> HIDE DEF S, T
<1>5. m \in S \/ (Before(x.q, S, T) /\ m \notin T)
  <2>1. CASE gsmQ # <<>> /\ m = Head(gsmQ) /\ x.q = Tail(gsmQ)
    <3>1. m \notin S => Before(Tail(gsmQ), S, T) /\ m \notin T
      BY <1>3, <2>1, BeforeTail, Zenon
    <3> QED
      BY <2>1, <3>1
  <2>2. CASE x.q = gsmQ /\ m.ev \in DeferredEvents
    BY <1>3, <1>4, <2>2
  <2> QED
    BY <2>1, <2>2 DEF Taking
<1>6. Before(x.q, S, T) => Before(gsmQ', S, T)
  BY <1>1, BeforeConcat
<1> QED
  BY <1>2, <1>3, <1>5, <1>6

(* What is sent is behind what was sent before. *)
LEMMA SipQueueGrows ==
    ASSUME sipQ \in Seq(SipMessage), NEW c \in Calls, NEW e \in SipEvents \cup {"none"},
           sipQ' = sipQ \o Sends(e, c), NEW k, NEW evs
    PROVE  Sent(k, evs)' <=> Sent(k, evs) \/ (k = c /\ e \in evs \cap SipEvents)
<1> DEFINE S == SipOf(k, evs)
<1>1. Sends(e, c) \in Seq(SipMessage)
  BY ToSipType, EmptyType DEF Sends
<1>2. sipQ' \in Seq(SipMessage)
  BY <1>1, ConcatType
<1>3. (Sent(k, evs) <=> Holds(sipQ, S)) /\ (Sent(k, evs)' <=> Holds(sipQ', S))
  BY <1>2, SentIs DEF Sent
<1>4. Holds(sipQ', S) <=> Holds(sipQ, S) \/ Holds(Sends(e, c), S)
  BY <1>1, HoldsConcat
<1>5. Holds(Sends(e, c), S) <=> k = c /\ e \in evs \cap SipEvents
  <2>1. CASE e = "none"
    BY <2>1, HoldsNothing DEF Sends, SipEvents
  <2>2. CASE e # "none"
    <3>1. Sends(e, c) = <<[ev |-> e, call |-> c]>>
      BY <2>2 DEF Sends, ToSip
    <3>2. [ev |-> e, call |-> c] \in S <=> k = c /\ e \in evs \cap SipEvents
      BY <2>2 DEF SipOf, SipMessage
    <3> HIDE DEF S
    <3> QED
      BY <3>1, <3>2, HoldsOne
  <2> QED
    BY <2>1, <2>2
<1> HIDE DEF S
<1> QED
  BY <1>3, <1>4, <1>5

(* The same for the messages the invariant is about. *)
LEMMA GsmQueueFacts ==
    ASSUME gsmQ \in Seq(Message \cup {NullMessage}), NEW x, NEW m \in Message, Taking(x, m),
           NEW posts \in Seq(Inner), gsmQ' = x.q \o posts, NEW c
    PROVE  /\ Queued(c, {"RELEASE"})' => Queued(c, {"RELEASE"})
           /\ Queued(c, {"CONNECTED"})' => Queued(c, {"CONNECTED"})
           /\ Queued(c, {"CONNECTED_ACK", "MEDIA"})' => Queued(c, {"CONNECTED_ACK", "MEDIA"})
           /\ \A ev : Queued(c, {ev}) => Queued(c, {ev})' \/ (m.call = c /\ m.ev = ev)
<1>1. /\ {"RELEASE"} \cap InnerEvents = {} /\ {"CONNECTED"} \cap InnerEvents = {}
      /\ {"CONNECTED_ACK", "MEDIA"} \cap InnerEvents = {}
  BY DEF InnerEvents, UiEvents
<1>2. Queued(c, {"RELEASE"})' => Queued(c, {"RELEASE"})
  BY <1>1, GsmQueueStep, Zenon
<1>3. Queued(c, {"CONNECTED"})' => Queued(c, {"CONNECTED"})
  BY <1>1, GsmQueueStep, Zenon
<1>4. Queued(c, {"CONNECTED_ACK", "MEDIA"})' => Queued(c, {"CONNECTED_ACK", "MEDIA"})
  BY <1>1, GsmQueueStep, Zenon
<1>5. ASSUME NEW ev, Queued(c, {ev})
      PROVE  Queued(c, {ev})' \/ (m.call = c /\ m.ev = ev)
  <2>1. Queued(c, {ev})' \/ (m.call = c /\ m.ev \in {ev})
    BY <1>5, GsmQueueStep, Zenon
  <2> QED
    BY <2>1
<1> QED
  BY <1>2, <1>3, <1>4, <1>5

(* A message that is taken is in the queue, unless it had been set aside. *)
LEMMA TakenIsQueued ==
    ASSUME gsmQ \in Seq(Message \cup {NullMessage}), NEW x, NEW m \in Message, Taking(x, m),
           m.ev \notin DeferredEvents, NEW evs, m.ev \in evs
    PROVE  Queued(m.call, evs)
<1>1. gsmQ # <<>> /\ m = Head(gsmQ)
  BY DEF Taking
<1>2. 1 \in 1 .. Len(gsmQ) /\ gsmQ[1] = m
  BY <1>1
<1>3. gsmQ[1] # NullMessage
  BY <1>2, NullIsNone
<1> QED
  BY <1>2, <1>3 DEF Queued

(***************************************************************************)
(* The invariants of a re-INVITE and of a waiting call.                    *)
(***************************************************************************)
Reinvited(c) ==
    sip[c].st = "CCFEATUREACK_PENDING" =>
        Queued(c, {"MEDIA"}) \/ Sent(c, {"MEDIA_ACK", "RELEASE"})

DialogInv ==
    /\ Inv /\ Known /\ RecordsGood
    /\ \A c \in Calls : SipAhead(c) /\ GsmAhead(c) /\ Reinvited(c)

ResumeWakes(c) == Retry(c) \/ Asked(c, "RESUME") \/ Ending(c)
MediaWakes(c) == Retry(c) \/ Asked(c, "MEDIA") \/ Ending(c)
Wakes(c) ==
    /\ call[c].st \in RetryStates => call[c].misled \/ ResumeWakes(c)
    /\ call[c].st = "HOLD_PENDING" /\ call[c].held => call[c].misled \/ Retry(c)
    /\ call[c].st = "CONNECTED_MEDIA_PEND" => MediaWakes(c)

(* What a handler's outcome does to the calls, the same call or others. *)
LEMMA OutcomeCalls ==
    ASSUME NEW x, NEW m, Situation(x, m), NEW n \in CallRecord, NEW e, Outcome(x, m.call, n, e)
    PROVE  call'[m.call] = n /\ \A k \in Calls : k # m.call => call'[k] = call[k]
BY SituationFacts DEF Situation, Core, CoreType, Outcome

(* Handling a message keeps the SIP thread ahead of call control and the   *)
(* other way round, and answers a re-INVITE.                               *)
LEMMA HandledDialog ==
    ASSUME DialogInv, NEW x, NEW m, Situation(x, m), Taking(x, m), UNCHANGED sip,
           NEW n \in CallRecord, NEW e \in SipEvents \cup {"none"},
           Outcome(x, m.call, n, e), Allowed(x, m, call[m.call], n, e),
           NEW c \in Calls
    PROVE  SipAhead(c)' /\ GsmAhead(c)' /\ Reinvited(c)'
<1> DEFINE r == call[m.call]
<1>1. m \in Message /\ m.call \in Calls /\ RecordGood(r)
  BY SituationFacts
<1>2. gsmQ \in Seq(Message \cup {NullMessage}) /\ sipQ \in Seq(SipMessage)
  BY DEF Situation, Core, CoreType
<1>3. PICK posts \in Seq(Inner) : gsmQ' = x.q \o posts
  BY DEF Outcome
<1>4. sipQ' = sipQ \o Sends(e, m.call)
  BY DEF Outcome
<1>5. /\ c = m.call => call'[c].st = n.st
      /\ c # m.call => call'[c] = call[c]
  BY OutcomeCalls
<1>6. /\ Queued(c, {"RELEASE"})' => Queued(c, {"RELEASE"})
      /\ Queued(c, {"CONNECTED"})' => Queued(c, {"CONNECTED"})
      /\ Queued(c, {"CONNECTED_ACK", "MEDIA"})' => Queued(c, {"CONNECTED_ACK", "MEDIA"})
      /\ Queued(c, {"MEDIA"}) => Queued(c, {"MEDIA"})' \/ (m.call = c /\ m.ev = "MEDIA")
  BY <1>1, <1>2, <1>3, GsmQueueFacts
<1>7. AckAhead(c) => \/ AckAhead(c)' /\ ~(m.call = c /\ m.ev = "MEDIA")
                     \/ m.call = c /\ m.ev = "CONNECTED_ACK"
  BY <1>1, <1>2, <1>3, AckStaysAhead
<1>8. /\ Sent(c, {"CONNECTED_ACK"})' <=>
            Sent(c, {"CONNECTED_ACK"}) \/ (c = m.call /\ e = "CONNECTED_ACK")
      /\ Sent(c, {"CONNECTED"})' <=> Sent(c, {"CONNECTED"}) \/ (c = m.call /\ e = "CONNECTED")
      /\ Sent(c, {"RELEASE"})' <=> Sent(c, {"RELEASE"}) \/ (c = m.call /\ e = "RELEASE")
      /\ Sent(c, {"MEDIA_ACK", "RELEASE"})' <=>
            Sent(c, {"MEDIA_ACK", "RELEASE"}) \/ (c = m.call /\ e \in {"MEDIA_ACK", "RELEASE"})
  <2>1. \A evs \in SUBSET SipEvents :
           Sent(c, evs)' <=> Sent(c, evs) \/ (c = m.call /\ e \in evs)
    <3> TAKE evs \in SUBSET SipEvents
    <3>1. evs \cap SipEvents = evs
      OBVIOUS
    <3> QED
      BY <1>1, <1>2, <1>4, <3>1, SipQueueGrows
  <2>2. /\ {"CONNECTED_ACK"} \in SUBSET SipEvents /\ {"CONNECTED"} \in SUBSET SipEvents
        /\ {"RELEASE"} \in SUBSET SipEvents /\ {"MEDIA_ACK", "RELEASE"} \in SUBSET SipEvents
    BY DEF SipEvents
  <2>3. Sent(c, {"CONNECTED_ACK"})' <=>
            Sent(c, {"CONNECTED_ACK"}) \/ (c = m.call /\ e \in {"CONNECTED_ACK"})
    BY <2>1, <2>2, Zenon
  <2>4. Sent(c, {"CONNECTED"})' <=> Sent(c, {"CONNECTED"}) \/ (c = m.call /\ e \in {"CONNECTED"})
    BY <2>1, <2>2, Zenon
  <2>5. Sent(c, {"RELEASE"})' <=> Sent(c, {"RELEASE"}) \/ (c = m.call /\ e \in {"RELEASE"})
    BY <2>1, <2>2, Zenon
  <2>6. Sent(c, {"MEDIA_ACK", "RELEASE"})' <=>
            Sent(c, {"MEDIA_ACK", "RELEASE"}) \/ (c = m.call /\ e \in {"MEDIA_ACK", "RELEASE"})
    BY <2>1, <2>2, Zenon
  <2> QED
    BY <2>3, <2>4, <2>5, <2>6
<1>9. Sent(c, {"RELEASE"}) => Sent(c, {"MEDIA_ACK", "RELEASE"})
  BY DEF Sent
<1>10. /\ c = m.call /\ m.ev = "RELEASE" => Queued(c, {"RELEASE"})
       /\ c = m.call /\ m.ev = "CONNECTED" => Queued(c, {"CONNECTED"})
       /\ c = m.call /\ m.ev \in {"CONNECTED_ACK", "MEDIA"} => Queued(c, {"CONNECTED_ACK", "MEDIA"})
  <2>1. m.ev \in {"RELEASE", "CONNECTED", "CONNECTED_ACK", "MEDIA"} => m.ev \notin DeferredEvents
    BY DEF DeferredEvents
  <2> QED
    BY <1>1, <1>2, <2>1, TakenIsQueued
<1>11. DialogKept(m, r, n, e)
  BY DEF Allowed
<1>12. SipAhead(c) /\ GsmAhead(c) /\ Reinvited(c)
  BY DEF DialogInv
<1>13. sip'[c] = sip[c]
  OBVIOUS
<1>14. SipAhead(c)'
  BY <1>6, <1>8, <1>10, <1>11, <1>12, <1>13 DEF SipAhead, DialogKept
<1>15. /\ Final \cap ({"SENT_INVITE_CONNECTED", "RECV_INVITE", "RECV_INVITE_CONNECTED"}
                       \cup Established) = {}
       /\ Established \cap {"SENT_INVITE_CONNECTED", "RECV_INVITE", "RECV_INVITE_CONNECTED"} = {}
       /\ "CCFEATUREACK_PENDING" \in Established
  BY DEF Final, Established
<1>16. sip[c].st \notin Final =>
          /\ Alive(c) => Alive(c)'
          /\ call[c].st = "CONNECTING" =>
                \/ call'[c].st = "CONNECTING" /\ ~(m.call = c /\ m.ev = "CONNECTED_ACK")
                \/ Sent(c, {"RELEASE"})'
                \/ /\ m.call = c /\ m.ev = "CONNECTED_ACK" /\ Alive(c)'
  BY <1>5, <1>8, <1>10, <1>11, <1>12 DEF Alive, DialogKept, SipAhead
<1>17. GsmAhead(c)'
  <2>1. ASSUME sip[c].st = "SENT_INVITE_CONNECTED", Sent(c, {"CONNECTED_ACK"})'
        PROVE  Alive(c)'
    BY <1>5, <1>8, <1>11, <1>12, <1>15, <1>16, <2>1 DEF GsmAhead, Alive, DialogKept
  <2>2. ASSUME Agreed(c)'
        PROVE  call'[c].st = "CONNECTING" \/ Sent(c, {"RELEASE"})'
    <3>1. sip[c].st \in {"RECV_INVITE", "RECV_INVITE_CONNECTED"}
      BY <1>13, <2>2 DEF Agreed
    <3>2. ~(m.call = c /\ m.ev = "CONNECTED_ACK")
      BY <1>10, <1>12, <1>15, <3>1 DEF SipAhead
    <3>3. CASE Agreed(c)
      BY <1>8, <1>12, <1>15, <1>16, <3>1, <3>2, <3>3 DEF GsmAhead
    <3>4. CASE ~Agreed(c)
      <4>1. c = m.call /\ e = "CONNECTED"
        BY <1>8, <1>13, <2>2, <3>4 DEF Agreed
      <4> QED
        BY <1>5, <1>11, <4>1 DEF DialogKept
    <3> QED
      BY <3>3, <3>4
  <2>3. ASSUME sip[c].st \in Established
        PROVE  Alive(c)' \/ (call'[c].st = "CONNECTING" /\ AckAhead(c)')
    <3>1. CASE Alive(c)
      BY <1>15, <1>16, <2>3, <3>1
    <3>2. CASE call[c].st = "CONNECTING" /\ AckAhead(c)
      BY <1>7, <1>15, <1>16, <2>3, <3>2 DEF Alive
    <3> QED
      BY <1>12, <2>3, <3>1, <3>2 DEF GsmAhead
  <2> QED
    BY <1>13, <2>1, <2>2, <2>3 DEF GsmAhead
<1>18. Reinvited(c)'
  <2>1. SUFFICES ASSUME sip[c].st = "CCFEATUREACK_PENDING"
                 PROVE  Queued(c, {"MEDIA"})' \/ Sent(c, {"MEDIA_ACK", "RELEASE"})'
    BY <1>13 DEF Reinvited
  <2>2. CASE Sent(c, {"MEDIA_ACK", "RELEASE"})
    BY <1>8, <2>2
  <2>3. CASE Queued(c, {"MEDIA"}) /\ ~(m.call = c /\ m.ev = "MEDIA")
    BY <1>6, <2>3
  <2>4. CASE m.call = c /\ m.ev = "MEDIA"
    <3>1. Alive(c)
      BY <1>7, <1>12, <1>15, <2>1, <2>4 DEF GsmAhead
    <3> QED
      BY <1>8, <1>9, <1>11, <2>4, <3>1 DEF Alive, DialogKept
  <2> QED
    BY <1>12, <2>1, <2>2, <2>3, <2>4 DEF Reinvited
<1> QED
  BY <1>14, <1>17, <1>18

LEMMA AckOfIs == AckOf("RESUME") = "RESUME_ACK" /\ AckOf("MEDIA") = "MEDIA_ACK" /\ AckOf("HOLD") = "HOLD_ACK"
BY DEF AckOf

(* What has been sent stays sent while only call control takes a step. *)
LEMMA SentStays ==
    ASSUME sipQ \in Seq(SipMessage), NEW c \in Calls, NEW e \in SipEvents \cup {"none"},
           sipQ' = sipQ \o Sends(e, c), NEW k, NEW f \in SipEvents
    PROVE  /\ Sent(k, {f}) => Sent(k, {f})'
           /\ k = c /\ e = f => Sent(k, {f})'
<1>1. Sent(k, {f})' <=> Sent(k, {f}) \/ (k = c /\ e \in {f} \cap SipEvents)
  BY SipQueueGrows, Zenon
<1> QED
  BY <1>1

(* Handling a message leaves a waiting call something to wake it. *)
LEMMA HandledWakes ==
    ASSUME NEW x, NEW m, Situation(x, m), Taking(x, m), UNCHANGED sip,
           NEW n \in CallRecord, NEW e \in SipEvents \cup {"none"},
           Outcome(x, m.call, n, e), Allowed(x, m, call[m.call], n, e),
           NEW c \in Calls, Wakes(c)
    PROVE  Wakes(c)'
<1>1. m \in Message /\ m.call \in Calls
  BY SituationFacts
<1>2. gsmQ \in Seq(Message \cup {NullMessage}) /\ sipQ \in Seq(SipMessage)
  BY DEF Situation, Core, CoreType
<1>3. PICK posts \in Seq(Inner) : gsmQ' = x.q \o posts
  BY DEF Outcome
<1>4. sipQ' = sipQ \o Sends(e, m.call)
  BY DEF Outcome
<1>5. /\ c = m.call => call'[c] = n
      /\ c # m.call => call'[c] = call[c]
  BY OutcomeCalls
<1>6. \A ev : Queued(c, {ev}) => Queued(c, {ev})' \/ (m.call = c /\ m.ev = ev)
  BY <1>1, <1>2, <1>3, GsmQueueFacts
<1>7. /\ Queued(c, {"REQ_PEND_TIMER_EXP"}) =>
            Queued(c, {"REQ_PEND_TIMER_EXP"})' \/ (m.call = c /\ m.ev = "REQ_PEND_TIMER_EXP")
      /\ Queued(c, {"RELEASE"}) => Queued(c, {"RELEASE"})' \/ (m.call = c /\ m.ev = "RELEASE")
      /\ Queued(c, {"RESUME_ACK"}) =>
            Queued(c, {"RESUME_ACK"})' \/ (m.call = c /\ m.ev = "RESUME_ACK")
      /\ Queued(c, {"MEDIA_ACK"}) =>
            Queued(c, {"MEDIA_ACK"})' \/ (m.call = c /\ m.ev = "MEDIA_ACK")
  BY <1>6
<1>8. /\ Sent(c, {"RESUME"}) => Sent(c, {"RESUME"})'
      /\ c = m.call /\ e = "RESUME" => Sent(c, {"RESUME"})'
      /\ Sent(c, {"MEDIA"}) => Sent(c, {"MEDIA"})'
      /\ c = m.call /\ e = "MEDIA" => Sent(c, {"MEDIA"})'
  <2>1. "RESUME" \in SipEvents /\ "MEDIA" \in SipEvents
    BY DEF SipEvents
  <2> QED
    BY <1>1, <1>2, <1>4, <2>1, SentStays
<1>9. sip'[c] = sip[c]
  OBVIOUS
<1>10. /\ Retry(c) /\ call'[c].tmr = call[c].tmr
             /\ ~(m.call = c /\ m.ev = "REQ_PEND_TIMER_EXP") => Retry(c)'
       /\ call'[c].tmr = "on" => Retry(c)'
       /\ c = m.call /\ Expired(x, m) => Retry(c)'
  <2>1. c = m.call /\ Expired(x, m) => Queued(c, {"REQ_PEND_TIMER_EXP"})'
    <3>1. x.q \in Seq(Message \cup {NullMessage}) /\ posts \in Seq(Message \cup {NullMessage})
      <4>1. Inner \subseteq Message \cup {NullMessage}
        BY DEF Inner, KnownMessage
      <4> QED
        BY <4>1, SeqMonotone DEF Situation, GoodX
    <3>2. /\ gsmQ' \in Seq(Message \cup {NullMessage})
          /\ \A S : Holds(x.q, S) => Holds(gsmQ', S)
      BY <1>3, <3>1, ConcatType, HoldsConcat
    <3>3. Queued(c, {"REQ_PEND_TIMER_EXP"})' <=> Holds(gsmQ', Of(c, {"REQ_PEND_TIMER_EXP"}))
      BY <3>2, QueuedIs DEF Queued
    <3> QED
      BY <3>2, <3>3 DEF Expired
  <2> QED
    BY <1>7, <2>1 DEF Retry
<1>11. /\ Ending(c) /\ ~(m.call = c /\ m.ev = "RELEASE") => Ending(c)'
       /\ Asked(c, "RESUME") /\ ~(m.call = c /\ m.ev = "RESUME_ACK") => Asked(c, "RESUME")'
       /\ c = m.call /\ e = "RESUME" => Asked(c, "RESUME")'
       /\ Asked(c, "MEDIA") /\ ~(m.call = c /\ m.ev = "MEDIA_ACK") => Asked(c, "MEDIA")'
       /\ c = m.call /\ e = "MEDIA" => Asked(c, "MEDIA")'
  BY <1>7, <1>8, <1>9, AckOfIs DEF Ending, Asked
<1>12. CASE c # m.call
  BY <1>5, <1>10, <1>11, <1>12 DEF Wakes, ResumeWakes, MediaWakes
<1>13. CASE c = m.call
  <2>1. WakeKept(x, m, call[c], n, e)
    BY <1>13 DEF Allowed
  <2>3. ASSUME n.st \in RetryStates, ~n.misled PROVE ResumeWakes(c)'
    <3>1. CASE n.tmr = "on" \/ e = "RESUME" \/ Expired(x, m)
      BY <1>5, <1>10, <1>11, <1>13, <3>1 DEF ResumeWakes
    <3>2. CASE /\ call[c].st \in RetryStates /\ n.tmr = call[c].tmr /\ ~call[c].misled
               /\ m.ev \notin {"REQ_PEND_TIMER_EXP", "RELEASE"}
               /\ m.ev = "RESUME_ACK" => call[c].st = "HOLD_PENDING" /\ call[c].held
      <4>1. m.ev = "RESUME_ACK" => Retry(c)
        BY <3>2 DEF Wakes
      <4> QED
        BY <1>5, <1>10, <1>11, <1>13, <3>2, <4>1 DEF Wakes, ResumeWakes
    <3> QED
      BY <2>1, <2>3, <3>1, <3>2 DEF WakeKept
  <2>4. ASSUME n.st = "HOLD_PENDING", n.held, ~n.misled PROVE Retry(c)'
    BY <1>5, <1>10, <1>13, <2>1, <2>4 DEF WakeKept, Wakes
  <2>5. ASSUME n.st = "CONNECTED_MEDIA_PEND" PROVE MediaWakes(c)'
    BY <1>5, <1>10, <1>11, <1>13, <2>1, <2>5 DEF WakeKept, Wakes, MediaWakes
  <2> QED
    BY <1>5, <1>13, <2>3, <2>4, <2>5 DEF Wakes
<1> QED
  BY <1>12, <1>13

(* Handling a message keeps Known and RecordsGood. *)
LEMMA HandledKnown ==
    ASSUME NEW x, NEW m, Situation(x, m), Taking(x, m), UNCHANGED <<sip, started>>,
           x.d.q \in Seq(SetAside),
           NEW n \in CallRecord, NEW e \in SipEvents \cup {"none"},
           Outcome(x, m.call, n, e), Allowed(x, m, call[m.call], n, e)
    PROVE  Known' /\ RecordsGood'
<1> DEFINE A == KnownMessage \cup {NullMessage}
<1>1. m \in Message /\ m.call \in Calls /\ m.call \in started
  BY SituationFacts
<1>2. UNCHANGED <<KnownMessage, SetAside, KnownSipMessage>>
  BY DEF KnownMessage, SetAside, KnownSipMessage
<1>3. x.q \in Seq(A)
  BY HeadTailType DEF Taking, Situation, Known
<1>4. PICK posts \in Seq(Inner) : gsmQ' = x.q \o posts
  BY DEF Outcome
<1>5. gsmQ' \in Seq(A)
  <2>1. Inner \subseteq A
    BY DEF Inner
  <2>2. posts \in Seq(A)
    BY <2>1, SeqMonotone
  <2> HIDE DEF A
  <2> QED
    BY <1>3, <1>4, <2>2, ConcatType
<1>6. sipQ' \in Seq(KnownSipMessage)
  <2>1. Sends(e, m.call) \in Seq(KnownSipMessage)
    <3>1. CASE e = "none"
      BY <3>1, EmptyType DEF Sends
    <3>2. CASE e # "none"
      <4>1. [ev |-> e, call |-> m.call] \in KnownSipMessage
        BY <1>1, <3>2 DEF KnownSipMessage, SipMessage
      <4> QED
        BY <3>2, <4>1, OneType DEF Sends, ToSip
    <3> QED
      BY <3>1, <3>2
  <2> QED
    BY <2>1, ConcatType DEF Outcome, Situation, Known
<1>7. \A c \in Calls :
         /\ call'[c].chain \/ call'[c].tmr = "on" \/ call'[c].errTmr => c \in started
         /\ RecordGood(call'[c])
  <2>1. RecordGood(n)
    BY DEF Allowed
  <2>2. call'[m.call] = n /\ \A k \in Calls : k # m.call => call'[k] = call[k]
    BY OutcomeCalls
  <2>3. \A c \in Calls :
           /\ call[c].chain \/ call[c].tmr = "on" \/ call[c].errTmr => c \in started
           /\ RecordGood(call[c])
    BY DEF Situation, Known, RecordsGood
  <2> QED
    BY <1>1, <2>1, <2>2, <2>3
<1>8. RecordsGood'
  BY <1>7 DEF RecordsGood, RecordGood
<1>9. Known'
  BY <1>2, <1>5, <1>6, <1>7 DEF Known, Outcome, Situation
<1> QED
  BY <1>8, <1>9

-----------------------------------------------------------------------------
(***************************************************************************)
(* The steps of the GSM thread that handle nothing: an event is set aside, *)
(* or the message is the NULL message.  The calls and the SIP thread's     *)
(* queue are left alone and nothing the invariant is about is taken.       *)
(***************************************************************************)
IdleStep ==
    /\ UNCHANGED <<call, sipQ, sip, started>>
    /\ \A c \in Calls :
          /\ \A ev \in Events \ DeferredEvents : Queued(c, {ev})' <=> Queued(c, {ev})
          /\ Queued(c, {"CONNECTED_ACK", "MEDIA"})' => Queued(c, {"CONNECTED_ACK", "MEDIA"})
          /\ AckAhead(c) => AckAhead(c)'

LEMMA SentSame ==
    ASSUME UNCHANGED sipQ, NEW c, NEW evs PROVE Sent(c, evs)' <=> Sent(c, evs)
BY DEF Sent

LEMMA IdleDialog ==
    ASSUME DialogInv, IdleStep, NEW c \in Calls
    PROVE  SipAhead(c)' /\ GsmAhead(c)' /\ Reinvited(c)'
<1>1. \A evs : Sent(c, evs)' <=> Sent(c, evs)
  BY SentSame DEF IdleStep
<1>2. {"RELEASE", "CONNECTED", "MEDIA"} \subseteq Events \ DeferredEvents
  BY DEF Events, DeferredEvents
<1>3. /\ Queued(c, {"RELEASE"})' <=> Queued(c, {"RELEASE"})
      /\ Queued(c, {"CONNECTED"})' <=> Queued(c, {"CONNECTED"})
      /\ Queued(c, {"MEDIA"})' <=> Queued(c, {"MEDIA"})
      /\ Queued(c, {"CONNECTED_ACK", "MEDIA"})' => Queued(c, {"CONNECTED_ACK", "MEDIA"})
      /\ AckAhead(c) => AckAhead(c)'
  BY <1>2 DEF IdleStep
<1>4. call'[c] = call[c] /\ sip'[c] = sip[c]
  BY DEF IdleStep
<1>5. SipAhead(c) /\ GsmAhead(c) /\ Reinvited(c)
  BY DEF DialogInv
<1>6. /\ Sent(c, {"CONNECTED_ACK"})' <=> Sent(c, {"CONNECTED_ACK"})
      /\ Sent(c, {"CONNECTED"})' <=> Sent(c, {"CONNECTED"})
      /\ Sent(c, {"RELEASE"})' <=> Sent(c, {"RELEASE"})
      /\ Sent(c, {"MEDIA_ACK", "RELEASE"})' <=> Sent(c, {"MEDIA_ACK", "RELEASE"})
  BY <1>1
<1>7. SipAhead(c)'
  BY <1>3, <1>4, <1>5, <1>6 DEF SipAhead
<1>8. GsmAhead(c)'
  BY <1>3, <1>4, <1>5, <1>6 DEF GsmAhead, Alive, Agreed
<1>9. Reinvited(c)'
  BY <1>3, <1>4, <1>5, <1>6 DEF Reinvited
<1> QED
  BY <1>7, <1>8, <1>9

LEMMA IdleWakes ==
    ASSUME IdleStep, NEW c \in Calls, Wakes(c) PROVE Wakes(c)'
<1>1. {"RELEASE", "REQ_PEND_TIMER_EXP", "RESUME_ACK", "MEDIA_ACK"} \subseteq Events \ DeferredEvents
  BY DEF Events, DeferredEvents
<1>2. /\ Queued(c, {"RELEASE"})' <=> Queued(c, {"RELEASE"})
      /\ Queued(c, {"REQ_PEND_TIMER_EXP"})' <=> Queued(c, {"REQ_PEND_TIMER_EXP"})
      /\ Queued(c, {"RESUME_ACK"})' <=> Queued(c, {"RESUME_ACK"})
      /\ Queued(c, {"MEDIA_ACK"})' <=> Queued(c, {"MEDIA_ACK"})
  BY <1>1 DEF IdleStep
<1>3. call'[c] = call[c] /\ sip'[c] = sip[c]
  BY DEF IdleStep
<1>4. /\ Sent(c, {"RESUME"})' <=> Sent(c, {"RESUME"})
      /\ Sent(c, {"MEDIA"})' <=> Sent(c, {"MEDIA"})
  BY SentSame DEF IdleStep
<1>5. /\ Retry(c)' <=> Retry(c)
      /\ Ending(c)' <=> Ending(c)
      /\ Asked(c, "RESUME")' <=> Asked(c, "RESUME")
      /\ Asked(c, "MEDIA")' <=> Asked(c, "MEDIA")
  BY <1>2, <1>3, <1>4, AckOfIs DEF Retry, Ending, Asked
<1> QED
  BY <1>3, <1>5 DEF Wakes, ResumeWakes, MediaWakes

(* Each step of the GSM thread handles a message or is one of these. *)
LEMMA SetAsideIdle ==
    ASSUME NEW x, NEW m, Situation(x, m), Taking(x, m), UNCHANGED <<sip, started>>,
           x.d.q \in Seq(SetAside), SetAsideBy(x, m)
    PROVE  IdleStep /\ Known' /\ RecordsGood'
<1>1. m \in Message /\ m.call \in Calls
  BY SituationFacts
<1>2. gsmQ \in Seq(Message \cup {NullMessage})
  BY DEF Situation, Core, CoreType
<1>3. x.q \in Seq(Message \cup {NullMessage}) /\ <<>> \in Seq(Inner)
  BY DEF Situation, GoodX
<1>4. gsmQ' = x.q \o <<>>
  BY <1>3 DEF SetAsideBy
<1>5. m.ev \in DeferredEvents
  BY DEF SetAsideBy
<1>6. ASSUME NEW c \in Calls
      PROVE  /\ \A ev \in Events \ DeferredEvents : Queued(c, {ev})' <=> Queued(c, {ev})
             /\ Queued(c, {"CONNECTED_ACK", "MEDIA"})' => Queued(c, {"CONNECTED_ACK", "MEDIA"})
             /\ AckAhead(c) => AckAhead(c)'
  <2>1. /\ Queued(c, {"CONNECTED_ACK", "MEDIA"})' => Queued(c, {"CONNECTED_ACK", "MEDIA"})
        /\ \A ev : Queued(c, {ev}) => Queued(c, {ev})' \/ (m.call = c /\ m.ev = ev)
    BY <1>1, <1>2, <1>3, <1>4, GsmQueueFacts
  <2>2. ASSUME NEW ev \in Events \ DeferredEvents, Queued(c, {ev})' PROVE Queued(c, {ev})
    <3> DEFINE S == Of(c, {ev})
    <3>1. (Queued(c, {ev}) <=> Holds(gsmQ, S)) /\ (Queued(c, {ev})' <=> Holds(gsmQ', S))
      <4>1. gsmQ' \in Seq(Message \cup {NullMessage})
        BY <1>3, <1>4
      <4> QED
        BY <1>2, <4>1, QueuedHolds
    <3>2. Holds(x.q, S) => Holds(gsmQ, S)
      BY <1>2, HoldsTail DEF Taking
    <3> HIDE DEF S
    <3> QED
      BY <1>3, <1>4, <2>2, <3>1, <3>2
  <2>3. AckAhead(c) => AckAhead(c)'
    <3>1. m.ev # "CONNECTED_ACK"
      BY <1>5 DEF DeferredEvents
    <3> QED
      BY <1>1, <1>2, <1>3, <1>4, <3>1, AckStaysAhead
  <2> QED
    BY <1>5, <2>1, <2>2, <2>3
<1>7. IdleStep
  BY <1>6 DEF IdleStep, SetAsideBy
<1>8. RecordsGood'
  BY DEF SetAsideBy, Situation, RecordsGood, RecordGood
<1>9. Known'
  <2>1. UNCHANGED <<KnownMessage, SetAside, KnownSipMessage>>
    BY DEF KnownMessage, SetAside, KnownSipMessage
  <2>2. gsmQ' \in Seq(KnownMessage \cup {NullMessage})
    BY HeadTailType DEF Taking, SetAsideBy, Situation, Known
  <2>3. dcsm'.q \in Seq(SetAside)
    <3>1. m \in SetAside
      BY <1>5 DEF Situation, SetAside
    <3> QED
      BY <3>1, AppendType DEF SetAsideBy
  <2> QED
    BY <2>1, <2>2, <2>3 DEF SetAsideBy, Situation, Known
<1> QED
  BY <1>7, <1>8, <1>9

LEMMA NullIdle ==
    ASSUME Core, Known, RecordsGood, GsmGetNull
    PROVE  IdleStep /\ Known' /\ RecordsGood'
<1>1. /\ gsmQ \in Seq(Message \cup {NullMessage}) /\ gsmQ # <<>> /\ Head(gsmQ) = NullMessage
      /\ gsmQ' = Tail(gsmQ)
  BY DEF Core, CoreType, GsmGetNull
<1>2. gsmQ' \in Seq(Message \cup {NullMessage})
  BY <1>1, HeadTailType
<1>3. \A c, evs : NullMessage \notin Of(c, evs)
  BY NullIsNone DEF Of
<1>4. \A c, evs : Queued(c, evs)' <=> Queued(c, evs)
  <2> TAKE c, evs
  <2>1. /\ Queued(c, evs) <=> Holds(gsmQ, Of(c, evs))
        /\ Queued(c, evs)' <=> Holds(gsmQ', Of(c, evs))
    BY <1>1, <1>2, QueuedHolds
  <2>2. Holds(gsmQ, Of(c, evs)) <=> Holds(gsmQ', Of(c, evs))
    BY <1>1, <1>3, HoldsTail
  <2> QED
    BY <2>1, <2>2
<1>5. \A c \in Calls : AckAhead(c) => AckAhead(c)'
  <2> SUFFICES ASSUME NEW c \in Calls, AckAhead(c) PROVE AckAhead(c)'
    OBVIOUS
  <2> DEFINE S == Of(c, {"CONNECTED_ACK"})
             T == Of(c, {"MEDIA"})
  <2>1. Before(gsmQ, S, T) /\ (AckAhead(c)' <=> Before(gsmQ', S, T))
    BY DEF AckAhead, Of
  <2>2. Head(gsmQ) \notin S
    BY <1>1, <1>3
  <2> HIDE DEF S, T
  <2>3. Before(Tail(gsmQ), S, T)
    BY <1>1, <2>1, <2>2, BeforeTail, Zenon
  <2> QED
    BY <1>1, <2>1, <2>3
<1>6. IdleStep
  BY <1>4, <1>5 DEF IdleStep, GsmGetNull
<1>7. RecordsGood'
  BY DEF GsmGetNull, RecordsGood, RecordGood
<1>8. Known'
  <2>1. UNCHANGED <<KnownMessage, SetAside, KnownSipMessage>>
    BY DEF KnownMessage, SetAside, KnownSipMessage, GsmGetNull
  <2>2. gsmQ' \in Seq(KnownMessage \cup {NullMessage})
    BY <1>1, HeadTailType DEF Known
  <2> QED
    BY <2>1, <2>2 DEF GsmGetNull, Known
<1> QED
  BY <1>6, <1>7, <1>8

LEMMA GsmThreadDialog ==
    ASSUME DialogInv, GsmThread
    PROVE  /\ Known' /\ RecordsGood'
           /\ \A c \in Calls : SipAhead(c)' /\ GsmAhead(c)' /\ Reinvited(c)'
           /\ \A c \in Calls : Wakes(c) => Wakes(c)'
<1>1. /\ Core /\ Known /\ RecordsGood
      /\ pc = "jobs" => HasReadyJob(dcsm)
      /\ dcsm \in DcsmRecord /\ gsmQ \in Seq(Message \cup {NullMessage})
      /\ gsmQ \in Seq(KnownMessage \cup {NullMessage}) /\ dcsm.q \in Seq(SetAside)
  BY DEF DialogInv, Inv, LoopType, Core, CoreType, Known
<1>2. SUFFICES ASSUME NEW x, NEW m, Situation(x, m), Taking(x, m), FimProcessEvent(x, m),
                      x.d.q \in Seq(SetAside), UNCHANGED <<sip, started>>
               PROVE  /\ Known' /\ RecordsGood'
                      /\ \A c \in Calls : SipAhead(c)' /\ GsmAhead(c)' /\ Reinvited(c)'
                      /\ \A c \in Calls : Wakes(c) => Wakes(c)'
  <2>1. CASE GsmGetMessage
    <3> DEFINE x == [q |-> Tail(gsmQ), d |-> dcsm]
               m == Head(gsmQ)
    <3>1. gsmQ # <<>> /\ m # NullMessage /\ FimProcessEvent(x, m) /\ UNCHANGED <<sip, started>>
      BY <2>1 DEF GsmGetMessage
    <3>2. m \in KnownMessage
      BY <1>1, <3>1, HeadTailType
    <3>3. Tail(gsmQ) \in Seq(Message \cup {NullMessage})
      BY <1>1, <3>1, HeadTailType
    <3>4. GoodX(x) /\ x.d.q \in Seq(SetAside) /\ Taking(x, m)
      BY <1>1, <3>1, <3>3 DEF GoodX, Taking
    <3>5. Situation(x, m)
      BY <1>1, <3>2, <3>4 DEF Situation
    <3> HIDE DEF x, m
    <3> QED
      BY <1>2, <3>1, <3>4, <3>5
  <2>2. CASE GsmGetNull
    <3>1. IdleStep /\ Known' /\ RecordsGood'
      BY <1>1, <2>2, NullIdle
    <3> QED
      BY <3>1, IdleDialog, IdleWakes
  <2>3. CASE DcsmProcessJobs
    <3> DEFINE x == [q |-> gsmQ, d |-> WithoutFirst(dcsm)]
               m == Head(dcsm.q)
    <3>1. dcsm.q # <<>> /\ FimProcessEvent(x, m) /\ UNCHANGED <<sip, started>>
      BY <1>1, <2>3 DEF DcsmProcessJobs, HasReadyJob
    <3>2. m \in SetAside /\ Tail(dcsm.q) \in Seq(SetAside)
      BY <1>1, <3>1, HeadTailType
    <3>3. m \in KnownMessage /\ m.ev \in DeferredEvents
      BY <3>2 DEF SetAside
    <3>4. x.d = [dcsm EXCEPT !.q = Tail(dcsm.q)]
      BY DEF WithoutFirst
    <3>5. Tail(dcsm.q) \in Seq(Message)
      BY <1>1, <3>1, HeadTailType DEF DcsmRecord
    <3>6. GoodX(x) /\ x.d.q \in Seq(SetAside) /\ Taking(x, m)
      <4>1. x.d.q = Tail(dcsm.q) /\ x.d \in DcsmRecord /\ x.d.ids = dcsm.ids
            /\ x.d.state = dcsm.state /\ x.q = gsmQ
        BY <1>1, <3>4, <3>5 DEF DcsmRecord
      <4> HIDE DEF x, m
      <4> QED
        BY <1>1, <3>2, <3>3, <4>1 DEF GoodX, Taking
    <3>7. Situation(x, m)
      BY <1>1, <3>3, <3>6 DEF Situation
    <3> HIDE DEF x, m
    <3> QED
      BY <1>2, <3>1, <3>6, <3>7
  <2> QED
    BY <2>1, <2>2, <2>3 DEF GsmThread
<1>3. CASE Done(x, m)
  <2>1. PICK n \in CallRecord, e \in SipEvents \cup {"none"} :
           Outcome(x, m.call, n, e) /\ Allowed(x, m, call[m.call], n, e)
    BY <1>3 DEF Done
  <2>2. Known' /\ RecordsGood'
    BY <1>2, <2>1, HandledKnown
  <2>3. \A c \in Calls : SipAhead(c)' /\ GsmAhead(c)' /\ Reinvited(c)'
    BY <1>2, <2>1, HandledDialog
  <2>4. \A c \in Calls : Wakes(c) => Wakes(c)'
    BY <1>2, <2>1, HandledWakes
  <2> QED
    BY <2>2, <2>3, <2>4
<1>4. CASE SetAsideBy(x, m)
  <2>1. IdleStep /\ Known' /\ RecordsGood'
    BY <1>2, <1>4, SetAsideIdle
  <2> QED
    BY <2>1, IdleDialog, IdleWakes
<1> QED
  BY <1>2, <1>3, <1>4, FimDone

-----------------------------------------------------------------------------
(***************************************************************************)
(* The SIP thread and the peers.  A step takes at most one message of call *)
(* control from the queue, changes one ccb from s to n and posts messages  *)
(* with the events P.                                                      *)
(***************************************************************************)
FromSip(c) == {m \in Message : m.call = c /\ m.src = "SIP"}
Posts(c, P, posts) ==
    /\ posts \in Seq(FromSip(c))
    /\ \A evs : Holds(posts, Of(c, evs)) <=> P \cap evs # {}

LEMMA PostsNone == ASSUME NEW c PROVE Posts(c, {}, <<>>)
BY HoldsNothing DEF Posts

LEMMA PostsOne ==
    ASSUME NEW c \in Calls, NEW ev \in Events, NEW cause \in Causes
    PROVE  Posts(c, {ev}, Post(ev, c, cause))
<1> DEFINE m == Msg(ev, c, "SIP", cause)
<1>1. m \in FromSip(c) /\ m.ev = ev
  BY DEF FromSip, Msg, Message
<1>2. \A evs : m \in Of(c, evs) <=> {ev} \cap evs # {}
  BY DEF Of, Msg, Message
<1>3. Post(ev, c, cause) = <<m>>
  BY DEF Post
<1> HIDE DEF m
<1> QED
  BY <1>1, <1>2, <1>3, HoldsOne, OneType DEF Posts

LEMMA PostsTwo ==
    ASSUME NEW c, NEW P, NEW Q, NEW p, NEW q, Posts(c, P, p), Posts(c, Q, q)
    PROVE  Posts(c, P \cup Q, p \o q)
<1>1. p \in Seq(FromSip(c)) /\ q \in Seq(FromSip(c)) /\ p \o q \in Seq(FromSip(c))
  BY ConcatType DEF Posts
<1>2. ASSUME NEW evs PROVE Holds(p \o q, Of(c, evs)) <=> (P \cup Q) \cap evs # {}
  <2>1. Holds(p \o q, Of(c, evs)) <=> Holds(p, Of(c, evs)) \/ Holds(q, Of(c, evs))
    BY <1>1, HoldsConcat
  <2>2. (Holds(p, Of(c, evs)) <=> P \cap evs # {}) /\ (Holds(q, Of(c, evs)) <=> Q \cap evs # {})
    BY DEF Posts
  <2> QED
    BY <2>1, <2>2
<1> QED
  BY <1>1, <1>2 DEF Posts

React(c, P, n) ==
    /\ sip' = [sip EXCEPT ![c] = n]
    /\ \E posts : Posts(c, P, posts) /\ gsmQ' = gsmQ \o posts

Takes(c, taken) ==
    \/ taken = "none" /\ sipQ' = sipQ
    \/ sipQ # <<>> /\ sipQ' = Tail(sipQ) /\ c = Head(sipQ).call /\ taken = Head(sipQ).ev

(* How the dialog may move, and what is posted when it does. *)
SipMoves(c, s, n, P, taken) ==
    /\ s.st \in Final => n.st \in Final
    /\ taken = "RELEASE" \/ "RELEASE" \in P => n.st \in Final
    /\ s.st \in Established => n.st \in Established \cup Final
    /\ s.st = "SENT_INVITE_CONNECTED" =>
          n.st \in {"SENT_INVITE_CONNECTED", "ACTIVE"} \cup Final
    /\ n.st = "SENT_INVITE_CONNECTED" => s.st \in {"SENT_INVITE", "SENT_INVITE_CONNECTED"}
    /\ n.st = "RECV_INVITE" => s.st = "RECV_INVITE" \/ c \notin started
    /\ n.st = "RECV_INVITE_CONNECTED" =>
          s.st = "RECV_INVITE_CONNECTED" \/ (s.st = "RECV_INVITE" /\ taken = "CONNECTED")
    /\ n.st \in Established =>
          \/ s.st \in Established
          \/ s.st = "SENT_INVITE_CONNECTED" /\ taken = "CONNECTED_ACK"
          \/ s.st = "RECV_INVITE_CONNECTED" /\ "CONNECTED_ACK" \in P

SipPosts(s, n, P, taken) ==
    /\ "CONNECTED" \in P => n.st = "SENT_INVITE_CONNECTED"
    /\ "CONNECTED_ACK" \in P =>
          s.st = "RECV_INVITE_CONNECTED" /\ n.st = "ACTIVE" /\ P = {"CONNECTED_ACK"}
    /\ "MEDIA" \in P => s.st = "ACTIVE" /\ n.st = "CCFEATUREACK_PENDING"
    /\ n.st = "CCFEATUREACK_PENDING" =>
          \/ "MEDIA" \in P
          \/ s.st = "CCFEATUREACK_PENDING" /\ taken \notin {"MEDIA_ACK", "RELEASE"}
    /\ s.st = "SENT_MIDCALL_INVITE" =>
          \/ n.st = "SENT_MIDCALL_INVITE" /\ n.feature = s.feature
          \/ AckOf(s.feature) \in P \/ "RELEASE" \in P
    /\ taken \in {"RESUME", "MEDIA"} =>
          \/ n.st = "SENT_MIDCALL_INVITE" /\ n.feature = taken
          \/ AckOf(taken) \in P \/ "RELEASE" \in P

SipKept(c, s, n, P, taken) == SipMoves(c, s, n, P, taken) /\ SipPosts(s, n, P, taken)

Reacts(c, taken) == \E n \in SipRecord, P \in SUBSET Events :
    React(c, P, n) /\ SipKept(c, sip[c], n, P, taken)

LEMMA ReactTo ==
    ASSUME SipType, NEW c \in Calls, NEW st \in SipStates, NEW posts, SipTo(c, st, posts),
           NEW P \in SUBSET Events, Posts(c, P, posts), NEW taken,
           \A n \in SipRecord : n.st = st /\ n.feature = sip[c].feature
                                   => SipKept(c, sip[c], n, P, taken)
    PROVE  Reacts(c, taken)
<1> DEFINE n == [sip[c] EXCEPT !.st = st]
<1>1. sip[c] \in SipRecord /\ sip' = [sip EXCEPT ![c] = n]
  BY DEF SipType, SipTo
<1>2. n \in SipRecord /\ n.st = st /\ n.feature = sip[c].feature
  BY <1>1 DEF SipRecord
<1>3. React(c, P, n)
  BY <1>1 DEF React, SipTo
<1> HIDE DEF n
<1> QED
  BY <1>2, <1>3 DEF Reacts

LEMMA SipApart ==
    /\ Final = {"RELEASE", "RELEASE_BYE_SENT", "CLEANED_UP"}
    /\ Established = {"ACTIVE", "SENT_MIDCALL_INVITE", "CCFEATUREACK_PENDING", "SIPACK_PENDING"}
BY DEF Final, Established

(* sip_sm_process_cc_event(), for the message taken. *)
LEMMA SipThreadReacts ==
    ASSUME SipType, NEW c \in Calls, NEW taken \in SipEvents,
           \/ taken \in {"HOLD", "RESUME", "MEDIA"} /\ SipFeature(c, taken)
           \/ taken = "RELEASE" /\ SipRelease(c)
           \/ taken = "RELEASE_COMPLETE" /\ SipReleaseComplete(c)
           \/ SipAnswer(c, taken)
    PROVE  Reacts(c, taken)
<1> DEFINE s == sip[c]
<1>1. s \in SipRecord /\ s.st \in SipStates
  BY DEF SipType, SipRecord
<1>2. /\ "RELEASE" \in Events /\ "RELEASE_COMPLETE" \in Events /\ AckOf(taken) \in Events
      /\ "error" \in Causes /\ "pending" \in Causes /\ "ok" \in Causes
  BY AckType DEF Events, Causes
<1>3. AckOf(taken) \in {"HOLD_ACK", "RESUME_ACK", "MEDIA_ACK"}
  BY DEF AckOf
<1>4. Posts(c, {}, <<>>) /\ {} \in SUBSET Events
  BY PostsNone
<1>5. \A ev \in Events, cause \in Causes :
         {ev} \in SUBSET Events /\ Posts(c, {ev}, Post(ev, c, cause))
  BY PostsOne
<1> HIDE DEF s
<1>6. CASE taken \in {"HOLD", "RESUME", "MEDIA"} /\ SipFeature(c, taken)
  <2>1. CASE /\ s.st = "ACTIVE"
             /\ sip' = [sip EXCEPT ![c].st = "SENT_MIDCALL_INVITE", ![c].feature = taken]
             /\ UNCHANGED gsmQ
    <3> DEFINE n == [s EXCEPT !.st = "SENT_MIDCALL_INVITE", !.feature = taken]
    <3>1. sip' = [sip EXCEPT ![c] = n]
      BY <2>1 DEF SipType, s
    <3>2. n \in SipRecord /\ n.st = "SENT_MIDCALL_INVITE" /\ n.feature = taken
      BY <1>1, <1>6 DEF SipRecord, SipStates
    <3> HIDE DEF n
    <3>3. React(c, {}, n) \/ ~(gsmQ \o <<>> = gsmQ)
      BY <1>4, <2>1, <3>1 DEF React
    <3>4. SipKept(c, s, n, {}, taken)
      BY <1>6, <2>1, <3>2, SipApart DEF SipKept, SipMoves, SipPosts
    <3> QED
      BY <1>4, <3>2, <3>3, <3>4 DEF Reacts, s
  <2>2. CASE /\ s.st \in {"SENT_MIDCALL_INVITE", "CCFEATUREACK_PENDING", "SIPACK_PENDING"}
             /\ SipTo(c, s.st, Post(AckOf(taken), c, "pending"))
    <3>1. \A n \in SipRecord : n.st = s.st /\ n.feature = s.feature
                                 => SipKept(c, s, n, {AckOf(taken)}, taken)
      BY <1>3, <1>6, <2>2, SipApart DEF SipKept, SipMoves, SipPosts
    <3> QED
      BY <1>1, <1>2, <1>5, <2>2, <3>1, ReactTo DEF s
  <2>3. CASE /\ s.st \in {"RELEASE", "RELEASE_BYE_SENT"}
             /\ SipTo(c, s.st, Post(AckOf(taken), c, "error"))
    <3>1. \A n \in SipRecord : n.st = s.st /\ n.feature = s.feature
                                 => SipKept(c, s, n, {AckOf(taken)}, taken)
      BY <1>3, <1>6, <2>3, SipApart DEF SipKept, SipMoves, SipPosts
    <3> QED
      BY <1>1, <1>2, <1>5, <2>3, <3>1, ReactTo DEF s
  <2>4. CASE s.st = "CLEANED_UP" /\ SipTo(c, s.st, Post("RELEASE", c, "error"))
    <3>1. \A n \in SipRecord : n.st = s.st /\ n.feature = s.feature
                                 => SipKept(c, s, n, {"RELEASE"}, taken)
      BY <1>6, <2>4, SipApart DEF SipKept, SipMoves, SipPosts
    <3> QED
      BY <1>1, <1>2, <1>5, <2>4, <3>1, ReactTo DEF s
  <2> QED
    BY <1>6, <2>1, <2>2, <2>3, <2>4 DEF SipFeature, s
<1>7. CASE taken = "RELEASE" /\ SipRelease(c)
  <2>1. PICK st \in {"RELEASE_BYE_SENT", "CLEANED_UP"},
             ev \in {"RELEASE", "RELEASE_COMPLETE"}, cause \in {"ok", "error"} :
             /\ SipTo(c, st, Post(ev, c, cause))
             /\ s.st = "SENT_MIDCALL_INVITE" => ev = "RELEASE"
    BY <1>7 DEF SipRelease, s
  <2>2. st \in SipStates /\ ev \in Events /\ cause \in Causes
    BY DEF SipStates, Events, Causes
  <2>3. \A n \in SipRecord : n.st = st /\ n.feature = s.feature
                               => SipKept(c, s, n, {ev}, taken)
    BY <1>7, <2>1, SipApart DEF SipKept, SipMoves, SipPosts
  <2> QED
    BY <1>5, <2>1, <2>2, <2>3, ReactTo DEF s
<1>8. CASE taken = "RELEASE_COMPLETE" /\ SipReleaseComplete(c)
  <2>1. s.st \in Final /\ "CLEANED_UP" \in SipStates
    BY <1>8, SipApart DEF SipReleaseComplete, s, SipStates
  <2>2. PICK P \in {{}, {"RELEASE"}} :
           \E posts : Posts(c, P, posts) /\ SipTo(c, "CLEANED_UP", posts)
    BY <1>2, <1>4, <1>5, <1>8 DEF SipReleaseComplete
  <2>3. \A n \in SipRecord : n.st = "CLEANED_UP" /\ n.feature = s.feature
                               => SipKept(c, s, n, P, taken)
    BY <1>8, <2>1, SipApart DEF SipKept, SipMoves, SipPosts
  <2>4. P \in SUBSET Events
    BY <1>2
  <2> QED
    BY <2>1, <2>2, <2>3, <2>4, ReactTo DEF s
<1>9. CASE SipAnswer(c, taken)
  <2> DEFINE next == [st \in SipStates |->
            CASE taken = "SETUP" /\ st = "IDLE" -> "SENT_INVITE"
              [] taken = "CONNECTED" /\ st = "RECV_INVITE" -> "RECV_INVITE_CONNECTED"
              [] taken = "CONNECTED_ACK" /\ st = "SENT_INVITE_CONNECTED" -> "ACTIVE"
              [] taken = "MEDIA_ACK" /\ st = "CCFEATUREACK_PENDING" -> "SIPACK_PENDING"
              [] OTHER -> st]
             to == next[s.st]
             posts == IF s.st = "CLEANED_UP" THEN Post("RELEASE", c, "error") ELSE <<>>
             P == IF s.st = "CLEANED_UP" THEN {"RELEASE"} ELSE {}
  <2>1. taken \in {"SETUP", "CONNECTED", "CONNECTED_ACK", "MEDIA_ACK"} /\ SipTo(c, to, posts)
    BY <1>9 DEF SipAnswer, s
  <2>2. \/ taken = "SETUP" /\ s.st = "IDLE" /\ to = "SENT_INVITE"
        \/ taken = "CONNECTED" /\ s.st = "RECV_INVITE" /\ to = "RECV_INVITE_CONNECTED"
        \/ taken = "CONNECTED_ACK" /\ s.st = "SENT_INVITE_CONNECTED" /\ to = "ACTIVE"
        \/ taken = "MEDIA_ACK" /\ s.st = "CCFEATUREACK_PENDING" /\ to = "SIPACK_PENDING"
        \/ to = s.st /\ ~(taken = "MEDIA_ACK" /\ s.st = "CCFEATUREACK_PENDING")
    BY <1>1
  <2>3. Posts(c, P, posts) /\ P \in SUBSET Events
    BY <1>2, <1>4, <1>5
  <2>4. P \in {{}, {"RELEASE"}} /\ ("RELEASE" \in P => s.st = "CLEANED_UP" /\ to = s.st)
    BY <2>2
  <2>5. to \in SipStates
    BY <1>1, <2>2 DEF SipStates
  <2> HIDE DEF next, to, posts, P
  <2>6. \A n \in SipRecord : n.st = to /\ n.feature = s.feature
                               => SipKept(c, s, n, P, taken)
    <3> SUFFICES ASSUME NEW n \in SipRecord, n.st = to, n.feature = s.feature
                 PROVE  SipKept(c, s, n, P, taken)
      OBVIOUS
    <3>1. SipMoves(c, s, n, P, taken)
      BY <2>1, <2>2, <2>4, SipApart DEF SipMoves
    <3>2. SipPosts(s, n, P, taken)
      BY <2>1, <2>2, <2>4, SipApart DEF SipPosts
    <3> QED
      BY <3>1, <3>2 DEF SipKept
  <2> QED
    BY <2>1, <2>3, <2>5, <2>6, ReactTo DEF s
<1> QED
  BY <1>6, <1>7, <1>8, <1>9

(* The peers, and the timers of their transactions. *)
LEMMA PeerReacts ==
    ASSUME SipType, Known, gsmQ \in Seq(Message \cup {NullMessage}), NEW c \in Calls,
           Peer(c) \/ PeerResponse(c)
    PROVE  Reacts(c, "none")
<1> DEFINE s == sip[c]
<1>1. s \in SipRecord /\ s.st \in SipStates /\ s.feature \in {"HOLD", "RESUME", "MEDIA"}
  BY DEF SipType, SipRecord
<1>2. AckOf(s.feature) \in {"HOLD_ACK", "RESUME_ACK", "MEDIA_ACK"} /\ AckOf(s.feature) \in Events
  BY AckType DEF AckOf
<1>3. Posts(c, {}, <<>>) /\ {} \in SUBSET Events
  BY PostsNone
<1>4. \A ev \in Events, cause \in Causes :
         {ev} \in SUBSET Events /\ Posts(c, {ev}, Post(ev, c, cause))
  BY PostsOne
<1>5. /\ "ok" \in Causes /\ "busy" \in Causes /\ "pending" \in Causes /\ "error" \in Causes
      /\ "SETUP" \in Events /\ "PROCEEDING" \in Events /\ "ALERTING" \in Events
      /\ "CONNECTED" \in Events /\ "CONNECTED_ACK" \in Events /\ "RELEASE" \in Events
      /\ "RELEASE_COMPLETE" \in Events /\ "MEDIA" \in Events
  BY DEF Causes, Events
<1>6. {"RECV_INVITE", "SENT_INVITE_CONNECTED", "RELEASE", "ACTIVE", "CCFEATUREACK_PENDING",
       "CLEANED_UP"} \subseteq SipStates
  BY DEF SipStates
<1>7. ASSUME NEW st \in SipStates, NEW P \in SUBSET Events, NEW posts,
             Posts(c, P, posts), SipTo(c, st, posts),
             \A n \in SipRecord : n.st = st /\ n.feature = s.feature
                                    => SipKept(c, s, n, P, "none")
      PROVE  Reacts(c, "none")
  BY <1>7, ReactTo DEF s
<1> HIDE DEF s
<1>8. CASE PeerInvites(c)
  <2>1. c \notin started /\ s.st = "IDLE"
    BY <1>8 DEF PeerInvites, Known, s
  <2>2. PICK cause \in {"ok", "busy"} : SipTo(c, "RECV_INVITE", Post("SETUP", c, cause))
    BY <1>8 DEF PeerInvites
  <2>3. \A n \in SipRecord : n.st = "RECV_INVITE" => SipKept(c, s, n, {"SETUP"}, "none")
    BY <2>1, SipApart DEF SipKept, SipMoves, SipPosts
  <2> QED
    BY <1>4, <1>5, <1>6, <1>7, <2>2, <2>3
<1>9. CASE PeerRings(c)
  <2> DEFINE n == [s EXCEPT !.rang = TRUE]
  <2>1. PICK ev \in {"PROCEEDING", "ALERTING"} :
           /\ sip' = [sip EXCEPT ![c].rang = TRUE]
           /\ gsmQ' = gsmQ \o Post(ev, c, "ok")
    BY <1>9 DEF PeerRings
  <2>2. n \in SipRecord /\ n.st = s.st /\ n.feature = s.feature
    BY <1>1 DEF SipRecord
  <2>3. sip' = [sip EXCEPT ![c] = n] /\ s.st = "SENT_INVITE"
    BY <1>9, <2>1 DEF s, PeerRings
  <2> HIDE DEF n
  <2>4. React(c, {ev}, n) /\ {ev} \in SUBSET Events
    BY <1>4, <1>5, <2>1, <2>3 DEF React
  <2>5. SipKept(c, s, n, {ev}, "none")
    BY <2>2, <2>3, SipApart DEF SipKept, SipMoves, SipPosts
  <2> QED
    BY <2>2, <2>4, <2>5 DEF Reacts, s
<1>10. CASE PeerAnswers(c)
  <2>1. s.st = "SENT_INVITE"
    BY <1>10 DEF PeerAnswers, s
  <2>2. PICK cause \in {"ok", "error"} :
           SipTo(c, "SENT_INVITE_CONNECTED", Post("CONNECTED", c, cause))
    BY <1>10 DEF PeerAnswers
  <2>3. \A n \in SipRecord : n.st = "SENT_INVITE_CONNECTED"
                               => SipKept(c, s, n, {"CONNECTED"}, "none")
    BY <2>1, SipApart DEF SipKept, SipMoves, SipPosts
  <2> QED
    BY <1>4, <1>5, <1>6, <1>7, <2>2, <2>3
<1>11. CASE PeerRefuses(c) \/ PeerDisconnects(c)
  <2>1. PICK cause \in {"ok", "error"} : SipTo(c, "RELEASE", Post("RELEASE", c, cause))
    BY <1>11 DEF PeerRefuses, PeerDisconnects
  <2>2. \A n \in SipRecord : n.st = "RELEASE" => SipKept(c, s, n, {"RELEASE"}, "none")
    BY SipApart DEF SipKept, SipMoves, SipPosts
  <2> QED
    BY <1>4, <1>5, <1>6, <1>7, <2>1, <2>2
<1>12. CASE PeerAcks(c)
  <2>1. CASE s.st = "RECV_INVITE_CONNECTED" /\ SipTo(c, "ACTIVE", Post("CONNECTED_ACK", c, "ok"))
    <3>1. \A n \in SipRecord : n.st = "ACTIVE" => SipKept(c, s, n, {"CONNECTED_ACK"}, "none")
      BY <2>1, SipApart DEF SipKept, SipMoves, SipPosts
    <3> QED
      BY <1>4, <1>5, <1>6, <1>7, <2>1, <3>1
  <2>2. CASE s.st = "SIPACK_PENDING" /\ SipTo(c, "ACTIVE", <<>>)
    <3>1. \A n \in SipRecord : n.st = "ACTIVE" => SipKept(c, s, n, {}, "none")
      BY <2>2, SipApart DEF SipKept, SipMoves, SipPosts
    <3> QED
      BY <1>3, <1>6, <1>7, <2>2, <3>1
  <2> QED
    BY <1>12, <2>1, <2>2 DEF PeerAcks, s
<1>13. CASE PeerReinvites(c)
  <2>1. s.st = "ACTIVE" /\ SipTo(c, "CCFEATUREACK_PENDING", Post("MEDIA", c, "ok"))
    BY <1>13 DEF PeerReinvites, s
  <2>2. \A n \in SipRecord : n.st = "CCFEATUREACK_PENDING" => SipKept(c, s, n, {"MEDIA"}, "none")
    BY <2>1, SipApart DEF SipKept, SipMoves, SipPosts
  <2> QED
    BY <1>4, <1>5, <1>6, <1>7, <2>1, <2>2
<1>14. CASE PeerRejects(c)
  <2>1. s.st = "SENT_MIDCALL_INVITE"
    BY <1>14 DEF PeerRejects, s
  <2>2. PICK cause \in {"pending", "error"} : SipTo(c, "ACTIVE", Post(AckOf(s.feature), c, cause))
    BY <1>14 DEF PeerRejects, s
  <2>3. \A n \in SipRecord : n.st = "ACTIVE" => SipKept(c, s, n, {AckOf(s.feature)}, "none")
    BY <1>2, <2>1, SipApart DEF SipKept, SipMoves, SipPosts
  <2> QED
    BY <1>2, <1>4, <1>5, <1>6, <1>7, <2>2, <2>3
<1>15. CASE ReinviteTimesOut(c)
  <2> DEFINE P == {AckOf(s.feature)} \cup {"RELEASE"}
  <2>1. SipTo(c, "RELEASE", Post(AckOf(s.feature), c, "error") \o Post("RELEASE", c, "error"))
    BY <1>15 DEF ReinviteTimesOut, s
  <2>2. Posts(c, P, Post(AckOf(s.feature), c, "error") \o Post("RELEASE", c, "error"))
    BY <1>2, <1>4, <1>5, PostsTwo
  <2>3. \A n \in SipRecord : n.st = "RELEASE" => SipKept(c, s, n, P, "none")
    BY <1>2, SipApart DEF SipKept, SipMoves, SipPosts
  <2>4. P \in SUBSET Events
    BY <1>2, <1>5
  <2> HIDE DEF P
  <2> QED
    BY <1>6, <1>7, <2>1, <2>2, <2>3, <2>4
<1>16. CASE PeerAccepts(c)
  <2>1. PICK p \in {"hold", "active"} : sip' = [sip EXCEPT ![c].st = "ACTIVE", ![c].peer = p]
    BY <1>16 DEF PeerAccepts
  <2> DEFINE n == [s EXCEPT !.st = "ACTIVE", !.peer = p]
  <2>2. n \in SipRecord /\ n.st = "ACTIVE"
    BY <1>1, <1>6 DEF SipRecord
  <2>3. /\ sip' = [sip EXCEPT ![c] = n] /\ s.st = "SENT_MIDCALL_INVITE"
        /\ gsmQ' = gsmQ \o Post(AckOf(s.feature), c, "ok")
    BY <1>16, <2>1 DEF s, PeerAccepts, SipType
  <2> HIDE DEF n
  <2>4. React(c, {AckOf(s.feature)}, n) /\ {AckOf(s.feature)} \in SUBSET Events
    BY <1>2, <1>4, <1>5, <2>3 DEF React
  <2>5. SipKept(c, s, n, {AckOf(s.feature)}, "none")
    BY <1>2, <2>2, <2>3, SipApart DEF SipKept, SipMoves, SipPosts
  <2> QED
    BY <2>2, <2>4, <2>5 DEF Reacts, s
<1>17. CASE DisconnectDone(c)
  <2>1. SipTo(c, "CLEANED_UP", Post("RELEASE_COMPLETE", c, "ok")) /\ s.st = "RELEASE_BYE_SENT"
    BY <1>17 DEF DisconnectDone, s
  <2>2. \A n \in SipRecord : n.st = "CLEANED_UP" => SipKept(c, s, n, {"RELEASE_COMPLETE"}, "none")
    BY <2>1, SipApart DEF SipKept, SipMoves, SipPosts
  <2> QED
    BY <1>4, <1>5, <1>6, <1>7, <2>1, <2>2
<1> QED
  BY <1>8, <1>9, <1>10, <1>11, <1>12, <1>13, <1>14, <1>15, <1>16, <1>17 DEF Peer, PeerResponse

-----------------------------------------------------------------------------
(***************************************************************************)
(* What such a step does to the two queues.                                *)
(***************************************************************************)
LEMMA BeforeJoined ==
    ASSUME NEW A, NEW q \in Seq(A), NEW p \in Seq(A), NEW S, NEW T,
           ~Holds(q, T), ~Holds(p, T), Holds(p, S)
    PROVE  Before(q \o p, S, T)
<1>1. /\ Len(q \o p) = Len(q) + Len(p) /\ Len(q) \in Nat /\ Len(p) \in Nat
      /\ \A i \in 1 .. Len(q) : (q \o p)[i] = q[i]
      /\ \A i \in 1 .. Len(p) : (q \o p)[Len(q) + i] = p[i]
      /\ q \o p \in Seq(A)
  OBVIOUS
<1>2. PICK i \in 1 .. Len(p) : p[i] \in S
  BY DEF Holds
<1>3. Len(q) + i \in 1 .. Len(q \o p) /\ (q \o p)[Len(q) + i] \in S
  BY <1>1, <1>2
<1>4. ~Holds(q \o p, T)
  BY HoldsConcat
<1>5. \A j \in 1 .. (Len(q) + i) - 1 : (q \o p)[j] \notin T
  <2> TAKE j \in 1 .. (Len(q) + i) - 1
  <2>1. j \in 1 .. Len(q \o p)
    BY <1>1, <1>3
  <2> QED
    BY <1>4, <2>1 DEF Holds
<1> QED
  BY <1>3, <1>5 DEF Before

LEMMA ReactQueue ==
    ASSUME gsmQ \in Seq(Message \cup {NullMessage}), NEW c \in Calls, NEW P, NEW n, React(c, P, n),
           NEW k \in Calls
    PROVE  /\ \A evs : Queued(k, evs)' <=> Queued(k, evs) \/ (k = c /\ P \cap evs # {})
           /\ AckAhead(k) => AckAhead(k)'
           /\ k = c /\ P = {"CONNECTED_ACK"} /\ ~Queued(k, {"MEDIA"}) => AckAhead(k)'
<1> DEFINE A == Message \cup {NullMessage}
<1>1. PICK posts : Posts(c, P, posts) /\ gsmQ' = gsmQ \o posts
  BY DEF React
<1>2. posts \in Seq(FromSip(c)) /\ \A evs : Holds(posts, Of(c, evs)) <=> P \cap evs # {}
  BY <1>1 DEF Posts
<1>3. posts \in Seq(A) /\ gsmQ' \in Seq(A) /\ gsmQ \in Seq(A)
  <2>1. FromSip(c) \subseteq A
    BY DEF FromSip
  <2>2. posts \in Seq(A)
    BY <1>2, <2>1, SeqMonotone
  <2> HIDE DEF A
  <2> QED
    BY <1>1, <2>2, ConcatType DEF A
<1>4. \A evs : Holds(posts, Of(k, evs)) <=> k = c /\ P \cap evs # {}
  <2> TAKE evs
  <2>1. CASE k = c
    BY <1>2, <2>1
  <2>2. CASE k # c
    <3>1. FromSip(c) \cap Of(k, evs) = {}
      BY <2>2 DEF FromSip, Of
    <3> QED
      BY <1>2, <2>2, <3>1, HoldsOnly
  <2> QED
    BY <2>1, <2>2
<1>5. \A evs : /\ Queued(k, evs) <=> Holds(gsmQ, Of(k, evs))
               /\ Queued(k, evs)' <=> Holds(gsmQ', Of(k, evs))
  BY <1>3, QueuedHolds
<1>6. \A evs : Queued(k, evs)' <=> Queued(k, evs) \/ (k = c /\ P \cap evs # {})
  <2> TAKE evs
  <2>1. Holds(gsmQ', Of(k, evs)) <=> Holds(gsmQ, Of(k, evs)) \/ Holds(posts, Of(k, evs))
    BY <1>1, <1>3, HoldsConcat
  <2> QED
    BY <1>4, <1>5, <2>1
<1> DEFINE S == Of(k, {"CONNECTED_ACK"})
           T == Of(k, {"MEDIA"})
<1>7. AckAhead(k)' <=> Before(gsmQ \o posts, S, T)
  BY <1>1 DEF AckAhead, Of
<1>8. AckAhead(k) => AckAhead(k)'
  <2>1. AckAhead(k) => Before(gsmQ, S, T)
    BY DEF AckAhead
  <2> HIDE DEF S, T, A
  <2> QED
    BY <1>3, <1>7, <2>1, BeforeConcat
<1>9. ASSUME k = c, P = {"CONNECTED_ACK"}, ~Queued(k, {"MEDIA"}) PROVE AckAhead(k)'
  <2>1. ~Holds(gsmQ, T)
    BY <1>5, <1>9
  <2>2. {"CONNECTED_ACK"} \cap {"CONNECTED_ACK"} # {} /\ {"CONNECTED_ACK"} \cap {"MEDIA"} = {}
    OBVIOUS
  <2>3. Holds(posts, S) /\ ~Holds(posts, T)
    BY <1>4, <1>9, <2>2
  <2> HIDE DEF S, T, A
  <2> QED
    BY <1>3, <1>7, <2>1, <2>3, BeforeJoined
<1> QED
  BY <1>6, <1>8, <1>9

LEMMA TakesQueue ==
    ASSUME sipQ \in Seq(SipMessage), NEW c \in Calls, NEW taken, Takes(c, taken), NEW k \in Calls
    PROVE  /\ \A evs : Sent(k, evs)' => Sent(k, evs)
           /\ \A evs : Sent(k, evs) => Sent(k, evs)' \/ (k = c /\ taken \in evs)
           /\ taken \in SipEvents => Sent(c, {taken})
<1>1. CASE taken = "none" /\ sipQ' = sipQ
  BY <1>1 DEF Sent, SipEvents
<1>2. CASE sipQ # <<>> /\ sipQ' = Tail(sipQ) /\ c = Head(sipQ).call /\ taken = Head(sipQ).ev
  <2>1. Tail(sipQ) \in Seq(SipMessage) /\ Head(sipQ) \in SipMessage
    BY <1>2, HeadTailType
  <2>2. ASSUME NEW l, NEW evs
        PROVE  /\ Sent(l, evs) <=> Holds(sipQ, SipOf(l, evs))
               /\ Sent(l, evs)' <=> Holds(Tail(sipQ), SipOf(l, evs))
    <3>1. Sent(l, evs) <=> Holds(sipQ, SipOf(l, evs))
      BY SentIs DEF Sent
    <3>2. sipQ' \in Seq(SipMessage)
      BY <1>2, <2>1
    <3>3. Sent(l, evs)' <=> Holds(sipQ', SipOf(l, evs))
      BY <3>2, SentIs DEF Sent
    <3> QED
      BY <1>2, <3>1, <3>3
  <2>3. ASSUME NEW l, NEW evs
        PROVE  Sent(l, evs) <=> (l = c /\ taken \in evs) \/ Sent(l, evs)'
    <3>1. Holds(sipQ, SipOf(l, evs)) <=> Head(sipQ) \in SipOf(l, evs) \/ Holds(Tail(sipQ), SipOf(l, evs))
      BY <1>2, HoldsTail
    <3>2. Head(sipQ) \in SipOf(l, evs) <=> l = c /\ taken \in evs
      BY <1>2, <2>1 DEF SipOf, SipMessage
    <3> QED
      BY <2>2, <3>1, <3>2
  <2> QED
    BY <2>3
<1> QED
  BY <1>1, <1>2 DEF Takes

(* Of a call id that is not used there is no message. *)
LEMMA UnusedHasNone ==
    ASSUME Known, NEW c \in Calls, c \notin started, NEW evs
    PROVE  ~Queued(c, evs) /\ ~Sent(c, evs)
<1>1. ASSUME NEW i \in 1 .. Len(gsmQ), gsmQ[i] # NullMessage PROVE gsmQ[i].call # c
  BY <1>1 DEF Known, KnownMessage
<1>2. ASSUME NEW i \in 1 .. Len(sipQ) PROVE sipQ[i].call # c
  BY <1>2 DEF Known, KnownSipMessage
<1> QED
  BY <1>1, <1>2 DEF Queued, Sent

(* The SIP thread stays ahead of call control and the other way round. *)
LEMMA ReactDialog ==
    ASSUME DialogInv, NEW c \in Calls, NEW taken \in SipEvents \cup {"none"}, Reacts(c, taken),
           Takes(c, taken), UNCHANGED call, NEW k \in Calls
    PROVE  SipAhead(k)' /\ GsmAhead(k)' /\ Reinvited(k)'
<1>1. PICK n \in SipRecord, P \in SUBSET Events :
         React(c, P, n) /\ SipKept(c, sip[c], n, P, taken)
  BY DEF Reacts
<1>2. /\ gsmQ \in Seq(Message \cup {NullMessage}) /\ sipQ \in Seq(SipMessage)
      /\ sip \in [Calls -> SipRecord] /\ call'[k] = call[k]
  BY DEF DialogInv, Inv, Core, CoreType, SipType
<1>3. /\ \A evs : Queued(k, evs)' <=> Queued(k, evs) \/ (k = c /\ P \cap evs # {})
      /\ AckAhead(k) => AckAhead(k)'
      /\ k = c /\ P = {"CONNECTED_ACK"} /\ ~Queued(k, {"MEDIA"}) => AckAhead(k)'
  BY <1>1, <1>2, ReactQueue
<1>4. /\ \A evs : Sent(k, evs)' => Sent(k, evs)
      /\ \A evs : Sent(k, evs) => Sent(k, evs)' \/ (k = c /\ taken \in evs)
      /\ taken \in SipEvents => Sent(c, {taken})
  BY <1>2, TakesQueue
<1>5. SipAhead(k) /\ GsmAhead(k) /\ Reinvited(k)
  BY DEF DialogInv
<1>6. (k = c => sip'[k] = n) /\ (k # c => sip'[k] = sip[k])
  BY <1>1, <1>2 DEF React
<1>7. /\ Queued(k, {"RELEASE"})' <=> Queued(k, {"RELEASE"}) \/ (k = c /\ "RELEASE" \in P)
      /\ Queued(k, {"CONNECTED"})' <=> Queued(k, {"CONNECTED"}) \/ (k = c /\ "CONNECTED" \in P)
      /\ Queued(k, {"MEDIA"})' <=> Queued(k, {"MEDIA"}) \/ (k = c /\ "MEDIA" \in P)
      /\ Queued(k, {"CONNECTED_ACK", "MEDIA"})' <=>
            Queued(k, {"CONNECTED_ACK", "MEDIA"})
                \/ (k = c /\ ("CONNECTED_ACK" \in P \/ "MEDIA" \in P))
      /\ Queued(k, {"MEDIA"}) => Queued(k, {"CONNECTED_ACK", "MEDIA"})
  <2>1. \A e : P \cap {e} # {} <=> e \in P
    OBVIOUS
  <2>2. P \cap {"CONNECTED_ACK", "MEDIA"} # {} <=> "CONNECTED_ACK" \in P \/ "MEDIA" \in P
    OBVIOUS
  <2>3. Queued(k, {"MEDIA"}) => Queued(k, {"CONNECTED_ACK", "MEDIA"})
    BY DEF Queued
  <2> QED
    BY <1>3, <2>1, <2>2, <2>3
<1>8. /\ Sent(k, {"CONNECTED_ACK"})' => Sent(k, {"CONNECTED_ACK"})
      /\ Sent(k, {"CONNECTED"})' => Sent(k, {"CONNECTED"})
      /\ Sent(k, {"RELEASE"}) => Sent(k, {"RELEASE"})' \/ (k = c /\ taken = "RELEASE")
      /\ Sent(k, {"MEDIA_ACK", "RELEASE"}) =>
            Sent(k, {"MEDIA_ACK", "RELEASE"})' \/ (k = c /\ taken \in {"MEDIA_ACK", "RELEASE"})
      /\ taken = "CONNECTED" => Sent(c, {"CONNECTED"})
      /\ taken = "CONNECTED_ACK" => Sent(c, {"CONNECTED_ACK"})
  <2>1. "CONNECTED" \in SipEvents /\ "CONNECTED_ACK" \in SipEvents
    BY DEF SipEvents
  <2> QED
    BY <1>4, <2>1
<1>9. CASE k # c
  BY <1>3, <1>5, <1>6, <1>7, <1>8, <1>2, <1>9
     DEF SipAhead, GsmAhead, Alive, Agreed, Reinvited
<1>10. CASE k = c
  <2> DEFINE s == sip[c]
  <2>1. SipMoves(c, s, n, P, taken) /\ SipPosts(s, n, P, taken)
    BY <1>1 DEF SipKept
  <2>2. sip'[k] = n /\ sip[k] = s
    BY <1>6, <1>10
  <2>3. SipAhead(k)'
    BY <1>5, <1>7, <1>8, <1>10, <2>1, <2>2, SipApart DEF SipAhead, SipMoves, SipPosts
  <2>4. ASSUME Alive(k), n.st \notin Final PROVE Alive(k)'
    BY <1>2, <1>8, <1>10, <2>1, <2>4 DEF Alive, SipMoves
  <2>5. ASSUME n.st = "SENT_INVITE_CONNECTED", Sent(k, {"CONNECTED_ACK"})' PROVE Alive(k)'
    <3>1. s.st = "SENT_INVITE_CONNECTED" /\ Sent(k, {"CONNECTED_ACK"})
      BY <1>5, <1>8, <2>1, <2>2, <2>5, SipApart DEF SipAhead, SipMoves
    <3> QED
      BY <1>5, <2>2, <2>4, <2>5, <3>1, SipApart DEF GsmAhead
  <2>6. ASSUME Agreed(k)' PROVE call[k].st = "CONNECTING" \/ Sent(k, {"RELEASE"})'
    <3>1. n.st \in {"RECV_INVITE", "RECV_INVITE_CONNECTED"} /\ n.st \notin Final
      BY <2>2, <2>6, SipApart DEF Agreed
    <3>2. n.st = "RECV_INVITE" => Sent(k, {"CONNECTED"})
      BY <1>8, <2>2, <2>6 DEF Agreed
    <3>3. c \in started \/ ~Sent(k, {"CONNECTED"})
      BY <1>10, UnusedHasNone DEF DialogInv
    <3>4. Agreed(k)
      BY <1>8, <1>10, <2>1, <2>2, <3>1, <3>2, <3>3 DEF Agreed, SipMoves
    <3> QED
      BY <1>5, <1>8, <2>1, <3>1, <3>4 DEF GsmAhead, SipMoves
  <2>7. ASSUME n.st \in Established
        PROVE  Alive(k)' \/ (call[k].st = "CONNECTING" /\ AckAhead(k)')
    <3>1. n.st \notin Final
      BY <2>7, SipApart
    <3>2. CASE s.st \in Established
      BY <1>3, <1>5, <2>2, <2>4, <3>1, <3>2 DEF GsmAhead
    <3>3. CASE s.st = "SENT_INVITE_CONNECTED" /\ taken = "CONNECTED_ACK"
      BY <1>5, <1>8, <1>10, <2>2, <2>4, <3>1, <3>3 DEF GsmAhead
    <3>4. CASE s.st = "RECV_INVITE_CONNECTED" /\ "CONNECTED_ACK" \in P
      <4>1. ~Queued(k, {"MEDIA"})
        BY <1>5, <1>7, <2>2, <3>4, SipApart DEF SipAhead
      <4>2. AckAhead(k)'
        BY <1>3, <1>10, <2>1, <3>4, <4>1 DEF SipPosts
      <4>3. call[k].st = "CONNECTING" \/ Sent(k, {"RELEASE"})
        BY <1>5, <2>2, <3>4 DEF GsmAhead, Agreed
      <4> QED
        BY <2>4, <3>1, <4>2, <4>3 DEF Alive
    <3> QED
      BY <2>1, <2>7, <3>2, <3>3, <3>4 DEF SipMoves
  <2>8. GsmAhead(k)'
    BY <1>2, <2>2, <2>5, <2>6, <2>7 DEF GsmAhead
  <2>9. Reinvited(k)'
    BY <1>5, <1>7, <1>8, <1>10, <2>1, <2>2 DEF Reinvited, SipPosts
  <2> QED
    BY <2>3, <2>8, <2>9
<1> QED
  BY <1>9, <1>10

(* A waiting call keeps something to wake it. *)
LEMMA ReactWakes ==
    ASSUME Core, SipType, NEW c \in Calls, NEW taken \in SipEvents \cup {"none"},
           Reacts(c, taken), Takes(c, taken), UNCHANGED call, NEW k \in Calls, Wakes(k)
    PROVE  Wakes(k)'
<1>1. PICK n \in SipRecord, P \in SUBSET Events :
         React(c, P, n) /\ SipKept(c, sip[c], n, P, taken)
  BY DEF Reacts
<1>2. /\ gsmQ \in Seq(Message \cup {NullMessage}) /\ sipQ \in Seq(SipMessage)
      /\ sip \in [Calls -> SipRecord] /\ call'[k] = call[k]
  BY DEF Core, CoreType, SipType
<1>3. \A evs : Queued(k, evs)' <=> Queued(k, evs) \/ (k = c /\ P \cap evs # {})
  BY <1>1, <1>2, ReactQueue
<1>4. \A evs : Sent(k, evs) => Sent(k, evs)' \/ (k = c /\ taken \in evs)
  BY <1>2, TakesQueue
<1>5. (k = c => sip'[k] = n) /\ (k # c => sip'[k] = sip[k])
  BY <1>1, <1>2 DEF React
<1>6. SipPosts(sip[c], n, P, taken)
  BY <1>1 DEF SipKept
<1>7. /\ \A e : Queued(k, {e}) => Queued(k, {e})'
      /\ \A e : k = c /\ e \in P => Queued(k, {e})'
  <2>1. \A e \in P : P \cap {e} # {}
    OBVIOUS
  <2> QED
    BY <1>3, <2>1
<1>8. /\ Retry(k) => Retry(k)'
      /\ Ending(k) => Ending(k)'
      /\ k = c /\ "RELEASE" \in P => Ending(k)'
  BY <1>2, <1>7 DEF Retry, Ending
<1>9. ASSUME NEW f \in {"RESUME", "MEDIA"}, Asked(k, f) PROVE Asked(k, f)' \/ Ending(k)'
  <2>1. Sent(k, {f}) => Sent(k, {f})' \/ (k = c /\ taken = f)
    BY <1>4
  <2>2. k = c /\ taken = f => Asked(k, f)' \/ Ending(k)'
    BY <1>5, <1>6, <1>7, <1>8 DEF SipPosts, Asked
  <2>3. sip[k].st = "SENT_MIDCALL_INVITE" /\ sip[k].feature = f => Asked(k, f)' \/ Ending(k)'
    BY <1>5, <1>6, <1>7, <1>8 DEF SipPosts, Asked
  <2> QED
    BY <1>7, <1>9, <2>1, <2>2, <2>3 DEF Asked
<1>10. /\ ResumeWakes(k) => ResumeWakes(k)'
       /\ MediaWakes(k) => MediaWakes(k)'
  BY <1>8, <1>9 DEF ResumeWakes, MediaWakes
<1> QED
  BY <1>2, <1>8, <1>10 DEF Wakes


LEMMA ReactKnown ==
    ASSUME Core, SipType, Known, RecordsGood, NEW c \in Calls, NEW taken, Reacts(c, taken),
           Takes(c, taken), UNCHANGED <<call, dcsm>>, started \subseteq started', c \in started'
    PROVE  Known' /\ RecordsGood'
<1>1. PICK n \in SipRecord, P \in SUBSET Events : React(c, P, n)
  BY DEF Reacts
<1>2. PICK posts \in Seq(FromSip(c)) : gsmQ' = gsmQ \o posts
  BY <1>1 DEF React, Posts
<1>3. /\ KnownMessage \subseteq KnownMessage' /\ SetAside \subseteq SetAside'
      /\ KnownSipMessage \subseteq KnownSipMessage' /\ FromSip(c) \subseteq KnownMessage'
  BY DEF KnownMessage, SetAside, KnownSipMessage, FromSip
<1> DEFINE A == KnownMessage \cup {NullMessage}
           B == KnownMessage' \cup {NullMessage}
<1>4. gsmQ' \in Seq(B)
  <2>1. A \subseteq B /\ FromSip(c) \subseteq B
    BY <1>3
  <2>2. gsmQ \in Seq(A)
    BY DEF Known
  <2> HIDE DEF A, B
  <2>3. gsmQ \in Seq(B) /\ posts \in Seq(B)
    BY <2>1, <2>2, SeqMonotone
  <2> QED
    BY <1>2, <2>3, ConcatType
<1>5. dcsm'.q \in Seq(SetAside')
  BY <1>3, SeqMonotone DEF Known
<1>6. sipQ' \in Seq(KnownSipMessage')
  <2>1. sipQ' \in Seq(KnownSipMessage)
    BY HeadTailType DEF Known, Takes
  <2> QED
    BY <1>3, <2>1, SeqMonotone
<1>7. \A k \in Calls : k \notin started' => sip'[k].st = "IDLE"
  BY <1>1 DEF React, Known, SipType
<1>8. \A k \in Calls : call'[k].chain \/ call'[k].tmr = "on" \/ call'[k].errTmr => k \in started'
  BY DEF Known
<1>9. RecordsGood'
  BY DEF RecordsGood, RecordGood
<1> QED
  BY <1>4, <1>5, <1>6, <1>7, <1>8, <1>9 DEF Known

LEMMA SipThreadTakes ==
    ASSUME Core, Known, SipProcessCcEvent
    PROVE  \E c \in Calls, taken \in SipEvents :
              /\ Takes(c, taken) /\ c \in started /\ UNCHANGED <<call, dcsm, started>>
              /\ c = Head(sipQ).call /\ taken = Head(sipQ).ev
<1>1. sipQ # <<>> /\ sipQ' = Tail(sipQ) /\ UNCHANGED <<call, dcsm, started>>
  BY DEF SipProcessCcEvent
<1>2. Head(sipQ) \in KnownSipMessage
  BY <1>1, HeadTailType DEF Known
<1>3. Head(sipQ).call \in Calls /\ Head(sipQ).ev \in SipEvents /\ Head(sipQ).call \in started
  BY <1>2 DEF KnownSipMessage, SipMessage
<1> QED
  BY <1>1, <1>3 DEF Takes

(* A peer reaches a call that is in use, or starts one. *)
LEMMA PeerKnown ==
    ASSUME Known, SipType, NEW c \in Calls, Peer(c) \/ PeerResponse(c)
    PROVE  /\ UNCHANGED <<call, dcsm, sipQ>> /\ started \subseteq started' /\ c \in started'
           /\ Takes(c, "none")
<1>1. c \notin started => sip[c].st = "IDLE"
  BY DEF Known
<1>2. CASE PeerInvites(c)
  BY <1>2 DEF PeerInvites, Takes
<1>3. CASE ~PeerInvites(c)
  <2>1. UNCHANGED <<call, dcsm, sipQ, started>>
    BY <1>3 DEF Peer, PeerResponse, PeerRings, PeerAnswers, PeerRefuses, PeerDisconnects,
                PeerReinvites, PeerRejects, ReinviteTimesOut, PeerAcks, PeerAccepts, DisconnectDone
  <2>2. sip[c].st # "IDLE"
    BY <1>3 DEF Peer, PeerResponse, PeerRings, PeerAnswers, PeerRefuses, PeerDisconnects,
                PeerReinvites, PeerRejects, ReinviteTimesOut, PeerAcks, PeerAccepts, DisconnectDone,
                Established
  <2> QED
    BY <1>1, <2>1, <2>2 DEF Takes
<1> QED
  BY <1>2, <1>3

-----------------------------------------------------------------------------
(***************************************************************************)
(* The user and the timers only add a message; of the calls' records they  *)
(* change the timers at most.                                              *)
(***************************************************************************)
Posted == UiEvents \cup {"REQ_PEND_TIMER_EXP", "ERROR_ONHOOK_TIMER"}
PostStep(m) ==
    /\ gsmQ' = Append(gsmQ, m) /\ UNCHANGED <<sipQ, sip, dcsm>>
    /\ started' = started \cup {m.call}
    /\ call' \in [Calls -> CallRecord]
    /\ \A k \in Calls :
          /\ call'[k].st = call[k].st /\ call'[k].chain = call[k].chain
          /\ call'[k].sendRelease = call[k].sendRelease /\ call'[k].held = call[k].held
          /\ call'[k].misled = call[k].misled
          /\ call'[k].tmr \in {call[k].tmr, "fired"}
          /\ call'[k].errTmr => call[k].errTmr

LEMMA PostStepKnown ==
    ASSUME Core, Known, RecordsGood, NEW m \in Message, m.src = "UI" => m.ev \in UiEvents, PostStep(m)
    PROVE  Known' /\ RecordsGood'
<1>1. m \in KnownMessage' /\ KnownMessage \subseteq KnownMessage' /\ SetAside \subseteq SetAside'
      /\ KnownSipMessage \subseteq KnownSipMessage' /\ started \subseteq started'
  BY DEF KnownMessage, SetAside, KnownSipMessage, PostStep
<1> DEFINE A == KnownMessage \cup {NullMessage}
           B == KnownMessage' \cup {NullMessage}
<1>2. gsmQ' \in Seq(B)
  <2>1. A \subseteq B /\ m \in B
    BY <1>1
  <2>2. gsmQ \in Seq(A)
    BY DEF Known
  <2> HIDE DEF A, B
  <2>3. gsmQ \in Seq(B)
    BY <2>1, <2>2, SeqMonotone
  <2> QED
    BY <2>1, <2>3, AppendType DEF PostStep
<1>3. dcsm'.q \in Seq(SetAside') /\ sipQ' \in Seq(KnownSipMessage')
  BY <1>1, SeqMonotone DEF Known, PostStep
<1>4. /\ \A k \in Calls : call'[k].chain \/ call'[k].tmr = "on" \/ call'[k].errTmr => k \in started'
      /\ \A k \in Calls : k \notin started' => sip'[k].st = "IDLE"
  BY <1>1 DEF Known, PostStep
<1>5. RecordsGood'
  BY DEF RecordsGood, RecordGood, PostStep
<1> QED
  BY <1>2, <1>3, <1>4, <1>5 DEF Known

LEMMA PostStepQueues ==
    ASSUME Core, NEW m \in Message, m.ev \in Posted, PostStep(m), NEW k \in Calls
    PROVE  /\ \A evs : Queued(k, evs)' <=> Queued(k, evs) \/ (k = m.call /\ m.ev \in evs)
           /\ AckAhead(k) => AckAhead(k)'
           /\ \A evs : Sent(k, evs)' <=> Sent(k, evs)
<1>1. gsmQ \in Seq(Message \cup {NullMessage}) /\ <<m>> \in Seq(Message \cup {NullMessage})
  BY DEF Core, CoreType
<1>2. gsmQ' = gsmQ \o <<m>> /\ gsmQ' \in Seq(Message \cup {NullMessage})
  BY <1>1 DEF PostStep
<1>3. \A evs : Queued(k, evs)' <=> Queued(k, evs) \/ (k = m.call /\ m.ev \in evs)
  <2> TAKE evs
  <2>1. /\ Queued(k, evs) <=> Holds(gsmQ, Of(k, evs))
        /\ Queued(k, evs)' <=> Holds(gsmQ', Of(k, evs))
    BY <1>1, <1>2, QueuedHolds
  <2>2. Holds(gsmQ', Of(k, evs)) <=> Holds(gsmQ, Of(k, evs)) \/ Holds(<<m>>, Of(k, evs))
    BY <1>1, <1>2, HoldsConcat
  <2>3. Holds(<<m>>, Of(k, evs)) <=> m \in Of(k, evs)
    BY HoldsOne
  <2>4. m \in Of(k, evs) <=> k = m.call /\ m.ev \in evs
    BY DEF Of
  <2> QED
    BY <2>1, <2>2, <2>3, <2>4
<1>4. AckAhead(k) => AckAhead(k)'
  <2> DEFINE S == Of(k, {"CONNECTED_ACK"})
             T == Of(k, {"MEDIA"})
  <2>1. (AckAhead(k) => Before(gsmQ, S, T)) /\ (AckAhead(k)' <=> Before(gsmQ \o <<m>>, S, T))
    BY <1>2 DEF AckAhead, Of
  <2> HIDE DEF S, T
  <2> QED
    BY <1>1, <2>1, BeforeConcat
<1>5. \A evs : Sent(k, evs)' <=> Sent(k, evs)
  BY SentSame DEF PostStep
<1> QED
  BY <1>3, <1>4, <1>5

LEMMA PostStepDialog ==
    ASSUME DialogInv, NEW m \in Message, m.ev \in Posted, PostStep(m), NEW k \in Calls
    PROVE  SipAhead(k)' /\ GsmAhead(k)' /\ Reinvited(k)'
<1>1. Core /\ SipAhead(k) /\ GsmAhead(k) /\ Reinvited(k)
  BY DEF DialogInv, Inv
<1>2. /\ \A evs : Queued(k, evs)' <=> Queued(k, evs) \/ (k = m.call /\ m.ev \in evs)
      /\ AckAhead(k) => AckAhead(k)'
      /\ \A evs : Sent(k, evs)' <=> Sent(k, evs)
  BY <1>1, PostStepQueues
<1>3. m.ev \notin {"RELEASE", "CONNECTED", "CONNECTED_ACK", "MEDIA"}
  BY DEF Posted, UiEvents
<1>4. /\ Queued(k, {"RELEASE"})' <=> Queued(k, {"RELEASE"})
      /\ Queued(k, {"CONNECTED"})' <=> Queued(k, {"CONNECTED"})
      /\ Queued(k, {"MEDIA"})' <=> Queued(k, {"MEDIA"})
      /\ Queued(k, {"CONNECTED_ACK", "MEDIA"})' <=> Queued(k, {"CONNECTED_ACK", "MEDIA"})
  BY <1>2, <1>3
<1>5. /\ Sent(k, {"CONNECTED_ACK"})' <=> Sent(k, {"CONNECTED_ACK"})
      /\ Sent(k, {"CONNECTED"})' <=> Sent(k, {"CONNECTED"})
      /\ Sent(k, {"RELEASE"})' <=> Sent(k, {"RELEASE"})
      /\ Sent(k, {"MEDIA_ACK", "RELEASE"})' <=> Sent(k, {"MEDIA_ACK", "RELEASE"})
  BY <1>2
<1>6. call'[k].st = call[k].st /\ sip' = sip
  BY DEF PostStep
<1> QED
  BY <1>1, <1>2, <1>4, <1>5, <1>6 DEF SipAhead, GsmAhead, Alive, Agreed, Reinvited

(* The requests stay queued; the timer that expires leaves its message. *)
LEMMA PostStepWakes ==
    ASSUME Core, NEW m \in Message, m.ev \in Posted, PostStep(m), NEW k \in Calls, Wakes(k),
           \/ call'[k].tmr = call[k].tmr
           \/ m.call = k /\ m.ev = "REQ_PEND_TIMER_EXP"
    PROVE  Wakes(k)'
<1>1. /\ \A evs : Queued(k, evs)' <=> Queued(k, evs) \/ (k = m.call /\ m.ev \in evs)
      /\ \A evs : Sent(k, evs)' <=> Sent(k, evs)
  BY PostStepQueues
<1>2. /\ call'[k].st = call[k].st /\ call'[k].held = call[k].held
      /\ call'[k].misled = call[k].misled /\ sip' = sip
  BY DEF PostStep
<1>3. /\ Retry(k) => Retry(k)'
      /\ Ending(k) => Ending(k)'
      /\ Asked(k, "RESUME") => Asked(k, "RESUME")'
      /\ Asked(k, "MEDIA") => Asked(k, "MEDIA")'
  BY <1>1, <1>2 DEF Retry, Ending, Asked
<1> QED
  BY <1>2, <1>3 DEF Wakes, ResumeWakes, MediaWakes


LEMMA UiPosts ==
    ASSUME Core, NEW c \in Calls, UiRequest(c)
    PROVE  \E m \in Message : /\ PostStep(m) /\ m.ev \in UiEvents /\ m.ev \in Posted
                              /\ UNCHANGED call
<1>1. PICK ev \in Ui[c] : /\ gsmQ' = Append(gsmQ, Msg(ev, c, "UI", "ok"))
                          /\ started' = started \cup {c}
                          /\ UNCHANGED <<sipQ, dcsm, call, sip>>
  BY DEF UiRequest
<1>2. ev \in UiEvents /\ ev \in Events
  BY CallsAssumption DEF Events
<1> DEFINE m == Msg(ev, c, "UI", "ok")
<1>3. m \in Message /\ m.ev = ev /\ m.call = c
  BY <1>2, MsgType DEF Causes, Msg
<1>4. call' \in [Calls -> CallRecord]
  BY <1>1 DEF Core, CoreType
<1> HIDE DEF m
<1>5. PostStep(m)
  BY <1>1, <1>3, <1>4 DEF PostStep, m
<1> QED
  BY <1>1, <1>2, <1>3, <1>5 DEF Posted

LEMMA TimerPosts ==
    ASSUME Core, Known, NEW c \in Calls, NEW ev \in {"REQ_PEND_TIMER_EXP", "ERROR_ONHOOK_TIMER"},
           call[c].tmr = "on" \/ call[c].errTmr,
           gsmQ' = Append(gsmQ, Msg(ev, c, "GSM", "ok")),
           UNCHANGED <<sipQ, sip, dcsm, started>>,
           NEW t \in {call[c].tmr, "fired"}, NEW e \in {call[c].errTmr, FALSE},
           call' = [call EXCEPT ![c] = [call[c] EXCEPT !.tmr = t, !.errTmr = e]]
    PROVE  \E m \in Message : /\ PostStep(m) /\ m.src = "GSM" /\ m.call = c /\ m.ev = ev
                              /\ m.ev \in Posted
<1> DEFINE m == Msg(ev, c, "GSM", "ok")
<1>1. m \in Message /\ m.ev = ev /\ m.call = c /\ m.src = "GSM"
  BY MsgType DEF Events, Causes, Msg
<1>2. c \in started
  BY DEF Known
<1>3. call \in [Calls -> CallRecord] /\ call[c] \in CallRecord
  BY DEF Core, CoreType
<1>4. [call[c] EXCEPT !.tmr = t, !.errTmr = e] \in CallRecord
  BY <1>3 DEF CallRecord
<1>5. /\ call' \in [Calls -> CallRecord]
      /\ \A k \in Calls :
            /\ call'[k].st = call[k].st /\ call'[k].chain = call[k].chain
            /\ call'[k].sendRelease = call[k].sendRelease /\ call'[k].held = call[k].held
            /\ call'[k].misled = call[k].misled
            /\ call'[k].tmr \in {call[k].tmr, "fired"}
            /\ call'[k].errTmr => call[k].errTmr
  BY <1>3, <1>4 DEF CallRecord
<1>6. PostStep(m)
  BY <1>1, <1>2, <1>5 DEF PostStep
<1> QED
  BY <1>1, <1>6 DEF Posted

(* A step that touches neither the queues nor a call's state.  What a call *)
(* has to wake it does not rest on a timer that has fired.                 *)
LEMMA QuietDialog ==
    ASSUME DialogInv, UNCHANGED <<gsmQ, sipQ, dcsm, sip, started>>,
           \A k \in Calls :
               /\ call'[k].st = call[k].st /\ call'[k].chain = call[k].chain
               /\ call'[k].sendRelease = call[k].sendRelease /\ call'[k].held = call[k].held
               /\ call'[k].misled = call[k].misled /\ call'[k].errTmr = call[k].errTmr
               /\ call'[k].tmr = call[k].tmr \/ (call[k].tmr = "fired" /\ call'[k].tmr = "off")
    PROVE  /\ Known' /\ RecordsGood'
           /\ \A k \in Calls : SipAhead(k)' /\ GsmAhead(k)' /\ Reinvited(k)'
           /\ \A k \in Calls : Wakes(k) => Wakes(k)'
<1>1. UNCHANGED <<KnownMessage, SetAside, KnownSipMessage>>
  BY DEF KnownMessage, SetAside, KnownSipMessage
<1>2. Known /\ RecordsGood /\ \A k \in Calls : SipAhead(k) /\ GsmAhead(k) /\ Reinvited(k)
  BY DEF DialogInv
<1>3. Known'
  BY <1>1, <1>2 DEF Known
<1>4. RecordsGood'
  BY <1>2 DEF RecordsGood, RecordGood
<1>5. \A k, evs : (Queued(k, evs)' <=> Queued(k, evs)) /\ (Sent(k, evs)' <=> Sent(k, evs))
  BY DEF Queued, Sent
<1>6. \A k : AckAhead(k)' <=> AckAhead(k)
  BY DEF AckAhead, Of
<1>7. ASSUME NEW k \in Calls PROVE SipAhead(k)' /\ GsmAhead(k)' /\ Reinvited(k)'
  BY <1>2, <1>5, <1>6 DEF SipAhead, GsmAhead, Alive, Agreed, Reinvited
<1>8. ASSUME NEW k \in Calls, Wakes(k) PROVE Wakes(k)'
  <2>1. Retry(k) => Retry(k)'
    BY <1>5 DEF Retry
  <2>2. (Ending(k) => Ending(k)') /\ \A f : Asked(k, f) => Asked(k, f)'
    BY <1>5 DEF Ending, Asked
  <2> QED
    BY <1>8, <2>1, <2>2 DEF Wakes, ResumeWakes, MediaWakes
<1> QED
  BY <1>3, <1>4, <1>7, <1>8

LEMMA TimerDialog ==
    ASSUME DialogInv, NEW c \in Calls, TimerService(c)
    PROVE  /\ Known' /\ RecordsGood'
           /\ \A k \in Calls : SipAhead(k)' /\ GsmAhead(k)' /\ Reinvited(k)'
           /\ \A k \in Calls : Wakes(k) => Wakes(k)'
<1>1. Core /\ Known /\ RecordsGood /\ call \in [Calls -> CallRecord] /\ call[c] \in CallRecord
  BY DEF DialogInv, Inv, Core, CoreType
<1>2. CASE ReqPendingTimerExpires(c)
  <2>1. call' = [call EXCEPT ![c].tmr = "fired"]
    BY <1>2 DEF ReqPendingTimerExpires
  <2>2. call' = [call EXCEPT ![c] = [call[c] EXCEPT !.tmr = "fired", !.errTmr = call[c].errTmr]]
    BY <1>1, <2>1 DEF CallRecord
  <2>3. PICK m \in Message : /\ PostStep(m) /\ m.src = "GSM" /\ m.call = c
                             /\ m.ev = "REQ_PEND_TIMER_EXP" /\ m.ev \in Posted
    BY <1>1, <1>2, <2>2, TimerPosts DEF ReqPendingTimerExpires
  <2>4. Known' /\ RecordsGood'
    BY <1>1, <2>3, PostStepKnown
  <2>5. \A k \in Calls : SipAhead(k)' /\ GsmAhead(k)' /\ Reinvited(k)'
    BY <2>3, PostStepDialog
  <2>6. \A k \in Calls : k # c => call'[k].tmr = call[k].tmr
    BY <1>1, <2>1
  <2>7. \A k \in Calls : Wakes(k) => Wakes(k)'
    BY <1>1, <2>3, <2>6, PostStepWakes
  <2> QED
    BY <2>4, <2>5, <2>7
<1>3. CASE TimerDeactivated(c)
  <2>1. /\ UNCHANGED <<gsmQ, sipQ, dcsm, sip, started>> /\ call[c].tmr = "fired"
        /\ call' = [call EXCEPT ![c].tmr = "off"]
    BY <1>3 DEF TimerDeactivated
  <2>2. \A k \in Calls :
           /\ call'[k].st = call[k].st /\ call'[k].chain = call[k].chain
           /\ call'[k].sendRelease = call[k].sendRelease /\ call'[k].held = call[k].held
           /\ call'[k].misled = call[k].misled /\ call'[k].errTmr = call[k].errTmr
           /\ call'[k].tmr = call[k].tmr \/ (call[k].tmr = "fired" /\ call'[k].tmr = "off")
    BY <1>1, <2>1 DEF CallRecord
  <2> QED
    BY <2>1, <2>2, QuietDialog
<1>4. CASE ErrorOnhookTimerExpires(c)
  <2>1. call' = [call EXCEPT ![c] = [call[c] EXCEPT !.tmr = call[c].tmr, !.errTmr = FALSE]]
    BY <1>1, <1>4 DEF ErrorOnhookTimerExpires, CallRecord
  <2>2. PICK m \in Message : /\ PostStep(m) /\ m.src = "GSM" /\ m.ev \in Posted
    BY <1>1, <1>4, <2>1, TimerPosts DEF ErrorOnhookTimerExpires
  <2>3. \A k \in Calls : call'[k].tmr = call[k].tmr
    BY <1>1, <2>1 DEF CallRecord
  <2>4. Known' /\ RecordsGood'
    BY <1>1, <2>2, PostStepKnown
  <2> QED
    BY <1>1, <2>2, <2>3, <2>4, PostStepDialog, PostStepWakes
<1> QED
  BY <1>2, <1>3, <1>4 DEF TimerService


-----------------------------------------------------------------------------
(***************************************************************************)
(* The invariant holds: initially, and after every step.                   *)
(***************************************************************************)
LEMMA DialogInit == Init => DialogInv /\ \A c \in Calls : Wakes(c)
<1> SUFFICES ASSUME Init PROVE DialogInv /\ \A c \in Calls : Wakes(c)
  OBVIOUS
<1>1. Inv /\ Core /\ SipType
  BY InvInit DEF Inv
<1>2. /\ gsmQ = <<>> /\ sipQ = <<>> /\ dcsm = DcsmInit
      /\ call = [c \in Calls |-> IF Start[c] = "new" THEN NoCall ELSE Answered(Start[c] = "held")]
      /\ sip = [c \in Calls |-> IF Start[c] = "new" THEN NoDialog
                                ELSE [NoDialog EXCEPT !.st = "ACTIVE",
                                      !.peer = IF Start[c] = "held" THEN "hold" ELSE "active"]]
      /\ started = {c \in Calls : Start[c] # "new"}
  BY DEF Init
<1>3. ASSUME NEW c \in Calls
      PROVE  \/ call[c] = NoCall /\ sip[c] = NoDialog /\ c \notin started
             \/ /\ \E held \in BOOLEAN : call[c] = Answered(held)
                /\ sip[c].st = "ACTIVE" /\ c \in started
  <2>1. CASE Start[c] = "new"
    BY <1>2, <2>1
  <2>2. CASE Start[c] # "new"
    <3>1. call[c] = Answered(Start[c] = "held") /\ c \in started
      BY <1>2, <2>2
    <3>2. sip[c].st = "ACTIVE"
      BY <1>2, <2>2 DEF NoDialog
    <3> QED
      BY <3>1, <3>2
  <2> QED
    BY <2>1, <2>2
<1>4. \A c, evs : ~Queued(c, evs) /\ ~Sent(c, evs)
  <2>1. Len(gsmQ) = 0 /\ Len(sipQ) = 0
    BY <1>2
  <2>2. \A i : i \notin 1 .. 0
    OBVIOUS
  <2> QED
    BY <2>1, <2>2, Zenon DEF Queued, Sent
<1>5. ASSUME NEW c \in Calls, call[c] = NoCall, sip[c] = NoDialog, c \notin started
      PROVE  /\ RecordGood(call[c]) /\ ~call[c].chain /\ call[c].tmr = "off" /\ ~call[c].errTmr
             /\ sip[c].st = "IDLE"
             /\ SipAhead(c) /\ GsmAhead(c) /\ Reinvited(c) /\ Wakes(c)
  BY <1>4, <1>5 DEF NoCall, NoDialog, RecordGood, SipAhead, GsmAhead, Agreed, Established, Reinvited,
                    Wakes, RetryStates
<1>6. ASSUME NEW c \in Calls, NEW held \in BOOLEAN, call[c] = Answered(held), sip[c].st = "ACTIVE"
      PROVE  RecordGood(call[c]) /\ SipAhead(c) /\ GsmAhead(c) /\ Reinvited(c) /\ Wakes(c)
  <2>1. /\ call[c].st = IF held THEN "HOLDING" ELSE "CONNECTED"
        /\ call[c].sendRelease /\ call[c].held = held /\ ~call[c].misled
    BY <1>6 DEF Answered, NoCall
  <2>2. RecordGood(call[c])
    BY <2>1 DEF RecordGood, UpToConnecting, ConnectedStates, Dialing
  <2>3. Alive(c)
    BY <2>1 DEF Alive, Talking, ConnectedStates
  <2> QED
    BY <1>4, <1>6, <2>1, <2>2, <2>3 DEF SipAhead, GsmAhead, Agreed, Established, Reinvited, Wakes,
                                        RetryStates
<1>7. Known
  <2>1. dcsm.q \in Seq(SetAside)
    BY <1>2, EmptyType DEF DcsmInit
  <2>2. \A c \in Calls : c \notin started => /\ sip[c].st = "IDLE" /\ ~call[c].chain
                                             /\ call[c].tmr = "off" /\ ~call[c].errTmr
    BY <1>3, <1>5
  <2> QED
    BY <1>2, <2>1, <2>2, EmptyType DEF Known
<1> QED
  BY <1>1, <1>3, <1>5, <1>6, <1>7 DEF DialogInv, RecordsGood

LEMMA DialogStep ==
    ASSUME DialogInv, [Next]_vars
    PROVE  /\ DialogInv'
           /\ \A k \in Calls : Wakes(k) => Wakes(k)'
<1>1. /\ Inv' /\ Inv /\ Core /\ SipType /\ Known /\ RecordsGood
      /\ gsmQ \in Seq(Message \cup {NullMessage})
  BY InvStep DEF DialogInv, Inv, Core, CoreType
<1>2. SUFFICES /\ Known' /\ RecordsGood'
               /\ \A k \in Calls : SipAhead(k)' /\ GsmAhead(k)' /\ Reinvited(k)'
               /\ \A k \in Calls : Wakes(k) => Wakes(k)'
  BY <1>1 DEF DialogInv
<1>3. CASE GsmThread
  BY <1>3, GsmThreadDialog
<1>4. CASE SipProcessCcEvent
  <2>1. PICK c \in Calls, taken \in SipEvents :
           /\ Takes(c, taken) /\ c \in started /\ UNCHANGED <<call, dcsm, started>>
           /\ c = Head(sipQ).call /\ taken = Head(sipQ).ev
    BY <1>1, <1>4, SipThreadTakes
  <2>2. Reacts(c, taken)
    <3>1. \/ taken \in {"HOLD", "RESUME", "MEDIA"} /\ SipFeature(c, taken)
          \/ taken = "RELEASE" /\ SipRelease(c)
          \/ taken = "RELEASE_COMPLETE" /\ SipReleaseComplete(c)
          \/ SipAnswer(c, taken)
      BY <1>4, <2>1 DEF SipProcessCcEvent
    <3> QED
      BY <1>1, <3>1, SipThreadReacts
  <2>3. Known' /\ RecordsGood'
    BY <1>1, <2>1, <2>2, ReactKnown
  <2> QED
    BY <1>1, <2>1, <2>2, <2>3, ReactDialog, ReactWakes
<1>5. ASSUME NEW c \in Calls, UiRequest(c)
      PROVE  /\ Known' /\ RecordsGood'
             /\ \A k \in Calls : SipAhead(k)' /\ GsmAhead(k)' /\ Reinvited(k)'
             /\ \A k \in Calls : Wakes(k) => Wakes(k)'
  <2>1. PICK m \in Message : PostStep(m) /\ m.ev \in UiEvents /\ m.ev \in Posted /\ UNCHANGED call
    BY <1>1, <1>5, UiPosts
  <2>2. Known' /\ RecordsGood'
    BY <1>1, <2>1, PostStepKnown
  <2> QED
    BY <1>1, <2>1, <2>2, PostStepDialog, PostStepWakes
<1>6. ASSUME NEW c \in Calls, TimerService(c)
      PROVE  /\ Known' /\ RecordsGood'
             /\ \A k \in Calls : SipAhead(k)' /\ GsmAhead(k)' /\ Reinvited(k)'
             /\ \A k \in Calls : Wakes(k) => Wakes(k)'
  BY <1>6, TimerDialog
<1>7. ASSUME NEW c \in Calls, Peer(c) \/ PeerResponse(c)
      PROVE  /\ Known' /\ RecordsGood'
             /\ \A k \in Calls : SipAhead(k)' /\ GsmAhead(k)' /\ Reinvited(k)'
             /\ \A k \in Calls : Wakes(k) => Wakes(k)'
  <2>1. Reacts(c, "none")
    BY <1>1, <1>7, PeerReacts
  <2>2. /\ UNCHANGED <<call, dcsm, sipQ>> /\ started \subseteq started' /\ c \in started'
        /\ Takes(c, "none")
    BY <1>1, <1>7, PeerKnown
  <2>3. Known' /\ RecordsGood'
    BY <1>1, <2>1, <2>2, ReactKnown
  <2> QED
    BY <1>1, <2>1, <2>2, <2>3, ReactDialog, ReactWakes
<1>8. CASE UNCHANGED vars
  <2>1. UNCHANGED <<gsmQ, sipQ, dcsm, sip, started>> /\ call' = call
    BY <1>8 DEF vars
  <2> QED
    BY <2>1, QuietDialog
<1> QED
  BY <1>3, <1>4, <1>5, <1>6, <1>7, <1>8 DEF Next

LEMMA DialogHolds == Spec => []DialogInv
<1>1. DialogInv /\ [Next]_vars => DialogInv'
  BY DialogStep
<1> QED
  BY DialogInit, <1>1, PTL DEF Spec

(* For any number of calls, requests and faults, and in whatever order the *)
(* two threads take their messages, the SIP thread waits for the answer to *)
(* the peer's re-INVITE only while fsmdef still has the request to handle  *)
(* or has sent the answer or a release (ReinviteIsAnswered): fsmdef never  *)
(* drops the request as an event its state does not expect.                *)
THEOREM ReinviteAnswered == Spec => []ReinviteIsAnswered
<1>1. DialogInv => ReinviteIsAnswered
  BY DEF DialogInv, Reinvited, ReinviteIsAnswered
<1> QED
  BY <1>1, DialogHolds, PTL

(* For any number of calls, requests and faults, a call that fsmdef keeps  *)
(* in a pending state until its own re-INVITE has an outcome has something *)
(* to wake it (WakesUnlessMisled), with one exception: fsmdef_resume() or  *)
(* fsm_connected_media_pend_local_hold() left the retry to a request       *)
(* pending timer whose expiry had been posted and handled, because the     *)
(* timer service had not yet cleared its timerActive.                      *)
THEOREM WaitingWakes == Spec => []WakesUnlessMisled
<1> DEFINE W == DialogInv /\ \A c \in Calls : Wakes(c)
<1>1. Init => W
  BY DialogInit
<1>2. W /\ [Next]_vars => W'
  BY DialogStep
<1>3. W => WakesUnlessMisled
  BY DEF WakesUnlessMisled, CanWake, Wakes, ResumeWakes, MediaWakes, RetryStates
<1> HIDE DEF W
<1> QED
  BY <1>1, <1>2, <1>3, PTL DEF Spec

=============================================================================
