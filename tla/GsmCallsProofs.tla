--------------------------- MODULE GsmCallsProofs ---------------------------
(***************************************************************************)
(* Theorems about GsmCalls, for any number of calls, any requests of the   *)
(* users and any number of faults.                                         *)
(***************************************************************************)
EXTENDS GsmCalls, FiniteSetTheorems, TLAPS

-----------------------------------------------------------------------------
(* Facts about sequences and about the messages that handlers post. *)
LEMMA AppendType ==
    ASSUME NEW S, NEW s \in Seq(S), NEW e \in S PROVE Append(s, e) \in Seq(S)
OBVIOUS

LEMMA ConcatType ==
    ASSUME NEW S, NEW s \in Seq(S), NEW u \in Seq(S) PROVE s \o u \in Seq(S)
OBVIOUS

LEMMA HeadTailType ==
    ASSUME NEW S, NEW s \in Seq(S), s # <<>>
    PROVE  Head(s) \in S /\ Tail(s) \in Seq(S)
OBVIOUS

LEMMA EmptyType == ASSUME NEW S PROVE <<>> \in Seq(S)
OBVIOUS

LEMMA OneType == ASSUME NEW S, NEW e \in S PROVE <<e>> \in Seq(S)
OBVIOUS

LEMMA SeqMonotone ==
    ASSUME NEW S, NEW T, S \subseteq T, NEW s \in Seq(S) PROVE s \in Seq(T)
OBVIOUS

SipMessage == [ev : SipEvents, call : Calls]

(* Messages for call control and for the SIP thread. *)
LEMMA MsgType ==
    ASSUME NEW ev \in Events, NEW c \in Calls, NEW src \in {"UI", "GSM", "SIP"},
           NEW cause \in Causes
    PROVE  /\ Msg(ev, c, src, cause) \in Message
           /\ <<Msg(ev, c, src, cause)>> \in Seq(Message)
BY DEF Msg, Message

LEMMA ToSipType ==
    ASSUME NEW ev \in SipEvents, NEW c \in Calls
    PROVE  ToSip(ev, c) \in Seq(SipMessage)
BY DEF ToSip, SipMessage

(* SetToSeq of a finite set is a sequence of its elements. *)
LEMMA SetToSeqType ==
    ASSUME NEW S, IsFiniteSet(S) PROVE SetToSeq(S) \in Seq(S)
<1>1. Cardinality(S) \in Nat /\ ExistsBijection(1 .. Cardinality(S), S)
  BY FS_CardinalityType
<1>2. PICK f \in [1 .. Cardinality(S) -> S] : IsInjective(f)
  BY <1>1, Zenon DEF ExistsBijection, Bijection, Injection
<1>3. SetToSeq(S) \in [1 .. Cardinality(S) -> S]
  BY <1>2, Zenon DEF SetToSeq
<1> QED
  BY <1>1, <1>3

(* What fsmdef_wait_to_start_new_call() posts are messages. *)
LEMMA ClearTheWayType ==
    ASSUME NEW c \in Calls, NEW src \in {"UI", "GSM", "SIP"}, NEW again \in Message
    PROVE  ClearTheWay(c, src, again) \in Seq(Message)
<1> DEFINE E == {Msg("END_CALL", k, "GSM", "ok") : k \in ToEnd(c)}
           f == [k \in ToEnd(c) |-> Msg("END_CALL", k, "GSM", "ok")]
           h == IF Connected = {} THEN <<>>
                ELSE <<Msg("HOLD", CHOOSE k \in Connected : TRUE, src, "ok")>>
<1>1. IsFiniteSet(ToEnd(c))
  <2>1. ToEnd(c) \in SUBSET Calls
    BY DEF ToEnd, RingingOrReleasing
  <2> QED
    BY <2>1, CallsAssumption, FS_Subset
<1>2. IsFiniteSet(E)
  <2>1. f \in Surjection(ToEnd(c), E)
    BY Zenon DEF Surjection
  <2> QED
    BY <1>1, <2>1, FS_Surjection
<1>3. SetToSeq(E) \in Seq(Message)
  <2>1. E \subseteq Message
    BY MsgType DEF ToEnd, RingingOrReleasing, Events, UiEvents, Causes
  <2> HIDE DEF E
  <2>2. SetToSeq(E) \in Seq(E)
    BY <1>2, SetToSeqType
  <2> QED
    BY <2>1, <2>2, SeqMonotone
<1>4. h \in Seq(Message)
  <2>1. CASE Connected = {}
    BY <2>1, EmptyType
  <2>2. CASE Connected # {}
    <3>1. (CHOOSE k \in Connected : TRUE) \in Calls
      BY <2>2 DEF Connected
    <3>2. "HOLD" \in Events /\ "ok" \in Causes
      BY DEF Events, UiEvents, Causes
    <3> QED
      BY <2>2, <3>1, <3>2, MsgType
  <2> QED
    BY <2>1, <2>2
<1>5. ClearTheWay(c, src, again) = h \o SetToSeq(E) \o <<again>>
  BY DEF ClearTheWay
<1> HIDE DEF E, h
<1> QED
  BY <1>3, <1>4, <1>5, ConcatType, OneType, Zenon

-----------------------------------------------------------------------------
(***************************************************************************)
(* The inductive invariant.  GateMatchesCalls and OneCallUsesAudio are     *)
(* inductive once it is known that a call in any state but IDLE has a call *)
(* chain and that a call being dialled is an outgoing one: that is how     *)
(* fsmdef_wait_to_start_new_call() finds it.                               *)
(***************************************************************************)
DcsmRecord == [state : {"READY", "WAITING"}, ids : SUBSET Calls, q : Seq(Message)]

ChainOut == \A c \in Calls :
    /\ call[c].st # "IDLE" => call[c].chain
    /\ call[c].st \in Dialing => call[c].out

(* What the GSM thread's handlers read and write. *)
CoreType ==
    /\ call \in [Calls -> CallRecord]
    /\ dcsm \in DcsmRecord
    /\ gsmQ \in Seq(Message \cup {NullMessage})
    /\ sipQ \in Seq(SipMessage)

Core == CoreType /\ GateMatchesCalls /\ ChainOut /\ OneCallUsesAudio

(* The situation x in which a handler runs. *)
GoodX(x) ==
    /\ x.q \in Seq(Message \cup {NullMessage})
    /\ x.d \in DcsmRecord /\ x.d.ids = dcsm.ids /\ x.d.state = dcsm.state

(* When Stay() keeps the invariant: the call's state is the same. *)
StayGood(c, r) ==
    /\ r \in CallRecord
    /\ r.st = call[c].st
    /\ Pending(r.st, r.sendRelease) <=> Pending(call[c].st, call[c].sendRelease)
    /\ r.st # "IDLE" => r.chain
    /\ r.st \in Dialing => r.out

(* When ChangeState() does: only a call that nothing is in the way of gets *)
(* the audio path.                                                         *)
AudioStates == Dialing \cup {"CONNECTING"} \cup ConnectedStates
ChangeGood(c, r, s) ==
    /\ r \in CallRecord /\ s \in States
    /\ s # "IDLE" => r.chain
    /\ s \in Dialing => r.out
    /\ s = "RELEASING" /\ ~r.sendRelease => ~Pending(call[c].st, call[c].sendRelease)
    /\ s \in AudioStates => UsesAudio(c) \/ ~MustWait(c)

(* Stay() keeps the invariant. *)
LEMMA StayCore ==
    ASSUME Core, NEW x, GoodX(x), NEW c \in Calls, NEW r, StayGood(c, r),
           NEW posts \in Seq(Message), NEW sends \in Seq(SipMessage),
           Stay(x, c, r, posts, sends)
    PROVE  Core'
<1>1. call \in [Calls -> CallRecord] /\ call' = [call EXCEPT ![c] = r]
  BY DEF Core, CoreType, Stay
<1>2. r \in CallRecord
  BY DEF StayGood
<1>3. call' \in [Calls -> CallRecord]
  BY <1>1, <1>2
<1>4. /\ call'[c] = r
      /\ \A k \in Calls : k # c => call'[k] = call[k]
  BY <1>1
<1>5. dcsm' = x.d /\ dcsm' \in DcsmRecord /\ dcsm'.ids = dcsm.ids /\ dcsm'.state = dcsm.state
  BY DEF Stay, GoodX
<1>6. gsmQ' \in Seq(Message \cup {NullMessage})
  <2>1. posts \in Seq(Message \cup {NullMessage})
    BY SeqMonotone
  <2> QED
    BY <2>1, ConcatType, Zenon DEF Stay, GoodX
<1>7. sipQ' \in Seq(SipMessage)
  BY ConcatType, Zenon DEF Stay, Core, CoreType
<1>8. \A k \in Calls : call'[k].st = call[k].st
  BY <1>4 DEF StayGood
<1>9. GateMatchesCalls'
  <2>1. \A k \in Calls : Pending(call'[k].st, call'[k].sendRelease)
                            <=> Pending(call[k].st, call[k].sendRelease)
    BY <1>4 DEF StayGood
  <2> QED
    BY <1>5, <2>1 DEF Core, GateMatchesCalls
<1>10. ChainOut'
  BY <1>4 DEF StayGood, Core, ChainOut
<1>11. OneCallUsesAudio'
  BY <1>8 DEF Core, OneCallUsesAudio, UsesAudio
<1> QED
  BY <1>3, <1>5, <1>6, <1>7, <1>9, <1>10, <1>11 DEF Core, CoreType

(* If nothing is in the way of call c, no other call uses the audio path. *)
LEMMA NotInTheWay ==
    ASSUME Core, NEW c \in Calls, ~MustWait(c), NEW k \in Calls \ {c}
    PROVE  ~UsesAudio(k)
<1>1. call[k].st \notin ConnectedStates
  BY DEF MustWait, Connected
<1>2. call[k].st \in Dialing \cup {"CONNECTING"} => k \in RingingOrReleasing(c)
  BY DEF RingingOrReleasing, UpToConnecting, Core, ChainOut, Dialing
<1>3. call[k].st \notin Dialing
  BY <1>2 DEF MustWait, ToEnd, Core, ChainOut
<1>4. call[k].st # "CONNECTING"
  BY <1>2 DEF MustWait
<1> QED
  BY <1>1, <1>3, <1>4 DEF UsesAudio

(* fsm_change_state() keeps the invariant, dcsm_update_gsm_state() included. *)
LEMMA ChangeCore ==
    ASSUME Core, NEW x, GoodX(x), NEW c \in Calls, NEW r, NEW s, ChangeGood(c, r, s),
           NEW sends \in Seq(SipMessage),
           ChangeState(x, c, r, s, sends)
    PROVE  Core'
<1> DEFINE n == Moved(r, s)
<1>1. call \in [Calls -> CallRecord] /\ call' = [call EXCEPT ![c] = n]
  BY DEF Core, CoreType, ChangeState
<1>2. /\ n \in CallRecord /\ n.st = s /\ n.chain = r.chain /\ n.out = r.out
      /\ n.sendRelease = r.sendRelease
  BY DEF ChangeGood, CallRecord, Moved
<1> HIDE DEF n
<1>3. call' \in [Calls -> CallRecord]
  BY <1>1, <1>2
<1>4. /\ call'[c] = n
      /\ \A k \in Calls : k # c => call'[k] = call[k]
  BY <1>1
<1>5. dcsm' = UpdateGsmState(x.d, c, s, r.sendRelease)
  BY DEF ChangeState
<1>6. /\ x.d \in DcsmRecord /\ x.d.ids = dcsm.ids /\ x.d.state = dcsm.state
      /\ dcsm.ids \subseteq Calls
  BY DEF GoodX, DcsmRecord
<1>7. dcsm' \in DcsmRecord
  BY <1>5, <1>6 DEF UpdateGsmState, DcsmRecord
<1>8. gsmQ' \in Seq(Message \cup {NullMessage})
  <2>1. NullMessage \in Message \cup {NullMessage}
    OBVIOUS
  <2> QED
    BY <2>1, AppendType, Zenon DEF ChangeState, GoodX
<1>9. sipQ' \in Seq(SipMessage)
  BY ConcatType, Zenon DEF ChangeState, Core, CoreType
<1>10. GateMatchesCalls'
  <2> DEFINE P(k) == Pending(call[k].st, call[k].sendRelease)
             Q(k) == Pending(call'[k].st, call'[k].sendRelease)
  <2>1. /\ \A k \in Calls : k # c => (Q(k) <=> P(k))
        /\ Q(c) <=> Pending(s, r.sendRelease)
    BY <1>2, <1>4
  <2>2. /\ dcsm.ids = {k \in Calls : P(k)}
        /\ dcsm.state = "WAITING" <=> dcsm.ids # {}
    BY DEF Core, GateMatchesCalls
  <2>3. SUFFICES /\ dcsm'.ids = {k \in Calls : Q(k)}
                 /\ dcsm'.state = "WAITING" <=> dcsm'.ids # {}
    BY DEF GateMatchesCalls
  <2>4. s = "RELEASING" /\ ~r.sendRelease => ~P(c)
    BY DEF ChangeGood
  <2> HIDE DEF P, Q
  <2>5. CASE s = "RELEASING" /\ ~r.sendRelease
    <3>1. dcsm' = x.d
      BY <1>5, <2>5 DEF UpdateGsmState
    <3>2. ~Pending(s, r.sendRelease)
      BY <2>5 DEF Pending, PendingStates
    <3> QED
      BY <1>6, <2>1, <2>2, <2>4, <2>5, <3>1, <3>2
  <2>6. CASE Pending(s, r.sendRelease)
    <3>1. dcsm' = [x.d EXCEPT !.ids = @ \cup {c}, !.state = "WAITING"]
      BY <1>5, <2>6 DEF UpdateGsmState, Pending, PendingStates
    <3>2. dcsm'.ids = dcsm.ids \cup {c} /\ dcsm'.state = "WAITING"
      BY <1>6, <3>1 DEF DcsmRecord
    <3> QED
      BY <2>1, <2>2, <2>6, <3>2
  <2>7. CASE ~(s = "RELEASING" /\ ~r.sendRelease) /\ ~Pending(s, r.sendRelease)
    <3>1. dcsm' = [x.d EXCEPT !.ids = @ \ {c},
                              !.state = IF x.d.ids \ {c} = {} THEN "READY" ELSE @]
      BY <1>5, <2>7 DEF UpdateGsmState
    <3>2. /\ dcsm'.ids = dcsm.ids \ {c}
          /\ dcsm'.state = IF dcsm.ids \ {c} = {} THEN "READY" ELSE dcsm.state
      BY <1>6, <3>1 DEF DcsmRecord
    <3> QED
      BY <2>1, <2>2, <2>7, <3>2
  <2> QED
    BY <2>5, <2>6, <2>7
<1>11. ChainOut'
  BY <1>2, <1>4 DEF ChangeGood, Core, ChainOut
<1>12. OneCallUsesAudio'
  <2>1. \A k \in Calls \ {c} : UsesAudio(k)' <=> UsesAudio(k)
    BY <1>4 DEF UsesAudio
  <2>2. CASE s \in AudioStates
    <3>1. \A k \in Calls \ {c} : ~UsesAudio(k)
      BY <2>2, NotInTheWay DEF ChangeGood, Core, OneCallUsesAudio
    <3> QED
      BY <2>1, <3>1 DEF OneCallUsesAudio
  <2>3. CASE s \notin AudioStates
    <3>1. ~UsesAudio(c)'
      BY <1>2, <1>4, <2>3 DEF UsesAudio, AudioStates
    <3> QED
      BY <2>1, <3>1 DEF Core, OneCallUsesAudio
  <2> QED
    BY <2>2, <2>3
<1> QED
  BY <1>3, <1>7, <1>8, <1>9, <1>10, <1>11, <1>12 DEF Core, CoreType

-----------------------------------------------------------------------------
(* The ways in which handlers end. *)
(* What the history of a wait says is true or false. *)
LEMMA MisledType == \A x, c, r : Misled(x, c, r) \in BOOLEAN
BY DEF Misled

LEMMA NoCallType == NoCall \in CallRecord
BY DEF NoCall, CallRecord, States, UpToConnecting

(* So does the end of a call, ... *)
LEMMA FreeCore ==
    ASSUME Core, NEW x, GoodX(x), NEW c \in Calls, NEW sends \in Seq(SipMessage),
           Free(x, c, sends)
    PROVE  Core'
<1>1. ChangeGood(c, NoCall, "IDLE")
  BY NoCallType DEF ChangeGood, States, UpToConnecting, AudioStates, Dialing, ConnectedStates
<1> QED
  BY <1>1, ChangeCore DEF Free

(* ... and fsmdef_release(), provided that a pending call either waits for *)
(* the SIP stack's answer or is freed.                                     *)
LEMMA ReleaseCore ==
    ASSUME Core, NEW x, GoodX(x), NEW c \in Calls, NEW r \in CallRecord, r.chain,
           NEW sendRelease \in BOOLEAN,
           sendRelease => r.sendRelease \/ ~Pending(call[c].st, call[c].sendRelease),
           Release(x, c, r, sendRelease)
    PROVE  Core'
<1>1. /\ ToSip("RELEASE", c) \in Seq(SipMessage)
      /\ ToSip("RELEASE_COMPLETE", c) \in Seq(SipMessage)
  BY ToSipType DEF SipEvents
<1>2. CASE sendRelease
  <2>1. ChangeGood(c, r, "RELEASING")
    BY <1>2 DEF ChangeGood, States, AudioStates, Dialing, ConnectedStates
  <2>2. ChangeState(x, c, r, "RELEASING", ToSip("RELEASE", c))
    BY <1>2 DEF Release
  <2> QED
    BY <1>1, <2>1, <2>2, ChangeCore
<1>3. CASE ~sendRelease
  <2>1. PICK sends \in Seq(SipMessage) : Free(x, c, sends)
    BY <1>1, <1>3, EmptyType DEF Release
  <2> QED
    BY <2>1, FreeCore
<1> QED
  BY <1>2, <1>3

(* A change to HOLDING gives the audio path away. *)
LEMMA HoldingCore ==
    ASSUME Core, NEW x, GoodX(x), NEW c \in Calls, NEW r \in CallRecord, r.chain,
           NEW sends \in Seq(SipMessage), ChangeState(x, c, r, "HOLDING", sends)
    PROVE  Core'
<1>1. ChangeGood(c, r, "HOLDING")
  BY DEF ChangeGood, States, AudioStates, Dialing, ConnectedStates
<1> QED
  BY <1>1, ChangeCore

(* ... and so does one to HOLD_PENDING. *)
LEMMA HoldPendingCore ==
    ASSUME Core, NEW x, GoodX(x), NEW c \in Calls, NEW r \in CallRecord, r.chain,
           NEW sends \in Seq(SipMessage), ChangeState(x, c, r, "HOLD_PENDING", sends)
    PROVE  Core'
<1>1. ChangeGood(c, r, "HOLD_PENDING")
  BY DEF ChangeGood, States, AudioStates, Dialing, ConnectedStates
<1> QED
  BY <1>1, ChangeCore

(* fsm_hold_local(), fsm_hold_local_only() *)
LEMMA HoldLocalCore ==
    ASSUME Core, NEW x, GoodX(x), NEW c \in Calls, NEW r, StayGood(c, r), r.chain,
           NEW resend \in BOOLEAN, HoldLocal(x, c, r, resend)
    PROVE  Core'
<1>1. r \in CallRecord
  BY DEF StayGood
<1>2. CASE ~resend /\ r.held
  BY <1>2, StayCore, EmptyType DEF HoldLocal
<1>3. CASE ~(~resend /\ r.held)
  <2> DEFINE n == [r EXCEPT !.held = TRUE]
  <2>1. n \in CallRecord /\ n.chain
    BY <1>1 DEF CallRecord
  <2>2. ChangeState(x, c, n, "HOLDING", ToSip("HOLD", c))
    BY <1>3 DEF HoldLocal
  <2>3. ToSip("HOLD", c) \in Seq(SipMessage)
    BY ToSipType DEF SipEvents
  <2> HIDE DEF n
  <2> QED
    BY <2>1, <2>2, <2>3, HoldingCore
<1> QED
  BY <1>2, <1>3

LEMMA HoldLocalOnlyCore ==
    ASSUME Core, NEW x, GoodX(x), NEW c \in Calls, NEW r, StayGood(c, r), r.chain,
           HoldLocalOnly(x, c, r)
    PROVE  Core'
<1>1. r \in CallRecord
  BY DEF StayGood
<1>2. CASE r.held
  BY <1>2, StayCore, EmptyType DEF HoldLocalOnly
<1>3. CASE ~r.held
  <2> DEFINE n == [r EXCEPT !.held = TRUE]
  <2>1. n \in CallRecord /\ n.chain
    BY <1>1 DEF CallRecord
  <2>2. ChangeState(x, c, n, "HOLDING", <<>>)
    BY <1>3 DEF HoldLocalOnly
  <2> HIDE DEF n
  <2> QED
    BY <2>1, <2>2, EmptyType, HoldingCore
<1> QED
  BY <1>2, <1>3

(* fsmdef_transition_to_connected(), for a call that has the audio path. *)
LEMMA TransitionCore ==
    ASSUME Core, NEW x, GoodX(x), NEW c \in Calls, NEW r \in CallRecord, r.chain,
           UsesAudio(c), NEW sends \in Seq(SipMessage), TransitionToConnected(x, c, r, sends)
    PROVE  Core'
<1> DEFINE n == [r EXCEPT !.tmr = "off"]
<1>1. ChangeGood(c, n, "CONNECTED")
  BY DEF ChangeGood, CallRecord, States, ConnectedStates, Dialing
<1>2. ChangeState(x, c, n, "CONNECTED", sends)
  BY DEF TransitionToConnected
<1> HIDE DEF n
<1> QED
  BY <1>1, <1>2, ChangeCore

(* The call of a message, when a handler of the table takes it. *)
LEMMA InFacts ==
    ASSUME Core, NEW m, m.call \in Calls, NEW S, NEW evs, In(m, S, evs)
    PROVE  /\ call[m.call] \in CallRecord /\ call[m.call].chain
           /\ call[m.call].st \in S /\ call[m.call].st \in States
           /\ StayGood(m.call, call[m.call])
<1>1. call[m.call] \in CallRecord
  BY DEF Core, CoreType
<1>2. call[m.call].chain /\ call[m.call].st \in S
  BY DEF In
<1>3. call[m.call].st \in States
  BY <1>1 DEF CallRecord
<1>4. StayGood(m.call, call[m.call])
  BY <1>1 DEF StayGood, Core, ChainOut
<1> QED
  BY <1>1, <1>2, <1>3, <1>4

-----------------------------------------------------------------------------
(* The handlers before a call is answered. *)
LEMMA SetupHandlers ==
    ASSUME Core, NEW x, GoodX(x), NEW m \in Message,
           \/ IdleSetup(x, m) \/ IdleEndCall(x, m) \/ IdleOffhook(x, m) \/ Dialstring(x, m)
           \/ CollectingInfoEndCall(x, m) \/ Proceeding(x, m) \/ OutAlerting(x, m)
           \/ EvConnected(x, m) \/ CallSentRelease(x, m) \/ CallSentEndCall(x, m)
           \/ Answer(x, m) \/ ConnectedAck(x, m)
    PROVE  Core'
<1> DEFINE c == m.call
           r == call[c]
<1>1. c \in Calls /\ m.ev \in Events /\ m.src \in {"UI", "GSM", "SIP"}
  BY DEF Message
<1>2. r \in CallRecord
  BY <1>1 DEF Core, CoreType
<1>3. \A ev \in Events : /\ Msg(ev, c, "GSM", "ok") \in Message
                         /\ <<Msg(ev, c, "GSM", "ok")>> \in Seq(Message)
  BY <1>1, MsgType DEF Causes
<1>4. \A ev \in SipEvents : ToSip(ev, c) \in Seq(SipMessage)
  BY <1>1, ToSipType
<1>5. \A again \in Message : ClearTheWay(c, "GSM", again) \in Seq(Message)
  BY <1>1, ClearTheWayType
<1>6. <<>> \in Seq(SipMessage) /\ <<>> \in Seq(Message)
  BY EmptyType
<1>7. \A S, evs : In(m, S, evs) =>
         /\ r.chain /\ r.st \in S /\ r.st \in States /\ StayGood(c, r)
  BY <1>1, InFacts
<1> HIDE DEF c, r
<1>8. CASE IdleSetup(x, m)
  <2> DEFINE n == [NoCall EXCEPT !.chain = TRUE]
             p == [n EXCEPT !.sendRelease = TRUE, !.sendComplete = TRUE]
  <2>1. n \in CallRecord /\ n.st = "IDLE" /\ n.chain /\ p \in CallRecord /\ p.chain
    BY NoCallType DEF NoCall, CallRecord
  <2>2. r.st = "IDLE"
    BY <1>1, <1>8 DEF IdleSetup, Core, ChainOut, c, r
  <2>3. CASE m.cause = "busy"
    <3>1. Stay(x, c, n, <<Msg("END_CALL", c, "GSM", "ok")>>, <<>>)
      BY <1>8, <2>3 DEF IdleSetup, c
    <3>2. StayGood(c, n)
      BY <2>1, <2>2 DEF StayGood, Pending, PendingStates, Dialing, r
    <3>3. <<Msg("END_CALL", c, "GSM", "ok")>> \in Seq(Message)
      BY <1>3 DEF Events, UiEvents
    <3> HIDE DEF n, p
    <3> QED
      BY <1>1, <1>6, <3>1, <3>2, <3>3, StayCore
  <2>4. CASE m.cause # "busy"
    <3>1. ChangeState(x, c, p, "INCOMING_ALERTING", <<>>)
      BY <1>8, <2>4 DEF IdleSetup, c
    <3>2. ChangeGood(c, p, "INCOMING_ALERTING")
      BY <2>1 DEF ChangeGood, States, UpToConnecting, AudioStates, Dialing, ConnectedStates
    <3> HIDE DEF n, p
    <3> QED
      BY <1>1, <1>6, <3>1, <3>2, ChangeCore
  <2> QED
    BY <2>3, <2>4
<1>9. CASE IdleEndCall(x, m)
  <2> DEFINE n == [r EXCEPT !.sendRelease = ~r.out]
  <2>1. Release(x, c, n, n.sendRelease) /\ r.chain
    BY <1>7, <1>9 DEF IdleEndCall, c, r
  <2>2. n \in CallRecord /\ n.chain /\ n.sendRelease \in BOOLEAN
    BY <1>2, <2>1 DEF CallRecord
  <2> HIDE DEF n
  <2> QED
    BY <1>1, <2>1, <2>2, ReleaseCore
<1>10. CASE IdleOffhook(x, m)
  <2> DEFINE n == [NoCall EXCEPT !.chain = TRUE, !.out = TRUE]
             p == [n EXCEPT !.sendRelease = TRUE]
  <2>1. /\ n \in CallRecord /\ n.st = "IDLE" /\ n.chain /\ n.out
        /\ p \in CallRecord /\ p.chain /\ p.out /\ p.sendRelease
    BY NoCallType DEF NoCall, CallRecord
  <2>2. r.st = "IDLE"
    BY <1>10 DEF IdleOffhook, c, r
  <2>3. CASE MustWait(c)
    <3>1. Stay(x, c, n, ClearTheWay(c, "GSM", Msg(m.ev, c, "GSM", "ok")), <<>>)
      BY <1>10, <2>3 DEF IdleOffhook, c
    <3>2. StayGood(c, n)
      BY <2>1, <2>2 DEF StayGood, Pending, PendingStates, Dialing, r
    <3>3. ClearTheWay(c, "GSM", Msg(m.ev, c, "GSM", "ok")) \in Seq(Message)
      BY <1>1, <1>3, <1>5
    <3> HIDE DEF n, p
    <3> QED
      BY <1>1, <1>6, <3>1, <3>2, <3>3, StayCore
  <2>4. CASE ~MustWait(c) /\ m.ev = "OFFHOOK"
    <3>1. ChangeState(x, c, n, "COLLECT_INFO", <<>>)
      BY <1>10, <2>4 DEF IdleOffhook, c
    <3>2. ChangeGood(c, n, "COLLECT_INFO")
      BY <2>1, <2>4 DEF ChangeGood, States, UpToConnecting, Dialing
    <3> HIDE DEF n, p
    <3> QED
      BY <1>1, <1>6, <3>1, <3>2, ChangeCore
  <2>5. CASE ~MustWait(c) /\ m.ev # "OFFHOOK"
    <3>1. ChangeState(x, c, p, "CALL_SENT", ToSip("SETUP", c))
      BY <1>10, <2>5 DEF IdleOffhook, c
    <3>2. ChangeGood(c, p, "CALL_SENT")
      BY <2>1, <2>5 DEF ChangeGood, States, UpToConnecting, Dialing
    <3>3. ToSip("SETUP", c) \in Seq(SipMessage)
      BY <1>4 DEF SipEvents
    <3> HIDE DEF n, p
    <3> QED
      BY <1>1, <3>1, <3>2, <3>3, ChangeCore
  <2> QED
    BY <2>3, <2>4, <2>5
<1>11. CASE Dialstring(x, m)
  <2> DEFINE n == [r EXCEPT !.sendRelease = TRUE]
  <2>1. /\ ChangeState(x, c, n, "CALL_SENT", ToSip("SETUP", c))
        /\ In(m, {"COLLECT_INFO"}, {"DIALSTRING"})
    BY <1>11 DEF Dialstring, c, r
  <2>2. r.chain /\ r.st = "COLLECT_INFO"
    BY <1>7, <2>1
  <2>3. r.out /\ UsesAudio(c)
    BY <1>1, <2>2 DEF Core, ChainOut, Dialing, UsesAudio, r
  <2>4. ChangeGood(c, n, "CALL_SENT")
    BY <1>2, <2>2, <2>3 DEF ChangeGood, CallRecord, States, UpToConnecting, Dialing
  <2>5. ToSip("SETUP", c) \in Seq(SipMessage)
    BY <1>4 DEF SipEvents
  <2> HIDE DEF n
  <2> QED
    BY <1>1, <2>1, <2>4, <2>5, ChangeCore
<1>12. CASE CollectingInfoEndCall(x, m)
  <2>1. Release(x, c, r, FALSE) /\ r.chain
    BY <1>7, <1>12 DEF CollectingInfoEndCall, c, r
  <2> QED
    BY <1>1, <1>2, <2>1, ReleaseCore
<1>13. ASSUME r.chain, r.st \in CallSent PROVE r.out /\ UsesAudio(c)
  BY <1>1, <1>13 DEF CallSent, Core, ChainOut, UsesAudio, r
<1>14. CASE Proceeding(x, m)
  <2>1. /\ ChangeState(x, c, r, "OUTGOING_PROCEEDING", <<>>)
        /\ In(m, {"CALL_SENT"}, {"PROCEEDING"})
    BY <1>14 DEF Proceeding, c, r
  <2>2. r.chain /\ r.st \in CallSent
    BY <1>7, <2>1 DEF CallSent, Dialing
  <2>3. ChangeGood(c, r, "OUTGOING_PROCEEDING")
    BY <1>2, <1>13, <2>2 DEF ChangeGood, States, UpToConnecting, Dialing
  <2> QED
    BY <1>1, <1>6, <2>1, <2>3, ChangeCore
<1>15. CASE OutAlerting(x, m)
  <2>1. /\ ChangeState(x, c, r, "OUTGOING_ALERTING", <<>>)
        /\ In(m, CallSent, {"ALERTING"})
    BY <1>15 DEF OutAlerting, c, r
  <2>2. r.chain /\ r.st \in CallSent
    BY <1>7, <2>1
  <2>3. ChangeGood(c, r, "OUTGOING_ALERTING")
    BY <1>2, <1>13, <2>2 DEF ChangeGood, States, UpToConnecting, Dialing
  <2> QED
    BY <1>1, <1>6, <2>1, <2>3, ChangeCore
<1>16. CASE EvConnected(x, m)
  <2>1. r.chain /\ r.st \in CallSent
    BY <1>7, <1>16 DEF EvConnected
  <2>2. CASE m.cause = "error"
    <3>1. Release(x, c, r, TRUE)
      BY <1>16, <2>2 DEF EvConnected, c, r
    <3>2. ~Pending(call[c].st, call[c].sendRelease)
      BY <2>1 DEF Pending, PendingStates, CallSent, Dialing, r
    <3> QED
      BY <1>1, <1>2, <2>1, <3>1, <3>2, ReleaseCore
  <2>3. CASE m.cause # "error"
    <3>1. TransitionToConnected(x, c, r, ToSip("CONNECTED_ACK", c))
      BY <1>16, <2>3 DEF EvConnected, c, r
    <3>2. ToSip("CONNECTED_ACK", c) \in Seq(SipMessage)
      BY <1>4 DEF SipEvents
    <3> QED
      BY <1>1, <1>2, <1>13, <2>1, <3>1, <3>2, TransitionCore
  <2> QED
    BY <2>2, <2>3
<1>17. CASE CallSentRelease(x, m)
  <2> DEFINE n == [r EXCEPT !.sendRelease = FALSE, !.sendComplete = TRUE]
             p == [n EXCEPT !.earlyError = TRUE, !.errTmr = TRUE]
  <2>1. r.chain /\ r.st \in CallSent
    BY <1>7, <1>17 DEF CallSentRelease
  <2>2. n \in CallRecord /\ n.chain /\ p \in CallRecord /\ p.chain
    BY <1>2, <2>1 DEF CallRecord
  <2>3. ~Pending(call[c].st, call[c].sendRelease)
    BY <2>1 DEF Pending, PendingStates, CallSent, Dialing, r
  <2>4. CASE m.cause = "error"
    <3>1. ChangeState(x, c, p, "RELEASING", ToSip("RELEASE_COMPLETE", c))
      BY <1>17, <2>4 DEF CallSentRelease, c, r
    <3>2. ChangeGood(c, p, "RELEASING")
      BY <2>2, <2>3 DEF ChangeGood, States, AudioStates, Dialing, ConnectedStates
    <3>3. ToSip("RELEASE_COMPLETE", c) \in Seq(SipMessage)
      BY <1>4 DEF SipEvents
    <3> HIDE DEF n, p
    <3> QED
      BY <1>1, <3>1, <3>2, <3>3, ChangeCore
  <2>5. CASE m.cause # "error"
    <3>1. Release(x, c, n, FALSE)
      BY <1>17, <2>5 DEF CallSentRelease, c, r
    <3> HIDE DEF n, p
    <3> QED
      BY <1>1, <2>2, <3>1, ReleaseCore
  <2> QED
    BY <2>4, <2>5
<1>18. CASE CallSentEndCall(x, m)
  <2> DEFINE n == [r EXCEPT !.earlyError = FALSE]
  <2>1. Release(x, c, n, n.sendRelease) /\ r.chain
    BY <1>7, <1>18 DEF CallSentEndCall, c, r
  <2>2. n \in CallRecord /\ n.chain /\ n.sendRelease \in BOOLEAN
    BY <1>2, <2>1 DEF CallRecord
  <2> HIDE DEF n
  <2> QED
    BY <1>1, <2>1, <2>2, ReleaseCore
<1>19. CASE Answer(x, m)
  <2>1. r.chain /\ r.st = "INCOMING_ALERTING" /\ StayGood(c, r)
    <3>1. In(m, {"INCOMING_ALERTING"}, {"ANSWER"})
      BY <1>19 DEF Answer
    <3> QED
      BY <1>7, <3>1
  <2>2. CASE MustWait(c)
    <3>1. Stay(x, c, r, ClearTheWay(c, "GSM", Msg("ANSWER", c, "GSM", "ok")), <<>>)
      BY <1>19, <2>2 DEF Answer, c, r
    <3>2. ClearTheWay(c, "GSM", Msg("ANSWER", c, "GSM", "ok")) \in Seq(Message)
      BY <1>3, <1>5 DEF Events, UiEvents
    <3> QED
      BY <1>1, <1>6, <2>1, <3>1, <3>2, StayCore
  <2>3. CASE ~MustWait(c)
    <3>1. ChangeState(x, c, r, "CONNECTING", ToSip("CONNECTED", c))
      BY <1>19, <2>3 DEF Answer, c, r
    <3>2. ChangeGood(c, r, "CONNECTING")
      BY <1>2, <2>1, <2>3 DEF ChangeGood, States, UpToConnecting, Dialing
    <3>3. ToSip("CONNECTED", c) \in Seq(SipMessage)
      BY <1>4 DEF SipEvents
    <3> QED
      BY <1>1, <3>1, <3>2, <3>3, ChangeCore
  <2> QED
    BY <2>2, <2>3
<1>20. CASE ConnectedAck(x, m)
  <2>1. /\ TransitionToConnected(x, c, r, <<>>)
        /\ In(m, {"CONNECTING"}, {"CONNECTED_ACK"})
    BY <1>20 DEF ConnectedAck, c, r
  <2>2. r.chain /\ UsesAudio(c)
    BY <1>7, <2>1 DEF UsesAudio, r
  <2> QED
    BY <1>1, <1>2, <1>6, <2>1, <2>2, TransitionCore
<1> QED
  BY <1>8, <1>9, <1>10, <1>11, <1>12, <1>14, <1>15, <1>16, <1>17, <1>18, <1>19, <1>20

(* The handlers of a call with a dialog, up to its release. *)
LEMMA DialogHandlers ==
    ASSUME Core, NEW x, GoodX(x), NEW m \in Message,
           \/ EndCall(x, m) \/ EvRelease(x, m)
           \/ RemoteMedia(x, m) \/ ConnectedHold(x, m) \/ UpdMediaCap(x, m)
           \/ MediaPendHold(x, m) \/ MediaPendTimerExp(x, m) \/ MediaPendAck(x, m)
    PROVE  Core'
<1> DEFINE c == m.call
           r == call[c]
<1>1. c \in Calls
  BY DEF Message
<1>2. r \in CallRecord
  BY <1>1 DEF Core, CoreType
<1>3. r.sendRelease \in BOOLEAN
  BY <1>2 DEF CallRecord
<1>4. \A ev \in SipEvents : ToSip(ev, c) \in Seq(SipMessage)
  BY <1>1, ToSipType
<1>6. <<>> \in Seq(SipMessage) /\ <<>> \in Seq(Message)
  BY EmptyType
<1>7. \A S, evs : In(m, S, evs) =>
         /\ r.chain /\ r.st \in S /\ r.st \in States /\ StayGood(c, r)
  BY <1>1, InFacts
<1> HIDE DEF c, r
<1>8. CASE EndCall(x, m)
  <2> DEFINE n == [r EXCEPT !.locked = FALSE]
  <2>1. Release(x, c, n, n.sendRelease) /\ r.chain
    BY <1>7, <1>8 DEF EndCall, c, r
  <2>2. n \in CallRecord /\ n.chain /\ n.sendRelease \in BOOLEAN
    BY <1>2, <2>1 DEF CallRecord
  <2> HIDE DEF n
  <2> QED
    BY <1>1, <2>1, <2>2, ReleaseCore
<1>9. CASE EvRelease(x, m)
  <2> DEFINE n == [r EXCEPT !.sendRelease = FALSE, !.sendComplete = TRUE]
  <2>1. Release(x, c, n, FALSE) /\ r.chain
    BY <1>7, <1>9 DEF EvRelease, c, r
  <2>2. n \in CallRecord /\ n.chain
    BY <1>2, <2>1 DEF CallRecord
  <2> HIDE DEF n
  <2> QED
    BY <1>1, <2>1, <2>2, ReleaseCore
<1>10. CASE RemoteMedia(x, m)
  <2>1. Stay(x, c, r, <<>>, ToSip("MEDIA_ACK", c)) /\ StayGood(c, r)
    BY <1>7, <1>10 DEF RemoteMedia, c, r
  <2>2. ToSip("MEDIA_ACK", c) \in Seq(SipMessage)
    BY <1>4 DEF SipEvents
  <2> QED
    BY <1>1, <1>6, <2>1, <2>2, StayCore
<1>11. CASE ConnectedHold(x, m)
  <2>1. HoldLocal(x, c, r, FALSE) /\ StayGood(c, r) /\ r.chain
    BY <1>7, <1>11 DEF ConnectedHold, c, r
  <2> QED
    BY <1>1, <2>1, HoldLocalCore
<1>12. CASE UpdMediaCap(x, m)
  <2> DEFINE n == [r EXCEPT !.tmr = "off"]
  <2>1. /\ ChangeState(x, c, n, "CONNECTED_MEDIA_PEND", ToSip("MEDIA", c))
        /\ In(m, {"CONNECTED"}, {"UPD_MEDIA_CAP"})
    BY <1>12 DEF UpdMediaCap, c, r
  <2>2. r.chain /\ UsesAudio(c)
    BY <1>7, <2>1 DEF UsesAudio, ConnectedStates, r
  <2>3. ChangeGood(c, n, "CONNECTED_MEDIA_PEND")
    BY <1>2, <2>2 DEF ChangeGood, CallRecord, States, ConnectedStates, Dialing
  <2>4. ToSip("MEDIA", c) \in Seq(SipMessage)
    BY <1>4 DEF SipEvents
  <2> HIDE DEF n
  <2> QED
    BY <1>1, <2>1, <2>3, <2>4, ChangeCore
<1>13. CASE MediaPendHold(x, m)
  <2>1. r.chain /\ StayGood(c, r)
    BY <1>7, <1>13 DEF MediaPendHold
  <2>2. CASE r.held
    <3>1. Stay(x, c, r, <<>>, <<>>)
      BY <1>13, <2>2 DEF MediaPendHold, c, r
    <3> QED
      BY <1>1, <1>6, <2>1, <3>1, StayCore
  <2>3. CASE ~r.held /\ TmrRunning(r)
    <3> DEFINE n == [r EXCEPT !.holdPending = FALSE, !.misled = Misled(x, c, r)]
    <3>1. ChangeState(x, c, n, "HOLD_PENDING", <<>>)
      BY <1>13, <2>3 DEF MediaPendHold, c, r
    <3>2. n \in CallRecord /\ n.chain
      BY <1>2, <2>1, MisledType DEF CallRecord
    <3> HIDE DEF n
    <3> QED
      BY <1>1, <1>6, <3>1, <3>2, HoldPendingCore
  <2>4. CASE ~r.held /\ ~TmrRunning(r)
    <3> DEFINE n == [r EXCEPT !.holdPending = TRUE]
    <3>1. Stay(x, c, n, <<>>, <<>>)
      BY <1>13, <2>4 DEF MediaPendHold, c, r
    <3>2. StayGood(c, n)
      BY <1>2, <2>1 DEF StayGood, CallRecord, r
    <3> HIDE DEF n
    <3> QED
      BY <1>1, <1>6, <3>1, <3>2, StayCore
  <2> QED
    BY <2>2, <2>3, <2>4
<1> DEFINE np == [r EXCEPT !.holdPending = FALSE]
<1>14. ASSUME r.chain, StayGood(c, r) PROVE StayGood(c, np) /\ np.chain /\ np \in CallRecord
  BY <1>2, <1>14 DEF StayGood, CallRecord, r
<1>15. CASE MediaPendTimerExp(x, m)
  <2>1. r.chain /\ StayGood(c, r)
    BY <1>7, <1>15 DEF MediaPendTimerExp
  <2>2. CASE r.holdPending
    <3>1. HoldLocal(x, c, np, FALSE)
      BY <1>15, <2>2 DEF MediaPendTimerExp, c, r
    <3> HIDE DEF np
    <3> QED
      BY <1>1, <1>14, <2>1, <3>1, HoldLocalCore
  <2>3. CASE ~r.holdPending
    <3>1. Stay(x, c, r, <<>>, ToSip("MEDIA", c))
      BY <1>15, <2>3 DEF MediaPendTimerExp, c, r
    <3>2. ToSip("MEDIA", c) \in Seq(SipMessage)
      BY <1>4 DEF SipEvents
    <3> QED
      BY <1>1, <1>6, <2>1, <3>1, <3>2, StayCore
  <2> QED
    BY <2>2, <2>3
<1>16. CASE MediaPendAck(x, m)
  <2>1. r.chain /\ StayGood(c, r) /\ r.st = "CONNECTED_MEDIA_PEND"
    <3>1. In(m, {"CONNECTED_MEDIA_PEND"}, {"MEDIA_ACK"})
      BY <1>16 DEF MediaPendAck
    <3> QED
      BY <1>7, <3>1
  <2>2. CASE m.cause = "pending" /\ r.holdPending
    <3> DEFINE n == [np EXCEPT !.tmr = "on"]
    <3>1. ChangeState(x, c, n, "HOLD_PENDING", <<>>)
      BY <1>16, <2>2 DEF MediaPendAck, c, r
    <3>2. n \in CallRecord /\ n.chain
      BY <1>2, <2>1 DEF CallRecord
    <3> HIDE DEF n, np
    <3> QED
      BY <1>1, <1>6, <3>1, <3>2, HoldPendingCore
  <2>3. CASE m.cause = "pending" /\ ~r.holdPending
    <3> DEFINE n == [r EXCEPT !.tmr = "on"]
    <3>1. Stay(x, c, n, <<>>, <<>>)
      BY <1>16, <2>3 DEF MediaPendAck, c, r
    <3>2. StayGood(c, n)
      BY <1>2, <2>1 DEF StayGood, CallRecord, r
    <3> HIDE DEF n
    <3> QED
      BY <1>1, <1>6, <3>1, <3>2, StayCore
  <2>4. CASE m.cause = "error"
    <3>1. Release(x, c, r, r.sendRelease)
      BY <1>16, <2>4 DEF MediaPendAck, c, r
    <3> QED
      BY <1>1, <1>2, <1>3, <2>1, <3>1, ReleaseCore
  <2>5. CASE m.cause \notin {"pending", "error"} /\ r.holdPending
    <3>1. HoldLocal(x, c, np, FALSE)
      BY <1>16, <2>5 DEF MediaPendAck, c, r
    <3> HIDE DEF np
    <3> QED
      BY <1>1, <1>14, <2>1, <3>1, HoldLocalCore
  <2>6. CASE m.cause \notin {"pending", "error"} /\ ~r.holdPending
    <3>1. TransitionToConnected(x, c, r, <<>>)
      BY <1>16, <2>6 DEF MediaPendAck, c, r
    <3>2. UsesAudio(c)
      BY <2>1 DEF UsesAudio, ConnectedStates, r
    <3> QED
      BY <1>1, <1>2, <1>6, <2>1, <3>1, <3>2, TransitionCore
  <2> QED
    BY <2>2, <2>3, <2>4, <2>5, <2>6
<1> QED
  BY <1>8, <1>9, <1>10, <1>11, <1>12, <1>13, <1>15, <1>16

(* The handlers of hold and resume. *)
LEMMA HoldHandlers ==
    ASSUME Core, NEW x, GoodX(x), NEW m \in Message,
           \/ HoldPendingTimerExp(x, m) \/ HoldPendingAck(x, m)
           \/ HoldingHold(x, m) \/ Resume(x, m) \/ HoldingAck(x, m)
           \/ ResumePendingHold(x, m) \/ ResumePendingGsmHold(x, m)
           \/ ResumePendingTimerExp(x, m) \/ ResumePendingHoldAck(x, m)
           \/ ResumePendingAck(x, m)
    PROVE  Core'
<1> DEFINE c == m.call
           r == call[c]
           on == [r EXCEPT !.tmr = "on"]
           unlocked == [r EXCEPT !.locked = FALSE]
<1>1. c \in Calls /\ m.src \in {"UI", "GSM", "SIP"}
  BY DEF Message
<1>2. r \in CallRecord
  BY <1>1 DEF Core, CoreType
<1>3. r.sendRelease \in BOOLEAN
  BY <1>2 DEF CallRecord
<1>4. ToSip("RESUME", c) \in Seq(SipMessage)
  BY <1>1, ToSipType DEF SipEvents
<1>5. <<>> \in Seq(SipMessage) /\ <<>> \in Seq(Message)
  BY EmptyType
<1>6. \A S, evs : In(m, S, evs) =>
         /\ r.chain /\ r.st \in S /\ StayGood(c, r)
  BY <1>1, InFacts
<1> HIDE DEF c, r
<1>7. ASSUME r.chain, StayGood(c, r)
      PROVE  /\ StayGood(c, on) /\ on \in CallRecord /\ on.chain
             /\ StayGood(c, unlocked) /\ unlocked \in CallRecord /\ unlocked.chain
             /\ unlocked.sendRelease = r.sendRelease
  BY <1>2, <1>7 DEF StayGood, CallRecord, r
<1>8. ASSUME Release(x, c, r, r.sendRelease), r.chain PROVE Core'
  BY <1>1, <1>2, <1>3, <1>8, ReleaseCore
<1>9. ASSUME Stay(x, c, r, <<>>, <<>>), StayGood(c, r) PROVE Core'
  BY <1>1, <1>5, <1>9, StayCore
<1>10. CASE HoldPendingTimerExp(x, m)
  <2>1. HoldLocal(x, c, r, TRUE) /\ StayGood(c, r) /\ r.chain
    BY <1>6, <1>10 DEF HoldPendingTimerExp, c, r
  <2> QED
    BY <1>1, <2>1, HoldLocalCore
<1>11. CASE HoldPendingAck(x, m)
  <2>1. r.chain /\ StayGood(c, r)
    BY <1>6, <1>11 DEF HoldPendingAck
  <2>2. \/ HoldLocalOnly(x, c, r)
        \/ Release(x, c, r, r.sendRelease)
        \/ HoldLocal(x, c, r, FALSE)
    BY <1>11 DEF HoldPendingAck, c, r
  <2> QED
    BY <1>1, <1>8, <2>1, <2>2, HoldLocalOnlyCore, HoldLocalCore
<1>12. CASE HoldingHold(x, m)
  <2>1. HoldLocal(x, c, r, FALSE) /\ StayGood(c, r) /\ r.chain
    BY <1>6, <1>12 DEF HoldingHold, c, r
  <2> QED
    BY <1>1, <2>1, HoldLocalCore
<1>13. CASE Resume(x, m)
  <2> DEFINE n == [r EXCEPT !.held = FALSE, !.locked = TRUE, !.misled = Misled(x, c, r)]
  <2>1. r.chain /\ StayGood(c, r)
    BY <1>6, <1>13 DEF Resume
  <2>2. CASE ~r.held
    <3>1. Stay(x, c, r, <<>>, <<>>)
      BY <1>13, <2>2 DEF Resume, c, r
    <3> QED
      BY <1>9, <2>1, <3>1
  <2>3. CASE r.held /\ MustWait(c)
    <3>1. Stay(x, c, r, ClearTheWay(c, m.src, Msg("RESUME", c, m.src, "ok")), <<>>)
      BY <1>13, <2>3 DEF Resume, c, r
    <3>2. Msg("RESUME", c, m.src, "ok") \in Message
      BY <1>1, MsgType DEF Events, UiEvents, Causes
    <3>3. ClearTheWay(c, m.src, Msg("RESUME", c, m.src, "ok")) \in Seq(Message)
      BY <1>1, <3>2, ClearTheWayType
    <3> QED
      BY <1>1, <1>5, <2>1, <3>1, <3>3, StayCore
  <2>4. CASE r.held /\ ~MustWait(c)
    <3>1. PICK sends \in Seq(SipMessage) : ChangeState(x, c, n, "RESUME_PENDING", sends)
      <4>1. ChangeState(x, c, n, "RESUME_PENDING",
                        IF TmrRunning(r) THEN <<>> ELSE ToSip("RESUME", c))
        BY <1>13, <2>4 DEF Resume, c, r
      <4> HIDE DEF n
      <4> QED
        BY <1>4, <1>5, <4>1
    <3>2. ChangeGood(c, n, "RESUME_PENDING")
      BY <1>2, <2>1, <2>4, MisledType DEF ChangeGood, CallRecord, States, ConnectedStates,
                                          Dialing
    <3> HIDE DEF n
    <3> QED
      BY <1>1, <3>1, <3>2, ChangeCore
  <2> QED
    BY <2>2, <2>3, <2>4
<1>14. CASE HoldingAck(x, m)
  <2>1. r.chain /\ StayGood(c, r)
    BY <1>6, <1>14 DEF HoldingAck
  <2>2. \/ ChangeState(x, c, on, "HOLD_PENDING", <<>>)
        \/ Release(x, c, r, r.sendRelease)
        \/ Stay(x, c, r, <<>>, <<>>)
    BY <1>14 DEF HoldingAck, c, r
  <2> HIDE DEF on
  <2> QED
    BY <1>1, <1>5, <1>7, <1>8, <1>9, <2>1, <2>2, HoldPendingCore
<1>15. CASE ResumePendingHold(x, m)
  <2> DEFINE n == [unlocked EXCEPT !.tmr = "off"]
  <2>1. r.chain /\ StayGood(c, r)
    BY <1>6, <1>15 DEF ResumePendingHold
  <2>2. StayGood(c, n) /\ n.chain
    BY <1>2, <2>1 DEF StayGood, CallRecord, r
  <2>3. \/ HoldLocalOnly(x, c, n)
        \/ ChangeState(x, c, unlocked, "HOLD_PENDING", <<>>)
    BY <1>15 DEF ResumePendingHold, c, r
  <2> HIDE DEF n, unlocked
  <2> QED
    BY <1>1, <1>5, <1>7, <2>1, <2>2, <2>3, HoldLocalOnlyCore, HoldPendingCore
<1>16. CASE ResumePendingGsmHold(x, m)
  <2>1. r.chain /\ StayGood(c, r)
    BY <1>6, <1>16 DEF ResumePendingGsmHold
  <2>2. HoldLocalOnly(x, c, unlocked)
    BY <1>16 DEF ResumePendingGsmHold, c, r
  <2> HIDE DEF unlocked
  <2> QED
    BY <1>1, <1>7, <2>1, <2>2, HoldLocalOnlyCore
<1>17. CASE ResumePendingTimerExp(x, m)
  <2> DEFINE n == [r EXCEPT !.locked = TRUE]
  <2>1. r.chain /\ StayGood(c, r)
    BY <1>6, <1>17 DEF ResumePendingTimerExp
  <2>2. StayGood(c, n)
    BY <1>2, <2>1 DEF StayGood, CallRecord, r
  <2>3. Stay(x, c, n, <<>>, ToSip("RESUME", c))
    BY <1>17 DEF ResumePendingTimerExp, c, r
  <2> HIDE DEF n
  <2> QED
    BY <1>1, <1>4, <1>5, <2>2, <2>3, StayCore
<1>18. CASE ResumePendingHoldAck(x, m)
  <2>1. r.chain /\ StayGood(c, r) /\ r.st = "RESUME_PENDING"
    <3>1. In(m, {"RESUME_PENDING"}, {"HOLD_ACK"})
      BY <1>18 DEF ResumePendingHoldAck
    <3> QED
      BY <1>6, <3>1
  <2>2. \/ ChangeState(x, c, r, "CONNECTED", <<>>)
        \/ Release(x, c, r, r.sendRelease)
        \/ Stay(x, c, r, <<>>, <<>>)
    BY <1>18 DEF ResumePendingHoldAck, c, r
  <2>3. ChangeGood(c, r, "CONNECTED")
    BY <1>2, <2>1 DEF ChangeGood, CallRecord, States, ConnectedStates, Dialing, UsesAudio, r
  <2> QED
    BY <1>1, <1>5, <1>8, <1>9, <2>1, <2>2, <2>3, ChangeCore
<1>19. CASE ResumePendingAck(x, m)
  <2>1. r.chain /\ StayGood(c, r) /\ r.st = "RESUME_PENDING"
    <3>1. In(m, {"RESUME_PENDING"}, {"RESUME_ACK"})
      BY <1>19 DEF ResumePendingAck
    <3> QED
      BY <1>6, <3>1
  <2>2. UsesAudio(c)
    BY <2>1 DEF UsesAudio, ConnectedStates, r
  <2>3. \/ Stay(x, c, on, <<>>, <<>>)
        \/ Release(x, c, unlocked, r.sendRelease)
        \/ TransitionToConnected(x, c, unlocked, <<>>)
    BY <1>19 DEF ResumePendingAck, c, r
  <2> HIDE DEF on, unlocked
  <2>4. CASE Stay(x, c, on, <<>>, <<>>)
    BY <1>1, <1>5, <1>7, <2>1, <2>4, StayCore
  <2>5. CASE Release(x, c, unlocked, r.sendRelease)
    BY <1>1, <1>3, <1>7, <2>1, <2>5, ReleaseCore
  <2>6. CASE TransitionToConnected(x, c, unlocked, <<>>)
    BY <1>1, <1>5, <1>7, <2>1, <2>2, <2>6, TransitionCore
  <2> QED
    BY <2>3, <2>4, <2>5, <2>6
<1> QED
  BY <1>10, <1>11, <1>12, <1>13, <1>14, <1>15, <1>16, <1>17, <1>18, <1>19

(* The handlers of a call that is being released. *)
LEMMA ReleasingHandlers ==
    ASSUME Core, NEW x, GoodX(x), NEW m \in Message,
           \/ ReleasingRelease(x, m) \/ ReleaseComplete(x, m) \/ ReleasingEndCall(x, m)
           \/ ErrorOnhookTimeout(x, m)
    PROVE  Core'
<1> DEFINE c == m.call
           r == call[c]
<1>1. c \in Calls
  BY DEF Message
<1>2. r \in CallRecord
  BY <1>1 DEF Core, CoreType
<1>3. ToSip("RELEASE_COMPLETE", c) \in Seq(SipMessage)
  BY <1>1, ToSipType DEF SipEvents
<1>4. <<>> \in Seq(SipMessage) /\ <<>> \in Seq(Message)
  BY EmptyType
<1>5. <<Msg("ONHOOK", c, "GSM", "ok")>> \in Seq(Message)
  BY <1>1, MsgType DEF Events, Causes
<1>6. StayGood(c, r)
  BY <1>1, <1>2 DEF StayGood, Core, ChainOut
<1> HIDE DEF c, r
<1>7. CASE ReleasingRelease(x, m)
  <2>1. Stay(x, c, r, <<>>, <<>>) \/ Free(x, c, ToSip("RELEASE_COMPLETE", c))
    BY <1>7 DEF ReleasingRelease, c, r
  <2> QED
    BY <1>1, <1>3, <1>4, <1>6, <2>1, StayCore, FreeCore
<1>8. CASE ReleaseComplete(x, m)
  <2>1. Stay(x, c, r, <<>>, <<>>) \/ Free(x, c, <<>>)
    BY <1>8 DEF ReleaseComplete, c, r
  <2> QED
    BY <1>1, <1>4, <1>6, <2>1, StayCore, FreeCore
<1>9. CASE ReleasingEndCall(x, m)
  <2>1. Release(x, c, r, FALSE) /\ r.chain
    BY <1>9 DEF ReleasingEndCall, In, c, r
  <2> QED
    BY <1>1, <1>2, <2>1, ReleaseCore
<1>10. CASE ErrorOnhookTimeout(x, m)
  <2>1. Stay(x, c, r, <<Msg("ONHOOK", c, "GSM", "ok")>>, <<>>)
    BY <1>10 DEF ErrorOnhookTimeout, c, r
  <2> QED
    BY <1>1, <1>4, <1>5, <1>6, <2>1, StayCore
<1> QED
  BY <1>7, <1>8, <1>9, <1>10

-----------------------------------------------------------------------------
(* fim_process_event() keeps the invariant, whatever the event. *)
LEMMA FimCore ==
    ASSUME Core, NEW x, GoodX(x), NEW m \in Message, FimProcessEvent(x, m)
    PROVE  Core'
<1>1. CASE Defers(x.d, m.ev) /\ dcsm' = AddEvent(x.d, m) /\ gsmQ' = x.q
           /\ UNCHANGED <<call, sipQ>>
  <2>1. x.d \in DcsmRecord /\ x.d.ids = dcsm.ids /\ x.d.state = dcsm.state
    BY DEF GoodX
  <2>2. Append(x.d.q, m) \in Seq(Message)
    BY <2>1, AppendType DEF DcsmRecord
  <2>3. dcsm' \in DcsmRecord /\ dcsm'.ids = dcsm.ids /\ dcsm'.state = dcsm.state
    BY <1>1, <2>1, <2>2 DEF AddEvent, DcsmRecord
  <2>4. gsmQ' \in Seq(Message \cup {NullMessage})
    BY <1>1, Zenon DEF GoodX
  <2> QED
    BY <1>1, <2>3, <2>4
       DEF Core, CoreType, GateMatchesCalls, ChainOut, OneCallUsesAudio, UsesAudio
<1>2. CASE dcsm' = x.d /\ gsmQ' = x.q /\ UNCHANGED <<call, sipQ>>
  BY <1>2 DEF GoodX, Core, CoreType, GateMatchesCalls, ChainOut, OneCallUsesAudio, UsesAudio
<1>3. CASE Fsmdef(x, m)
  BY <1>3, SetupHandlers, DialogHandlers, HoldHandlers, ReleasingHandlers DEF Fsmdef
<1> QED
  BY <1>1, <1>2, <1>3 DEF FimProcessEvent

(* The steps of the GSM thread. *)
LEMMA GsmThreadCore == Core /\ (pc = "jobs" => HasReadyJob(dcsm)) /\ GsmThread => Core'
<1> SUFFICES ASSUME Core, pc = "jobs" => HasReadyJob(dcsm), GsmThread PROVE Core'
  OBVIOUS
<1>1. dcsm \in DcsmRecord /\ gsmQ \in Seq(Message \cup {NullMessage})
  BY DEF Core, CoreType
<1>2. CASE GsmGetMessage
  <2> DEFINE x == [q |-> Tail(gsmQ), d |-> dcsm]
  <2>1. gsmQ # <<>> /\ Head(gsmQ) # NullMessage /\ FimProcessEvent(x, Head(gsmQ))
    BY <1>2 DEF GsmGetMessage
  <2>2. Head(gsmQ) \in Message /\ Tail(gsmQ) \in Seq(Message \cup {NullMessage})
    BY <1>1, <2>1, HeadTailType
  <2>3. GoodX(x)
    BY <1>1, <2>2 DEF GoodX
  <2> HIDE DEF x
  <2> QED
    BY <2>1, <2>2, <2>3, FimCore
<1>3. CASE GsmGetNull
  <2>1. gsmQ' \in Seq(Message \cup {NullMessage})
    BY <1>1, <1>3, HeadTailType DEF GsmGetNull
  <2> QED
    BY <1>3, <2>1
       DEF GsmGetNull, Core, CoreType, GateMatchesCalls, ChainOut, OneCallUsesAudio, UsesAudio
<1>4. CASE DcsmProcessJobs
  <2> DEFINE x == [q |-> gsmQ, d |-> WithoutFirst(dcsm)]
  <2>1. dcsm.q # <<>> /\ FimProcessEvent(x, Head(dcsm.q))
    BY <1>4 DEF DcsmProcessJobs, HasReadyJob
  <2>2. Head(dcsm.q) \in Message /\ Tail(dcsm.q) \in Seq(Message)
    BY <1>1, <2>1, HeadTailType DEF DcsmRecord
  <2>3. GoodX(x)
    BY <1>1, <2>2 DEF GoodX, WithoutFirst, DcsmRecord
  <2> HIDE DEF x
  <2> QED
    BY <2>1, <2>2, <2>3, FimCore
<1> QED
  BY <1>2, <1>3, <1>4 DEF GsmThread

(* A step that only posts and takes messages. *)
LEMMA QueuesCore ==
    ASSUME Core, UNCHANGED <<call, dcsm>>,
           gsmQ' \in Seq(Message \cup {NullMessage}), sipQ' \in Seq(SipMessage)
    PROVE  Core'
BY DEF Core, CoreType, GateMatchesCalls, ChainOut, OneCallUsesAudio, UsesAudio

(* The timer service changes a timer and may post its expiry. *)
LEMMA TimerCore == ASSUME Core, NEW c \in Calls, TimerService(c) PROVE Core'
<1> DEFINE r == call[c]
           x == [q |-> gsmQ, d |-> dcsm]
<1>1. r \in CallRecord /\ call \in [Calls -> CallRecord]
  BY DEF Core, CoreType
<1>2. StayGood(c, r) /\ GoodX(x)
  BY <1>1 DEF StayGood, GoodX, Core, CoreType, ChainOut
<1>3. \A t \in {"off", "fired"} : StayGood(c, [r EXCEPT !.tmr = t])
  BY <1>1, <1>2 DEF StayGood, CallRecord
<1>4. StayGood(c, [r EXCEPT !.errTmr = FALSE])
  BY <1>1, <1>2 DEF StayGood, CallRecord
<1>5. \A ev \in {"REQ_PEND_TIMER_EXP", "ERROR_ONHOOK_TIMER"} :
         /\ <<Msg(ev, c, "GSM", "ok")>> \in Seq(Message)
         /\ Append(gsmQ, Msg(ev, c, "GSM", "ok")) = gsmQ \o <<Msg(ev, c, "GSM", "ok")>>
  <2> TAKE ev \in {"REQ_PEND_TIMER_EXP", "ERROR_ONHOOK_TIMER"}
  <2>1. Msg(ev, c, "GSM", "ok") \in Message
    BY MsgType DEF Events, Causes
  <2>2. gsmQ \in Seq(Message \cup {NullMessage})
    BY DEF Core, CoreType
  <2> QED
    BY <2>1, <2>2
<1>6. /\ sipQ \o <<>> = sipQ /\ gsmQ \o <<>> = gsmQ
      /\ <<>> \in Seq(SipMessage) /\ <<>> \in Seq(Message)
  BY EmptyType DEF Core, CoreType
<1>7. CASE ReqPendingTimerExpires(c)
  <2> DEFINE n == [r EXCEPT !.tmr = "fired"]
             p == <<Msg("REQ_PEND_TIMER_EXP", c, "GSM", "ok")>>
  <2>1. call' = [call EXCEPT ![c] = n]
    BY <1>7 DEF ReqPendingTimerExpires
  <2>2. Stay(x, c, n, p, <<>>)
    BY <1>5, <1>6, <1>7, <2>1 DEF ReqPendingTimerExpires, Stay
  <2>3. p \in Seq(Message) /\ StayGood(c, n)
    BY <1>3, <1>5
  <2> HIDE DEF n, p, x
  <2> QED
    BY <1>2, <1>6, <2>2, <2>3, StayCore
<1>8. CASE TimerDeactivated(c)
  <2> DEFINE n == [r EXCEPT !.tmr = "off"]
  <2>1. call' = [call EXCEPT ![c] = n]
    BY <1>8 DEF TimerDeactivated
  <2>2. Stay(x, c, n, <<>>, <<>>)
    BY <1>6, <1>8, <2>1 DEF TimerDeactivated, Stay
  <2>3. StayGood(c, n)
    BY <1>3
  <2> HIDE DEF n, x
  <2> QED
    BY <1>2, <1>6, <2>2, <2>3, StayCore
<1>9. CASE ErrorOnhookTimerExpires(c)
  <2> DEFINE n == [r EXCEPT !.errTmr = FALSE]
             p == <<Msg("ERROR_ONHOOK_TIMER", c, "GSM", "ok")>>
  <2>1. call' = [call EXCEPT ![c] = n]
    BY <1>9 DEF ErrorOnhookTimerExpires
  <2>2. Stay(x, c, n, p, <<>>)
    BY <1>5, <1>6, <1>9, <2>1 DEF ErrorOnhookTimerExpires, Stay
  <2>3. p \in Seq(Message) /\ StayGood(c, n)
    BY <1>4, <1>5
  <2> HIDE DEF n, p, x
  <2> QED
    BY <1>2, <1>6, <2>2, <2>3, StayCore
<1> QED
  BY <1>7, <1>8, <1>9 DEF TimerService

(* A request of the user is posted. *)
LEMMA UiCore == ASSUME Core, NEW c \in Calls, UiRequest(c) PROVE Core'
<1>1. PICK ev \in Ui[c] : gsmQ' = Append(gsmQ, Msg(ev, c, "UI", "ok"))
  BY DEF UiRequest
<1>2. ev \in Events
  BY CallsAssumption DEF Events
<1>3. Msg(ev, c, "UI", "ok") \in Message \cup {NullMessage}
  BY <1>2, MsgType DEF Causes
<1>4. gsmQ \in Seq(Message \cup {NullMessage}) /\ sipQ \in Seq(SipMessage)
  BY DEF Core, CoreType
<1>5. gsmQ' \in Seq(Message \cup {NullMessage})
  BY <1>1, <1>3, <1>4, AppendType
<1>6. UNCHANGED <<call, dcsm>> /\ sipQ' = sipQ
  BY DEF UiRequest
<1> QED
  BY <1>4, <1>5, <1>6, QueuesCore

-----------------------------------------------------------------------------
(* The SIP thread and the peers. *)
SipType == sip \in [Calls -> SipRecord]

(* SipTo() posts call control messages and changes the state of a ccb. *)
LEMMA SipToType ==
    ASSUME Core, SipType, NEW c \in Calls, NEW st \in SipStates, NEW posts \in Seq(Message),
           SipTo(c, st, posts)
    PROVE  SipType' /\ gsmQ' \in Seq(Message \cup {NullMessage})
<1>1. sip[c] \in SipRecord /\ sip' = [sip EXCEPT ![c] = [sip[c] EXCEPT !.st = st]]
  BY DEF SipType, SipTo
<1>2. [sip[c] EXCEPT !.st = st] \in SipRecord
  BY <1>1 DEF SipRecord
<1>3. SipType'
  BY <1>1, <1>2 DEF SipType
<1>4. posts \in Seq(Message \cup {NullMessage})
  BY SeqMonotone
<1> QED
  BY <1>3, <1>4, ConcatType, Zenon DEF SipTo, Core, CoreType

LEMMA PostType ==
    ASSUME NEW ev \in Events, NEW c \in Calls, NEW cause \in Causes
    PROVE  Post(ev, c, cause) \in Seq(Message)
BY MsgType DEF Post

LEMMA AckType == ASSUME NEW f PROVE AckOf(f) \in Events
BY DEF AckOf, Events

(* What sip_sm_process_cc_event() does for each kind of message. *)
LEMMA SipHandlers ==
    ASSUME Core, SipType, NEW c \in Calls, NEW ev,
           \/ ev \in {"HOLD", "RESUME", "MEDIA"} /\ SipFeature(c, ev)
           \/ SipRelease(c) \/ SipReleaseComplete(c) \/ SipAnswer(c, ev)
    PROVE  SipType' /\ gsmQ' \in Seq(Message \cup {NullMessage})
<1>1. sip[c] \in SipRecord /\ sip[c].st \in SipStates
  BY DEF SipType, SipRecord
<1>2. <<>> \in Seq(Message)
  BY EmptyType
<1>3. /\ Post("RELEASE", c, "error") \in Seq(Message)
      /\ Post("RELEASE_COMPLETE", c, "ok") \in Seq(Message)
      /\ Post(AckOf(ev), c, "pending") \in Seq(Message)
      /\ Post(AckOf(ev), c, "error") \in Seq(Message)
  <2>1. "RELEASE" \in Events /\ "RELEASE_COMPLETE" \in Events /\ AckOf(ev) \in Events
    BY AckType DEF Events
  <2>2. "ok" \in Causes /\ "pending" \in Causes /\ "error" \in Causes
    BY DEF Causes
  <2> QED
    BY <2>1, <2>2, PostType
<1>4. CASE ev \in {"HOLD", "RESUME", "MEDIA"} /\ SipFeature(c, ev)
  <2>1. CASE /\ sip' = [sip EXCEPT ![c].st = "SENT_MIDCALL_INVITE", ![c].feature = ev]
             /\ UNCHANGED gsmQ
    <3>1. [sip[c] EXCEPT !.st = "SENT_MIDCALL_INVITE", !.feature = ev] \in SipRecord
      BY <1>1, <1>4 DEF SipRecord, SipStates
    <3>2. sip' = [sip EXCEPT ![c] = [sip[c] EXCEPT !.st = "SENT_MIDCALL_INVITE",
                                                   !.feature = ev]]
      BY <2>1 DEF SipType
    <3>3. SipType'
      BY <3>1, <3>2 DEF SipType
    <3> QED
      BY <2>1, <3>3 DEF Core, CoreType
  <2>2. CASE \E posts \in Seq(Message) : SipTo(c, sip[c].st, posts)
    BY <1>1, <2>2, SipToType
  <2> QED
    BY <1>3, <1>4, <2>1, <2>2 DEF SipFeature
<1>5. CASE SipRelease(c)
  <2>1. \E st \in SipStates, posts \in Seq(Message) : SipTo(c, st, posts)
    BY <1>3, <1>5 DEF SipRelease, SipStates
  <2> QED
    BY <2>1, SipToType
<1>6. CASE SipReleaseComplete(c)
  <2>1. \E st \in SipStates, posts \in Seq(Message) : SipTo(c, st, posts)
    BY <1>2, <1>3, <1>6 DEF SipReleaseComplete, SipStates
  <2> QED
    BY <2>1, SipToType
<1>7. CASE SipAnswer(c, ev)
  <2> DEFINE next == [st \in SipStates |->
            CASE ev = "SETUP" /\ st = "IDLE" -> "SENT_INVITE"
              [] ev = "CONNECTED" /\ st = "RECV_INVITE" -> "RECV_INVITE_CONNECTED"
              [] ev = "CONNECTED_ACK" /\ st = "SENT_INVITE_CONNECTED" -> "ACTIVE"
              [] ev = "MEDIA_ACK" /\ st = "CCFEATUREACK_PENDING" -> "SIPACK_PENDING"
              [] OTHER -> st]
             posts == IF sip[c].st = "CLEANED_UP" THEN Post("RELEASE", c, "error") ELSE <<>>
  <2>1. next[sip[c].st] \in SipStates
    <3>1. \A st \in SipStates : next[st] \in SipStates
      <4> TAKE st \in SipStates
      <4>1. next[st] \in {st, "SENT_INVITE", "RECV_INVITE_CONNECTED", "ACTIVE", "SIPACK_PENDING"}
        OBVIOUS
      <4> HIDE DEF next
      <4> QED
        BY <4>1 DEF SipStates
    <3> QED
      BY <1>1, <3>1
  <2>2. posts \in Seq(Message)
    BY <1>2, <1>3
  <2>3. SipTo(c, next[sip[c].st], posts)
    BY <1>7 DEF SipAnswer
  <2> HIDE DEF next, posts
  <2> QED
    BY <2>1, <2>2, <2>3, SipToType
<1> QED
  BY <1>4, <1>5, <1>6, <1>7

(* A step of the SIP thread, and one of a peer. *)
LEMMA SipThreadStep == ASSUME Core, SipType, SipProcessCcEvent PROVE Core' /\ SipType'
<1>1. sipQ \in Seq(SipMessage) /\ sipQ # <<>> /\ sipQ' = Tail(sipQ)
  BY DEF Core, CoreType, SipProcessCcEvent
<1>2. Head(sipQ) \in SipMessage /\ sipQ' \in Seq(SipMessage)
  BY <1>1, HeadTailType
<1> DEFINE c == Head(sipQ).call
           ev == Head(sipQ).ev
<1>3. c \in Calls
  BY <1>2 DEF SipMessage
<1>4. \/ ev \in {"HOLD", "RESUME", "MEDIA"} /\ SipFeature(c, ev)
      \/ SipRelease(c) \/ SipReleaseComplete(c) \/ SipAnswer(c, ev)
  BY DEF SipProcessCcEvent
<1>5. UNCHANGED <<call, dcsm>>
  BY DEF SipProcessCcEvent
<1> HIDE DEF c, ev
<1>6. SipType' /\ gsmQ' \in Seq(Message \cup {NullMessage})
  BY <1>3, <1>4, SipHandlers
<1> QED
  BY <1>2, <1>5, <1>6, QueuesCore

LEMMA PeerStep ==
    ASSUME Core, SipType, NEW c \in Calls, Peer(c) \/ PeerResponse(c)
    PROVE  Core' /\ SipType'
<1>1. sip[c] \in SipRecord /\ sip \in [Calls -> SipRecord]
  BY DEF SipType
<1>2. <<>> \in Seq(Message)
  BY EmptyType
<1>3. \A ev \in Events, cause \in Causes : Post(ev, c, cause) \in Seq(Message)
  BY PostType
<1>4. \A cause \in Causes : Post(AckOf(sip[c].feature), c, cause) \in Seq(Message)
  BY <1>3, AckType
<1>5. UNCHANGED <<call, dcsm, sipQ>>
  BY DEF Peer, PeerInvites, PeerRings, PeerAnswers, PeerRefuses, PeerDisconnects,
         PeerReinvites, PeerRejects, ReinviteTimesOut, PeerResponse, PeerAcks, PeerAccepts,
         DisconnectDone
<1>6. SUFFICES SipType' /\ gsmQ' \in Seq(Message \cup {NullMessage})
  BY <1>5, QueuesCore DEF Core, CoreType
<1>7. SUFFICES ASSUME ~(\E st \in SipStates, posts \in Seq(Message) : SipTo(c, st, posts))
               PROVE  SipType' /\ gsmQ' \in Seq(Message \cup {NullMessage})
  BY SipToType
<1>8. ~PeerInvites(c) /\ ~PeerAnswers(c) /\ ~PeerRefuses(c)
  BY <1>3, <1>7 DEF PeerInvites, PeerAnswers, PeerRefuses, Events, Causes, SipStates
<1>9. ~PeerAcks(c) /\ ~PeerDisconnects(c) /\ ~PeerReinvites(c) /\ ~DisconnectDone(c)
  BY <1>2, <1>3, <1>7
     DEF PeerAcks, PeerDisconnects, PeerReinvites, DisconnectDone, Events, Causes, SipStates
<1>10. ~PeerRejects(c)
  BY <1>4, <1>7 DEF PeerRejects, Causes, SipStates
<1>11. ~ReinviteTimesOut(c)
  <2>1. Post(AckOf(sip[c].feature), c, "error") \o Post("RELEASE", c, "error") \in Seq(Message)
    BY <1>3, <1>4, ConcatType DEF Events, Causes
  <2>2. "RELEASE" \in SipStates
    BY DEF SipStates
  <2> QED
    BY <1>7, <2>1, <2>2 DEF ReinviteTimesOut
<1>12. CASE PeerRings(c)
  <2>1. PICK ev \in {"PROCEEDING", "ALERTING"} :
            /\ sip' = [sip EXCEPT ![c].rang = TRUE]
            /\ gsmQ' = gsmQ \o Post(ev, c, "ok")
    BY <1>12 DEF PeerRings
  <2>2. Post(ev, c, "ok") \in Seq(Message \cup {NullMessage})
    BY <1>3, SeqMonotone DEF Events, Causes
  <2>3. gsmQ' \in Seq(Message \cup {NullMessage})
    BY <2>1, <2>2, ConcatType DEF Core, CoreType
  <2>4. SipType'
    BY <1>1, <2>1 DEF SipType, SipRecord
  <2> QED
    BY <2>3, <2>4
<1>13. CASE PeerAccepts(c)
  <2>1. Post(AckOf(sip[c].feature), c, "ok") \in Seq(Message \cup {NullMessage})
    BY <1>4, SeqMonotone DEF Causes
  <2>2. gsmQ' \in Seq(Message \cup {NullMessage})
    BY <1>13, <2>1, ConcatType DEF PeerAccepts, Core, CoreType
  <2>3. PICK p \in {"hold", "active"} : sip' = [sip EXCEPT ![c].st = "ACTIVE", ![c].peer = p]
    BY <1>13 DEF PeerAccepts
  <2>4. SipType'
    BY <1>1, <2>3 DEF SipType, SipRecord, SipStates
  <2> QED
    BY <2>2, <2>4
<1> QED
  BY <1>8, <1>9, <1>10, <1>11, <1>12, <1>13 DEF Peer, PeerResponse

-----------------------------------------------------------------------------
(* The task loop's position, the calls in use and the bounds' counters. *)
LoopType == pc \in {"get", "jobs"} /\ (pc = "jobs" => HasReadyJob(dcsm))
Counters ==
    /\ started \subseteq Calls
    /\ ui \in 0 .. MaxUi /\ faults \in 0 .. MaxFaults /\ media \in 0 .. MaxMedia

Inv == Core /\ SipType /\ LoopType /\ Counters

(* The invariant holds initially and is kept by every step. *)
LEMMA InvInit == Init => Inv
<1> SUFFICES ASSUME Init PROVE Inv
  OBVIOUS
<1>1. \A c \in Calls : /\ call[c] = IF Start[c] = "new" THEN NoCall
                                    ELSE Answered(Start[c] = "held")
                       /\ call[c] \in CallRecord
                       /\ ~Pending(call[c].st, call[c].sendRelease)
                       /\ call[c].st # "IDLE" => call[c].chain
                       /\ call[c].st \notin Dialing
                       /\ UsesAudio(c) => Start[c] = "connected"
  <2> TAKE c \in Calls
  <2>1. call[c] = IF Start[c] = "new" THEN NoCall ELSE Answered(Start[c] = "held")
    BY DEF Init
  <2>2. CASE Start[c] = "new"
    BY <2>1, <2>2, NoCallType DEF NoCall, Pending, PendingStates, Dialing, UsesAudio,
                                  ConnectedStates
  <2>3. CASE Start[c] = "held"
    <3>1. /\ Answered(TRUE) \in CallRecord /\ Answered(TRUE).st = "HOLDING"
          /\ Answered(TRUE).chain
      BY NoCallType DEF Answered, NoCall, CallRecord, States
    <3> QED
      BY <2>1, <2>3, <3>1 DEF Pending, PendingStates, Dialing, UsesAudio, ConnectedStates
  <2>4. CASE Start[c] = "connected"
    <3>1. /\ Answered(FALSE) \in CallRecord /\ Answered(FALSE).st = "CONNECTED"
          /\ Answered(FALSE).chain
      BY NoCallType DEF Answered, NoCall, CallRecord, States, ConnectedStates
    <3> QED
      BY <2>1, <2>4, <3>1 DEF Pending, PendingStates, Dialing
  <2> QED
    BY <2>2, <2>3, <2>4, CallsAssumption
<1>2. CoreType
  <2>1. call \in [Calls -> CallRecord]
    BY <1>1 DEF Init
  <2>2. dcsm \in DcsmRecord
    BY EmptyType DEF Init, DcsmInit, DcsmRecord
  <2> QED
    BY <2>1, <2>2, EmptyType DEF Init, CoreType
<1>3. GateMatchesCalls
  BY <1>1 DEF Init, DcsmInit, GateMatchesCalls
<1>4. ChainOut /\ OneCallUsesAudio
  BY <1>1, StartAssumption DEF ChainOut, OneCallUsesAudio
<1>5. SipType
  BY DEF Init, SipType, SipRecord, NoDialog, SipStates
<1>6. LoopType
  BY DEF Init, LoopType
<1>7. Counters
  <2>1. MaxUi \in Nat /\ MaxFaults \in Nat /\ MaxMedia \in Nat
    BY CallsAssumption
  <2>2. started \subseteq Calls /\ ui = 0 /\ faults = 0 /\ media = 0
    BY DEF Init
  <2> QED
    BY <2>1, <2>2 DEF Counters
<1> QED
  BY <1>2, <1>3, <1>4, <1>5, <1>6, <1>7 DEF Inv, Core

LEMMA InvStep == Inv /\ [Next]_vars => Inv'
<1> SUFFICES ASSUME Inv, [Next]_vars PROVE Inv'
  OBVIOUS
<1> USE DEF Inv
<1>1. CASE GsmThread
  <2>1. Core'
    BY <1>1, GsmThreadCore DEF LoopType
  <2>2. SipType' /\ Counters'
    BY <1>1 DEF GsmThread, GsmGetMessage, GsmGetNull, DcsmProcessJobs, SipType, Counters
  <2>3. LoopType'
    BY <1>1 DEF GsmThread, GsmGetMessage, GsmGetNull, DcsmProcessJobs, LoopType
  <2> QED
    BY <2>1, <2>2, <2>3
<1>2. CASE SipProcessCcEvent
  <2>1. LoopType' /\ Counters'
    BY <1>2 DEF SipProcessCcEvent, LoopType, Counters
  <2> QED
    BY <1>2, <2>1, SipThreadStep
<1>3. ASSUME NEW c \in Calls, UiRequest(c) PROVE Inv'
  <2>1. SipType' /\ LoopType' /\ Counters'
    BY <1>3, CallsAssumption DEF UiRequest, SipType, LoopType, Counters
  <2> QED
    BY <1>3, <2>1, UiCore
<1>4. ASSUME NEW c \in Calls, TimerService(c) PROVE Inv'
  <2>1. SipType' /\ LoopType' /\ Counters'
    BY <1>4 DEF TimerService, ReqPendingTimerExpires, TimerDeactivated,
                ErrorOnhookTimerExpires, SipType, LoopType, Counters
  <2> QED
    BY <1>4, <2>1, TimerCore
<1>5. ASSUME NEW c \in Calls, Peer(c) \/ PeerResponse(c) PROVE Inv'
  <2>1. UNCHANGED <<pc, dcsm, ui>>
    BY <1>5 DEF Peer, PeerInvites, PeerRings, PeerAnswers, PeerRefuses, PeerDisconnects,
                PeerReinvites, PeerRejects, ReinviteTimesOut, PeerResponse, PeerAcks,
                PeerAccepts, DisconnectDone
  <2>2. started' \in {started, started \cup {c}}
    BY <1>5 DEF Peer, PeerInvites, PeerRings, PeerAnswers, PeerRefuses, PeerDisconnects,
                PeerReinvites, PeerRejects, ReinviteTimesOut, PeerResponse, PeerAcks,
                PeerAccepts, DisconnectDone
  <2>3. faults' = faults \/ Fault
    BY <1>5 DEF Peer, PeerInvites, PeerRings, PeerAnswers, PeerRefuses, PeerDisconnects,
                PeerReinvites, PeerRejects, ReinviteTimesOut, PeerResponse, PeerAcks,
                PeerAccepts, DisconnectDone
  <2>4. media' = media \/ (media < MaxMedia /\ media' = media + 1)
    BY <1>5 DEF Peer, PeerInvites, PeerRings, PeerAnswers, PeerRefuses, PeerDisconnects,
                PeerReinvites, PeerRejects, ReinviteTimesOut, PeerResponse, PeerAcks,
                PeerAccepts, DisconnectDone
  <2>5. LoopType'
    BY <2>1 DEF LoopType
  <2>6. Counters'
    BY <2>1, <2>2, <2>3, <2>4, CallsAssumption DEF Counters, Fault
  <2> QED
    BY <1>5, <2>5, <2>6, PeerStep
<1>6. CASE UNCHANGED vars
  <2>1. UNCHANGED <<call, dcsm>> /\ gsmQ' = gsmQ /\ sipQ' = sipQ
    BY <1>6 DEF vars
  <2>2. Core'
    BY <2>1, QueuesCore DEF Core, CoreType
  <2> QED
    BY <1>6, <2>2 DEF vars, SipType, LoopType, Counters
<1> QED
  BY <1>1, <1>2, <1>3, <1>4, <1>5, <1>6 DEF Next

LEMMA InvHolds == Spec => []Inv
BY InvInit, InvStep, PTL DEF Spec

(* The calls, the gate and the queues always have their types (TypeOK):    *)
(* what the handlers of fsmdef post, for however many calls are in the way *)
(* of one another, are messages for calls that exist, and the gate's jobs  *)
(* are run only when it is open and has one.                               *)
THEOREM TypeCorrect == Spec => []TypeOK
<1>1. Inv => TypeOK
  BY DEF Inv, Core, CoreType, SipType, LoopType, Counters, TypeOK, DcsmRecord, SipMessage
<1> QED
  BY <1>1, InvHolds, PTL

(* For any number of calls the gate of dcsm.c waits for exactly the calls  *)
(* that are in the middle of a change, and is closed exactly while there   *)
(* is one (GateMatchesCalls): no path through fsmdef leaves a call behind  *)
(* in call_ids.                                                            *)
THEOREM GateCorrect == Spec => []GateMatchesCalls
<1>1. Inv => GateMatchesCalls
  BY DEF Inv, Core
<1> QED
  BY <1>1, InvHolds, PTL

(* For any number of calls fsmdef_wait_to_start_new_call() keeps two from  *)
(* being dialled, answered, connected or resumed at a time                 *)
(* (OneCallUsesAudio).                                                     *)
THEOREM AudioExclusive == Spec => []OneCallUsesAudio
<1>1. Inv => OneCallUsesAudio
  BY DEF Inv, Core
<1> QED
  BY <1>1, InvHolds, PTL
=============================================================================
