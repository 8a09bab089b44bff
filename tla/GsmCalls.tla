------------------------------ MODULE GsmCalls ------------------------------
(***************************************************************************)
(* Call control of sipcc: the GSM thread with its message queue (gsm.c),   *)
(* the event gate (fim.c, dcsm.c), the call state machine (fsmdef.c) and,  *)
(* as far as call control depends on it, the SIP thread's dialog machine   *)
(* (ccsip_core.c), for a set of calls that share the one audio path.       *)
(*                                                                         *)
(* The GSM thread takes one message at a time and handles it completely;   *)
(* then it runs at most one event that the gate had set aside.  The user   *)
(* interface, the SIP thread and the timer service post to its queue at    *)
(* any time.  The SIP thread has a queue of its own, filled by the GSM     *)
(* thread, and reacts to the peer.  Media descriptions are abstracted to   *)
(* "hold" and "active"; the conference and transfer machines that sit in   *)
(* front of fsmdef have no part in a call they did not start.              *)
(***************************************************************************)
EXTENDS Dcsm, Naturals, FiniteSets, SequencesExt

CONSTANTS
    Calls,            \* the call ids; an id is used for one call
    Start,            \* Start[c]: "new", "connected" or "held" at the start
    Incoming,         \* the new calls that a peer may place
    Ui,               \* Ui[c]: what the user may ask of call c
    MaxUi,            \* how many requests the user makes
    MaxFaults,        \* how many refusals, glares, timeouts and BYEs the peers cause
    MaxMedia          \* how many re-INVITEs the peers send

UiEvents == {"OFFHOOK", "DIALSTRING", "ANSWER", "HOLD", "RESUME", "END_CALL", "UPD_MEDIA_CAP"}

ASSUME CallsAssumption ==
    /\ Calls # {} /\ IsFiniteSet(Calls)
    /\ Start \in [Calls -> {"new", "connected", "held"}]
    /\ Incoming \subseteq Calls
    /\ Ui \in [Calls -> SUBSET UiEvents]
    /\ MaxUi \in Nat /\ MaxFaults \in Nat /\ MaxMedia \in Nat

(* The calls of before obey the rule for the audio path too. *)
ASSUME StartAssumption == \A c, d \in Calls :
    Start[c] = "connected" /\ Start[d] = "connected" => c = d

VARIABLES
    gsmQ,      \* gsm_msg_queue
    sipQ,      \* the SIP thread's queue, call control messages only
    pc,        \* the GSM thread: "get" a message or run the gate's "jobs"
    dcsm,      \* dcsm_cb
    call,      \* the call chain and fsmdef's dcb, by call id
    sip,       \* the SIP thread's ccb, by call id
    started,   \* the call ids in use or used
    ui,        \* requests made by the user
    faults,    \* faults caused by the peers
    media      \* re-INVITEs sent by the peers

vars == <<gsmQ, sipQ, pc, dcsm, call, sip, started, ui, faults, media>>

-----------------------------------------------------------------------------
(* Messages: event, call, source (cc_srcs_t), cause. *)
Events == UiEvents \cup {"SETUP", "PROCEEDING", "ALERTING", "CONNECTED", "CONNECTED_ACK",
    "RELEASE", "RELEASE_COMPLETE", "MEDIA", "HOLD_ACK", "RESUME_ACK", "MEDIA_ACK",
    "REQ_PEND_TIMER_EXP", "ERROR_ONHOOK_TIMER", "ONHOOK"}
Causes == {"ok", "busy", "pending", "error"}
Message == [ev : Events, call : Calls, src : {"UI", "GSM", "SIP"}, cause : Causes]
Msg(ev, c, src, cause) == [ev |-> ev, call |-> c, src |-> src, cause |-> cause]

(* DCSM_EV_READY is sent with a NULL message. *)
NullMessage == [ev |-> "DCSM_EV_READY"]

SipEvents == {"SETUP", "CONNECTED", "CONNECTED_ACK", "RELEASE", "RELEASE_COMPLETE",
    "HOLD", "RESUME", "MEDIA", "MEDIA_ACK"}
ToSip(ev, c) == <<[ev |-> ev, call |-> c]>>

-----------------------------------------------------------------------------
(* fsmdef's states, in the order of the code up to CONNECTING. *)
Dialing == {"COLLECT_INFO", "CALL_SENT", "OUTGOING_PROCEEDING", "OUTGOING_ALERTING"}
CallSent == Dialing \ {"COLLECT_INFO"}
UpToConnecting == {"IDLE", "INCOMING_ALERTING", "CONNECTING"} \cup Dialing
ConnectedStates == {"RESUME_PENDING", "CONNECTED", "CONNECTED_MEDIA_PEND"}
States == UpToConnecting \cup ConnectedStates \cup {"HOLD_PENDING", "HOLDING", "RELEASING"}

(* The states in which a call may be left to its request pending timer.    *)
RetryStates == {"HOLD_PENDING", "RESUME_PENDING"}

(* A call id without a call chain.  "misled" is history: the call waits    *)
(* for a request pending timer that is over, see Misled.                   *)
NoCall == [chain |-> FALSE, st |-> "IDLE", out |-> FALSE, sendRelease |-> FALSE,
           sendComplete |-> FALSE, held |-> FALSE, holdPending |-> FALSE, tmr |-> "off",
           errTmr |-> FALSE, earlyError |-> FALSE, locked |-> FALSE, misled |-> FALSE]

CallRecord == [chain : BOOLEAN, st : States, out : BOOLEAN, sendRelease : BOOLEAN,
               sendComplete : BOOLEAN, held : BOOLEAN, holdPending : BOOLEAN,
               tmr : {"off", "on", "fired"}, errTmr : BOOLEAN, earlyError : BOOLEAN,
               locked : BOOLEAN, misled : BOOLEAN]

(* A call that was answered before the behaviour starts. *)
Answered(held) ==
    [NoCall EXCEPT !.chain = TRUE, !.st = IF held THEN "HOLDING" ELSE "CONNECTED",
                   !.sendRelease = TRUE, !.sendComplete = TRUE, !.held = held]

(* cprIsTimerRunning() *)
TmrRunning(r) == r.tmr # "off"

-----------------------------------------------------------------------------
(***************************************************************************)
(* What a handler does.  x is the GSM thread's situation once the message  *)
(* is taken: [q : rest of the queue, d : the gate].                        *)
(***************************************************************************)
Stay(x, c, r, posts, sends) ==
    /\ call' = [call EXCEPT ![c] = r]
    /\ dcsm' = x.d
    /\ gsmQ' = x.q \o posts
    /\ sipQ' = sipQ \o sends

(* The record of a call that changes to state s. *)
Moved(r, s) == [r EXCEPT !.st = s, !.misled = @ /\ s \in RetryStates]

(* fsm_change_state(), which informs the gate. *)
ChangeState(x, c, r, s, sends) ==
    /\ call' = [call EXCEPT ![c] = Moved(r, s)]
    /\ dcsm' = UpdateGsmState(x.d, c, s, r.sendRelease)
    /\ gsmQ' = IF SendsReady(x.d, c, s, r.sendRelease) THEN Append(x.q, NullMessage) ELSE x.q
    /\ sipQ' = sipQ \o sends

(* To IDLE; the dcb with its timers and the call chain are freed. *)
Free(x, c, sends) == ChangeState(x, c, NoCall, "IDLE", sends)

(* fsmdef_release() *)
Release(x, c, r, sendRelease) ==
    IF sendRelease
    THEN ChangeState(x, c, r, "RELEASING", ToSip("RELEASE", c))
    ELSE Free(x, c, IF r.sendComplete THEN ToSip("RELEASE_COMPLETE", c) ELSE <<>>)

(* fsmdef_wait_to_start_new_call(): the calls in the way of call c. *)
Connected == {k \in Calls : call[k].st \in ConnectedStates}
RingingOrReleasing(c) ==
    {k \in Calls \ {c} : call[k].chain /\ call[k].st \in UpToConnecting \cup {"RELEASING"}}
ToEnd(c) == {k \in RingingOrReleasing(c) : call[k].out}
MustWait(c) ==
    \/ Connected # {}
    \/ ToEnd(c) # {}
    \/ \E k \in RingingOrReleasing(c) : call[k].st = "CONNECTING"

(* Mutant of ClearTheWay: the connected call is not held. *)
ClearTheWayNoHold(c, holdSrc, again) ==
    SetToSeq({Msg("END_CALL", k, "GSM", "ok") : k \in ToEnd(c)}) \o <<again>>

(* It holds or ends those calls and puts its own event behind that. *)
ClearTheWay(c, holdSrc, again) ==
    (IF Connected = {} THEN <<>>
     ELSE <<Msg("HOLD", CHOOSE k \in Connected : TRUE, holdSrc, "ok")>>)
        \o SetToSeq({Msg("END_CALL", k, "GSM", "ok") : k \in ToEnd(c)})
        \o <<again>>

(* fsm_hold_local(), fsm_hold_local_only() *)
HoldLocal(x, c, r, resend) ==
    IF ~resend /\ r.held THEN Stay(x, c, r, <<>>, <<>>)
    ELSE ChangeState(x, c, [r EXCEPT !.held = TRUE], "HOLDING", ToSip("HOLD", c))

HoldLocalOnly(x, c, r) ==
    IF r.held THEN Stay(x, c, r, <<>>, <<>>)
    ELSE ChangeState(x, c, [r EXCEPT !.held = TRUE], "HOLDING", <<>>)

(* fsmdef_transition_to_connected(), the media capabilities being unchanged *)
TransitionToConnected(x, c, r, sends) ==
    ChangeState(x, c, [r EXCEPT !.tmr = "off"], "CONNECTED", sends)

(* The timer of r counts as running, and its expiry has been taken from    *)
(* the queue: a handler that leaves the retry to this timer, because       *)
(* cprIsTimerRunning() tells it so, is misled.                             *)
Misled(x, c, r) ==
    /\ r.tmr = "fired"
    /\ \A i \in 1 .. Len(x.q) : x.q[i] # Msg("REQ_PEND_TIMER_EXP", c, "GSM", "ok")

-----------------------------------------------------------------------------
(***************************************************************************)
(* The handlers of fsmdef's table.  In(m, states, events) is the table's   *)
(* entry: the event is for a call that exists and is in one of the states. *)
(***************************************************************************)
In(m, states, events) ==
    /\ m.ev \in events
    /\ call[m.call].chain /\ call[m.call].st \in states

(* idle_setup: an incoming call, refused when the line is busy. *)
IdleSetup(x, m) ==
    LET r == [NoCall EXCEPT !.chain = TRUE]
    IN /\ m.ev = "SETUP" /\ ~call[m.call].chain
       /\ IF m.cause = "busy"
          THEN Stay(x, m.call, r, <<Msg("END_CALL", m.call, "GSM", "ok")>>, <<>>)
          ELSE ChangeState(x, m.call, [r EXCEPT !.sendRelease = TRUE, !.sendComplete = TRUE],
                           "INCOMING_ALERTING", <<>>)

IdleEndCall(x, m) ==
    LET r == [call[m.call] EXCEPT !.sendRelease = ~call[m.call].out]
    IN /\ In(m, {"IDLE"}, {"END_CALL"})
       /\ Release(x, m.call, r, r.sendRelease)

(* fsmdef_offhook() and its callers idle_offhook, idle_dialstring: a new   *)
(* outgoing call, once nothing else is in the way.                         *)
IdleOffhook(x, m) ==
    LET c == m.call
        r == [NoCall EXCEPT !.chain = TRUE, !.out = TRUE]
    IN /\ m.ev \in {"OFFHOOK", "DIALSTRING"} /\ call[c].st = "IDLE"
       /\ IF MustWait(c)
          THEN Stay(x, c, r, ClearTheWay(c, "GSM", Msg(m.ev, c, "GSM", "ok")), <<>>)
          ELSE IF m.ev = "OFFHOOK"
          THEN ChangeState(x, c, r, "COLLECT_INFO", <<>>)
          ELSE ChangeState(x, c, [r EXCEPT !.sendRelease = TRUE], "CALL_SENT", ToSip("SETUP", c))

Dialstring(x, m) ==
    /\ In(m, {"COLLECT_INFO"}, {"DIALSTRING"})
    /\ ChangeState(x, m.call, [call[m.call] EXCEPT !.sendRelease = TRUE], "CALL_SENT",
                   ToSip("SETUP", m.call))

CollectingInfoEndCall(x, m) ==
    /\ In(m, {"COLLECT_INFO"}, {"END_CALL"})
    /\ Release(x, m.call, call[m.call], FALSE)

Proceeding(x, m) ==
    /\ In(m, {"CALL_SENT"}, {"PROCEEDING"})
    /\ ChangeState(x, m.call, call[m.call], "OUTGOING_PROCEEDING", <<>>)

OutAlerting(x, m) ==
    /\ In(m, CallSent, {"ALERTING"})
    /\ ChangeState(x, m.call, call[m.call], "OUTGOING_ALERTING", <<>>)

(* The peer answered; its media description may be unacceptable. *)
EvConnected(x, m) ==
    /\ In(m, CallSent, {"CONNECTED"})
    /\ IF m.cause = "error"
       THEN Release(x, m.call, call[m.call], TRUE)
       ELSE TransitionToConnected(x, m.call, call[m.call], ToSip("CONNECTED_ACK", m.call))

(* The peer refused: an error is shown until the user or a timer hangs up. *)
CallSentRelease(x, m) ==
    LET r == [call[m.call] EXCEPT !.sendRelease = FALSE, !.sendComplete = TRUE]
    IN /\ In(m, CallSent, {"RELEASE"})
       /\ IF m.cause = "error"
          THEN ChangeState(x, m.call, [r EXCEPT !.earlyError = TRUE, !.errTmr = TRUE],
                           "RELEASING", ToSip("RELEASE_COMPLETE", m.call))
          ELSE Release(x, m.call, r, FALSE)

CallSentEndCall(x, m) ==
    LET r == [call[m.call] EXCEPT !.earlyError = FALSE]
    IN /\ In(m, CallSent, {"END_CALL"})
       /\ Release(x, m.call, r, r.sendRelease)

(* Mutant of Answer: only a connected call is waited for. *)
AnswerConnectedOnly(x, m) ==
    LET c == m.call
    IN /\ In(m, {"INCOMING_ALERTING"}, {"ANSWER"})
       /\ IF \E k \in Calls : call[k].st = "CONNECTED"
          THEN Stay(x, c, call[c], ClearTheWay(c, "GSM", Msg("ANSWER", c, "GSM", "ok")), <<>>)
          ELSE ChangeState(x, c, call[c], "CONNECTING", ToSip("CONNECTED", c))

(* inalerting_feature and handle_inalerting_offhook_answer *)
Answer(x, m) ==
    LET c == m.call
    IN /\ In(m, {"INCOMING_ALERTING"}, {"ANSWER"})
       /\ IF MustWait(c)
          THEN Stay(x, c, call[c], ClearTheWay(c, "GSM", Msg("ANSWER", c, "GSM", "ok")), <<>>)
          ELSE ChangeState(x, c, call[c], "CONNECTING", ToSip("CONNECTED", c))

ConnectedAck(x, m) ==
    /\ In(m, {"CONNECTING"}, {"CONNECTED_ACK"})
    /\ TransitionToConnected(x, m.call, call[m.call], <<>>)

(* The END_CALL case of every state with a dialog: fsmdef_release_call(). *)
EndCall(x, m) ==
    LET r == [call[m.call] EXCEPT !.locked = FALSE]
    IN /\ In(m, {"INCOMING_ALERTING", "CONNECTING", "HOLD_PENDING", "HOLDING"}
                    \cup ConnectedStates, {"END_CALL"})
       /\ Release(x, m.call, r, r.sendRelease)

(* ev_release, holding_release: the dialog ended. *)
EvRelease(x, m) ==
    LET r == [call[m.call] EXCEPT !.sendRelease = FALSE, !.sendComplete = TRUE]
    IN /\ In(m, {"INCOMING_ALERTING", "CONNECTING", "HOLD_PENDING", "HOLDING"}
                    \cup ConnectedStates, {"RELEASE"})
       /\ Release(x, m.call, r, FALSE)

(* Mutant of RemoteMedia: a re-INVITE of a held call is not answered. *)
RemoteMediaNotHeld(x, m) ==
    /\ In(m, {"HOLD_PENDING", "HOLDING"} \cup ConnectedStates, {"MEDIA"})
    /\ Stay(x, m.call, call[m.call], <<>>,
            IF call[m.call].held THEN <<>> ELSE ToSip("MEDIA_ACK", m.call))

(* fsmdef_remote_media(): the peer's re-INVITE is answered. *)
RemoteMedia(x, m) ==
    /\ In(m, {"HOLD_PENDING", "HOLDING"} \cup ConnectedStates, {"MEDIA"})
    /\ Stay(x, m.call, call[m.call], <<>>, ToSip("MEDIA_ACK", m.call))

ConnectedHold(x, m) ==
    /\ In(m, {"CONNECTED"}, {"HOLD"})
    /\ HoldLocal(x, m.call, call[m.call], FALSE)

(* The user changes the media: a re-INVITE of our own. *)
UpdMediaCap(x, m) ==
    /\ In(m, {"CONNECTED"}, {"UPD_MEDIA_CAP"})
    /\ ChangeState(x, m.call, [call[m.call] EXCEPT !.tmr = "off"], "CONNECTED_MEDIA_PEND",
                   ToSip("MEDIA", m.call))

(* fsm_connected_media_pend_local_hold(): wait for the re-INVITE's outcome, *)
(* or for the timer of its glare.                                           *)
MediaPendHold(x, m) ==
    LET r == call[m.call]
    IN /\ In(m, {"CONNECTED_MEDIA_PEND"}, {"HOLD"})
       /\ CASE r.held -> Stay(x, m.call, r, <<>>, <<>>)
            [] ~r.held /\ TmrRunning(r) ->
                   ChangeState(x, m.call, [r EXCEPT !.holdPending = FALSE,
                                                    !.misled = Misled(x, m.call, r)],
                               "HOLD_PENDING", <<>>)
            [] OTHER -> Stay(x, m.call, [r EXCEPT !.holdPending = TRUE], <<>>, <<>>)

MediaPendTimerExp(x, m) ==
    LET r == call[m.call]
    IN /\ In(m, {"CONNECTED_MEDIA_PEND"}, {"REQ_PEND_TIMER_EXP"})
       /\ IF r.holdPending
          THEN HoldLocal(x, m.call, [r EXCEPT !.holdPending = FALSE], FALSE)
          ELSE Stay(x, m.call, r, <<>>, ToSip("MEDIA", m.call))

(* connected_media_pend_feature_ack *)
MediaPendAck(x, m) ==
    LET r == call[m.call]
        notPending == [r EXCEPT !.holdPending = FALSE]
    IN /\ In(m, {"CONNECTED_MEDIA_PEND"}, {"MEDIA_ACK"})
       /\ CASE m.cause = "pending" ->
                   IF r.holdPending
                   THEN ChangeState(x, m.call, [notPending EXCEPT !.tmr = "on"], "HOLD_PENDING", <<>>)
                   ELSE Stay(x, m.call, [r EXCEPT !.tmr = "on"], <<>>, <<>>)
            [] m.cause = "error" -> Release(x, m.call, r, r.sendRelease)
            [] OTHER -> IF r.holdPending
                        THEN HoldLocal(x, m.call, notPending, FALSE)
                        ELSE TransitionToConnected(x, m.call, r, <<>>)

(* hold_pending_feature: the glare is over, HOLD is sent (again). *)
HoldPendingTimerExp(x, m) ==
    /\ In(m, {"HOLD_PENDING"}, {"REQ_PEND_TIMER_EXP"})
    /\ HoldLocal(x, m.call, call[m.call], TRUE)

(* hold_pending_feature_ack: the outcome of a RESUME that was overtaken by a hold. *)
HoldPendingAck(x, m) ==
    LET r == call[m.call]
    IN /\ In(m, {"HOLD_PENDING"}, {"RESUME_ACK"})
       /\ CASE m.cause = "pending" -> HoldLocalOnly(x, m.call, r)
            [] m.cause = "error" -> Release(x, m.call, r, r.sendRelease)
            [] OTHER -> HoldLocal(x, m.call, r, FALSE)

HoldingHold(x, m) ==
    /\ In(m, {"HOLDING"}, {"HOLD"})
    /\ HoldLocal(x, m.call, call[m.call], FALSE)

(* fsmdef_resume() *)
Resume(x, m) ==
    LET c == m.call
        r == call[c]
    IN /\ In(m, {"HOLDING"}, {"RESUME"})
       /\ CASE ~r.held -> Stay(x, c, r, <<>>, <<>>)
            [] r.held /\ MustWait(c) ->
                   Stay(x, c, r, ClearTheWay(c, m.src, Msg("RESUME", c, m.src, "ok")), <<>>)
            [] OTHER -> ChangeState(x, c, [r EXCEPT !.held = FALSE, !.locked = TRUE,
                                                    !.misled = Misled(x, c, r)],
                                    "RESUME_PENDING",
                                    IF TmrRunning(r) THEN <<>> ELSE ToSip("RESUME", c))

(* Mutant of HoldingAck: no timer is started for the glare. *)
HoldingAckNoTimer(x, m) ==
    LET r == call[m.call]
    IN /\ In(m, {"HOLDING"}, {"HOLD_ACK"})
       /\ CASE m.cause = "pending" -> ChangeState(x, m.call, r, "HOLD_PENDING", <<>>)
            [] m.cause = "error" -> Release(x, m.call, r, r.sendRelease)
            [] OTHER -> Stay(x, m.call, r, <<>>, <<>>)

(* holding_feature_ack *)
HoldingAck(x, m) ==
    LET r == call[m.call]
    IN /\ In(m, {"HOLDING"}, {"HOLD_ACK"})
       /\ CASE m.cause = "pending" ->
                   ChangeState(x, m.call, [r EXCEPT !.tmr = "on"], "HOLD_PENDING", <<>>)
            [] m.cause = "error" -> Release(x, m.call, r, r.sendRelease)
            [] OTHER -> Stay(x, m.call, r, <<>>, <<>>)

(* resume_pending_feature, HOLD from the user or for the user's RESUME of  *)
(* another call: HOLD cannot be sent before the outcome of RESUME is known.*)
ResumePendingHold(x, m) ==
    LET r == [call[m.call] EXCEPT !.locked = FALSE]
    IN /\ In(m, {"RESUME_PENDING"}, {"HOLD"}) /\ m.src = "UI"
       /\ IF TmrRunning(r)
          THEN HoldLocalOnly(x, m.call, [r EXCEPT !.tmr = "off"])
          ELSE ChangeState(x, m.call, r, "HOLD_PENDING", <<>>)

(* The same, HOLD being posted by call control itself. *)
ResumePendingGsmHold(x, m) ==
    LET r == [call[m.call] EXCEPT !.locked = FALSE]
    IN /\ In(m, {"RESUME_PENDING"}, {"HOLD"}) /\ m.src = "GSM"
       /\ HoldLocalOnly(x, m.call, r)

ResumePendingTimerExp(x, m) ==
    /\ In(m, {"RESUME_PENDING"}, {"REQ_PEND_TIMER_EXP"})
    /\ Stay(x, m.call, [call[m.call] EXCEPT !.locked = TRUE], <<>>, ToSip("RESUME", m.call))

(* resume_pending_feature_ack, of the HOLD that came before the RESUME. *)
ResumePendingHoldAck(x, m) ==
    LET r == call[m.call]
    IN /\ In(m, {"RESUME_PENDING"}, {"HOLD_ACK"})
       /\ CASE m.cause = "pending" -> ChangeState(x, m.call, r, "CONNECTED", <<>>)
            [] m.cause = "error" -> Release(x, m.call, r, r.sendRelease)
            [] OTHER -> Stay(x, m.call, r, <<>>, <<>>)

ResumePendingAck(x, m) ==
    LET r == call[m.call]
        unlocked == [r EXCEPT !.locked = FALSE]
    IN /\ In(m, {"RESUME_PENDING"}, {"RESUME_ACK"})
       /\ CASE m.cause = "pending" -> Stay(x, m.call, [r EXCEPT !.tmr = "on"], <<>>, <<>>)
            [] m.cause = "error" -> Release(x, m.call, unlocked, r.sendRelease)
            [] OTHER -> TransitionToConnected(x, m.call, unlocked, <<>>)

(* releasing_release, release_complete: not while an early error is shown. *)
ReleasingRelease(x, m) ==
    /\ In(m, {"RELEASING"}, {"RELEASE"})
    /\ IF call[m.call].earlyError
       THEN Stay(x, m.call, call[m.call], <<>>, <<>>)
       ELSE Free(x, m.call, ToSip("RELEASE_COMPLETE", m.call))

ReleaseComplete(x, m) ==
    /\ In(m, {"IDLE", "RELEASING"}, {"RELEASE_COMPLETE"})
    /\ IF call[m.call].earlyError
       THEN Stay(x, m.call, call[m.call], <<>>, <<>>)
       ELSE Free(x, m.call, <<>>)

(* releasing_feature, releasing_onhook *)
ReleasingEndCall(x, m) ==
    /\ In(m, {"RELEASING"}, {"END_CALL", "ONHOOK"})
    /\ Release(x, m.call, call[m.call], FALSE)

(* fsmdef_error_onhook_timeout() *)
ErrorOnhookTimeout(x, m) ==
    /\ m.ev = "ERROR_ONHOOK_TIMER" /\ call[m.call].chain
    /\ Stay(x, m.call, call[m.call], <<Msg("ONHOOK", m.call, "GSM", "ok")>>, <<>>)

Fsmdef(x, m) ==
    \/ IdleSetup(x, m) \/ IdleEndCall(x, m) \/ IdleOffhook(x, m) \/ Dialstring(x, m)
    \/ CollectingInfoEndCall(x, m) \/ Proceeding(x, m) \/ OutAlerting(x, m)
    \/ EvConnected(x, m) \/ CallSentRelease(x, m) \/ CallSentEndCall(x, m)
    \/ Answer(x, m) \/ ConnectedAck(x, m) \/ EndCall(x, m) \/ EvRelease(x, m)
    \/ RemoteMedia(x, m) \/ ConnectedHold(x, m) \/ UpdMediaCap(x, m)
    \/ MediaPendHold(x, m) \/ MediaPendTimerExp(x, m) \/ MediaPendAck(x, m)
    \/ HoldPendingTimerExp(x, m) \/ HoldPendingAck(x, m)
    \/ HoldingHold(x, m) \/ Resume(x, m) \/ HoldingAck(x, m)
    \/ ResumePendingHold(x, m) \/ ResumePendingGsmHold(x, m) \/ ResumePendingTimerExp(x, m)
    \/ ResumePendingHoldAck(x, m) \/ ResumePendingAck(x, m)
    \/ ReleasingRelease(x, m) \/ ReleaseComplete(x, m) \/ ReleasingEndCall(x, m)
    \/ ErrorOnhookTimeout(x, m)

(* The state and event pairs with one of these handlers. *)
HasHandler(st, ev) ==
    \/ st = "IDLE" /\ ev \in {"SETUP", "END_CALL", "OFFHOOK", "DIALSTRING", "RELEASE_COMPLETE"}
    \/ st = "COLLECT_INFO" /\ ev \in {"DIALSTRING", "END_CALL"}
    \/ st = "CALL_SENT" /\ ev = "PROCEEDING"
    \/ st \in CallSent /\ ev \in {"ALERTING", "CONNECTED", "RELEASE", "END_CALL"}
    \/ st = "INCOMING_ALERTING" /\ ev \in {"ANSWER", "END_CALL", "RELEASE"}
    \/ st = "CONNECTING" /\ ev \in {"CONNECTED_ACK", "END_CALL", "RELEASE"}
    \/ st \in {"HOLD_PENDING", "HOLDING"} \cup ConnectedStates
          /\ ev \in {"END_CALL", "RELEASE", "MEDIA"}
    \/ st = "CONNECTED" /\ ev \in {"HOLD", "UPD_MEDIA_CAP"}
    \/ st = "CONNECTED_MEDIA_PEND" /\ ev \in {"HOLD", "REQ_PEND_TIMER_EXP", "MEDIA_ACK"}
    \/ st = "HOLD_PENDING" /\ ev \in {"REQ_PEND_TIMER_EXP", "RESUME_ACK"}
    \/ st = "HOLDING" /\ ev \in {"HOLD", "RESUME", "HOLD_ACK"}
    \/ st = "RESUME_PENDING"
          /\ ev \in {"HOLD", "REQ_PEND_TIMER_EXP", "HOLD_ACK", "RESUME_ACK"}
    \/ st = "RELEASING" /\ ev \in {"RELEASE", "RELEASE_COMPLETE", "END_CALL", "ONHOOK"}
    \/ ev = "ERROR_ONHOOK_TIMER"

(* fsm_event_filtered_by_ui_lock() *)
FilteredByUiLock(m) ==
    /\ call[m.call].locked /\ m.src = "UI"
    /\ m.ev \notin {"END_CALL", "RESUME", "HOLD"}

(* The events that get a new call chain. *)
StartsCall(m) == m.ev \in {"SETUP", "OFFHOOK", "DIALSTRING"}

(***************************************************************************)
(* fim_process_event(): set aside, dropped, or handled by fsmdef.          *)
(***************************************************************************)
FimProcessEvent(x, m) ==
    LET dropped == \/ ~call[m.call].chain /\ ~StartsCall(m)
                   \/ FilteredByUiLock(m)
                   \/ ~HasHandler(call[m.call].st, m.ev)
    IN \/ /\ Defers(x.d, m.ev)
          /\ dcsm' = AddEvent(x.d, m) /\ gsmQ' = x.q
          /\ UNCHANGED <<call, sipQ>>
       \/ /\ ~Defers(x.d, m.ev) /\ dropped
          /\ dcsm' = x.d /\ gsmQ' = x.q
          /\ UNCHANGED <<call, sipQ>>
       \/ ~Defers(x.d, m.ev) /\ ~dropped /\ Fsmdef(x, m)

(* Mutant of GsmGetMessage: jobs are run whatever the gate's state. *)
GsmGetMessageAnyState ==
    /\ pc = "get" /\ gsmQ # <<>> /\ Head(gsmQ) # NullMessage
    /\ FimProcessEvent([q |-> Tail(gsmQ), d |-> dcsm], Head(gsmQ))
    /\ pc' = IF dcsm'.q # <<>> THEN "jobs" ELSE "get"
    /\ UNCHANGED <<sip, started, ui, faults, media>>

(* GSMTask(): a message is handled, then the gate's jobs; a NULL message   *)
(* is neither handled nor followed by the jobs.                            *)
GsmGetMessage ==
    /\ pc = "get" /\ gsmQ # <<>> /\ Head(gsmQ) # NullMessage
    /\ FimProcessEvent([q |-> Tail(gsmQ), d |-> dcsm], Head(gsmQ))
    /\ pc' = IF HasReadyJob(dcsm') THEN "jobs" ELSE "get"
    /\ UNCHANGED <<sip, started, ui, faults, media>>

GsmGetNull ==
    /\ pc = "get" /\ gsmQ # <<>> /\ Head(gsmQ) = NullMessage
    /\ gsmQ' = Tail(gsmQ)
    /\ UNCHANGED <<sipQ, pc, dcsm, call, sip, started, ui, faults, media>>

(* dcsm_process_jobs(): one event that was set aside. *)
DcsmProcessJobs ==
    /\ pc = "jobs"
    /\ FimProcessEvent([q |-> gsmQ, d |-> WithoutFirst(dcsm)], Head(dcsm.q))
    /\ pc' = "get"
    /\ UNCHANGED <<sip, started, ui, faults, media>>

-----------------------------------------------------------------------------
(***************************************************************************)
(* The user interface.                                                     *)
(***************************************************************************)
UiRequest(c) == \E ev \in Ui[c] :
    /\ ui < MaxUi
    /\ ev = "OFFHOOK" <=> c \notin started
    /\ gsmQ' = Append(gsmQ, Msg(ev, c, "UI", "ok"))
    /\ ui' = ui + 1
    /\ started' = started \cup {c}
    /\ UNCHANGED <<sipQ, pc, dcsm, call, sip, faults, media>>

(***************************************************************************)
(* The timer service: the request pending timer and the error timer.       *)
(***************************************************************************)
ReqPendingTimerExpires(c) ==
    /\ call[c].tmr = "on"
    /\ gsmQ' = Append(gsmQ, Msg("REQ_PEND_TIMER_EXP", c, "GSM", "ok"))
    /\ call' = [call EXCEPT ![c].tmr = "fired"]
    /\ UNCHANGED <<sipQ, pc, dcsm, sip, started, ui, faults, media>>

(* The service posts the expiry first and clears timerActive after that    *)
(* (see CprTimers, "deactivate"): in between the GSM thread may handle the *)
(* expiry and later events and still read the timer as running.            *)
TimerDeactivated(c) ==
    /\ call[c].tmr = "fired"
    /\ call' = [call EXCEPT ![c].tmr = "off"]
    /\ UNCHANGED <<gsmQ, sipQ, pc, dcsm, sip, started, ui, faults, media>>

ErrorOnhookTimerExpires(c) ==
    /\ call[c].errTmr
    /\ gsmQ' = Append(gsmQ, Msg("ERROR_ONHOOK_TIMER", c, "GSM", "ok"))
    /\ call' = [call EXCEPT ![c].errTmr = FALSE]
    /\ UNCHANGED <<sipQ, pc, dcsm, sip, started, ui, faults, media>>

-----------------------------------------------------------------------------
(***************************************************************************)
(* The SIP thread.  sip[c] is the ccb: its state, the feature of its       *)
(* re-INVITE, whether the far end rang, and what the peer last agreed to.  *)
(* The RECV_INVITE states up to the answer are one.                        *)
(***************************************************************************)
SipStates == {"IDLE", "SENT_INVITE", "SENT_INVITE_CONNECTED", "RECV_INVITE",
    "RECV_INVITE_CONNECTED", "ACTIVE", "SENT_MIDCALL_INVITE", "CCFEATUREACK_PENDING",
    "SIPACK_PENDING", "RELEASE", "RELEASE_BYE_SENT", "CLEANED_UP"}
SipRecord == [st : SipStates, feature : {"HOLD", "RESUME", "MEDIA"}, rang : BOOLEAN,
              peer : {"active", "hold"}]
NoDialog == [st |-> "IDLE", feature |-> "MEDIA", rang |-> FALSE, peer |-> "active"]

Established == {"ACTIVE", "SENT_MIDCALL_INVITE", "CCFEATUREACK_PENDING", "SIPACK_PENDING"}

SipTo(c, st, posts) ==
    /\ sip' = [sip EXCEPT ![c].st = st]
    /\ gsmQ' = gsmQ \o posts

Post(ev, c, cause) == <<Msg(ev, c, "SIP", cause)>>

AckOf(feature) == CASE feature = "HOLD" -> "HOLD_ACK" [] feature = "RESUME" -> "RESUME_ACK"
                    [] OTHER -> "MEDIA_ACK"

(* HOLD, RESUME and MEDIA: a re-INVITE, unless one is under way. *)
SipFeature(c, feature) ==
    LET st == sip[c].st
        ack(cause) == Post(AckOf(feature), c, cause)
    IN \/ /\ st = "ACTIVE"
          /\ sip' = [sip EXCEPT ![c].st = "SENT_MIDCALL_INVITE", ![c].feature = feature]
          /\ UNCHANGED gsmQ
       \/ /\ st \in {"SENT_MIDCALL_INVITE", "CCFEATUREACK_PENDING", "SIPACK_PENDING"}
          /\ SipTo(c, st, ack("pending"))
       \/ st \in {"RELEASE", "RELEASE_BYE_SENT"} /\ SipTo(c, st, ack("error"))
       \/ st = "CLEANED_UP" /\ SipTo(c, st, Post("RELEASE", c, "error"))

(* RELEASE: the disconnect handlers answer call control at once. *)
SipRelease(c) ==
    LET st == sip[c].st
        complete == Post("RELEASE_COMPLETE", c, "ok")
    IN \/ st = "SENT_MIDCALL_INVITE" /\ SipTo(c, "RELEASE_BYE_SENT", Post("RELEASE", c, "error"))
       \/ /\ st \in (Established \cup {"SENT_INVITE", "SENT_INVITE_CONNECTED", "RECV_INVITE",
                                       "RECV_INVITE_CONNECTED"}) \ {"SENT_MIDCALL_INVITE"}
          /\ SipTo(c, "RELEASE_BYE_SENT", complete)
       \/ st \in {"RELEASE", "RELEASE_BYE_SENT", "CLEANED_UP"} /\ SipTo(c, "CLEANED_UP", complete)

SipReleaseComplete(c) ==
    \/ sip[c].st \in {"RELEASE", "RELEASE_BYE_SENT"} /\ SipTo(c, "CLEANED_UP", <<>>)
    \/ sip[c].st = "CLEANED_UP" /\ SipTo(c, "CLEANED_UP", Post("RELEASE", c, "error"))

(* The answers of call control, each expected in one state only. *)
SipAnswer(c, ev) ==
    LET next == [st \in SipStates |->
            CASE ev = "SETUP" /\ st = "IDLE" -> "SENT_INVITE"
              [] ev = "CONNECTED" /\ st = "RECV_INVITE" -> "RECV_INVITE_CONNECTED"
              [] ev = "CONNECTED_ACK" /\ st = "SENT_INVITE_CONNECTED" -> "ACTIVE"
              [] ev = "MEDIA_ACK" /\ st = "CCFEATUREACK_PENDING" -> "SIPACK_PENDING"
              [] OTHER -> st]
    IN /\ ev \in {"SETUP", "CONNECTED", "CONNECTED_ACK", "MEDIA_ACK"}
       /\ SipTo(c, next[sip[c].st],
                IF sip[c].st = "CLEANED_UP" THEN Post("RELEASE", c, "error") ELSE <<>>)

(* sip_sm_process_cc_event() *)
SipProcessCcEvent ==
    /\ sipQ # <<>> /\ sipQ' = Tail(sipQ)
    /\ LET c == Head(sipQ).call
           ev == Head(sipQ).ev
       IN \/ ev \in {"HOLD", "RESUME", "MEDIA"} /\ SipFeature(c, ev)
          \/ ev = "RELEASE" /\ SipRelease(c)
          \/ ev = "RELEASE_COMPLETE" /\ SipReleaseComplete(c)
          \/ SipAnswer(c, ev)
    /\ UNCHANGED <<pc, dcsm, call, started, ui, faults, media>>

(***************************************************************************)
(* The peers.                                                              *)
(***************************************************************************)
Fault == faults < MaxFaults /\ faults' = faults + 1

(* A new call, for which the line may be busy. *)
PeerInvites(c) == \E cause \in {"ok", "busy"} :
    /\ c \in Incoming \ started /\ started' = started \cup {c}
    /\ IF cause = "busy" THEN Fault ELSE UNCHANGED faults
    /\ SipTo(c, "RECV_INVITE", Post("SETUP", c, cause))
    /\ UNCHANGED <<sipQ, pc, dcsm, call, ui, media>>

PeerRings(c) == \E ev \in {"PROCEEDING", "ALERTING"} :
    /\ sip[c].st = "SENT_INVITE" /\ ~sip[c].rang
    /\ sip' = [sip EXCEPT ![c].rang = TRUE]
    /\ gsmQ' = gsmQ \o Post(ev, c, "ok")
    /\ UNCHANGED <<sipQ, pc, dcsm, call, started, ui, faults, media>>

(* 2xx to our INVITE, with a description we may have to refuse. *)
PeerAnswers(c) == \E cause \in {"ok", "error"} :
    /\ sip[c].st = "SENT_INVITE"
    /\ IF cause = "error" THEN Fault ELSE UNCHANGED faults
    /\ SipTo(c, "SENT_INVITE_CONNECTED", Post("CONNECTED", c, cause))
    /\ UNCHANGED <<sipQ, pc, dcsm, call, started, ui, media>>

(* A failure response to our INVITE. *)
PeerRefuses(c) == \E cause \in {"ok", "error"} :
    /\ sip[c].st = "SENT_INVITE" /\ Fault
    /\ SipTo(c, "RELEASE", Post("RELEASE", c, cause))
    /\ UNCHANGED <<sipQ, pc, dcsm, call, started, ui, media>>

(* ACK to our 200 OK. *)
PeerAcks(c) ==
    /\ \/ sip[c].st = "RECV_INVITE_CONNECTED" /\ SipTo(c, "ACTIVE", Post("CONNECTED_ACK", c, "ok"))
       \/ sip[c].st = "SIPACK_PENDING" /\ SipTo(c, "ACTIVE", <<>>)
    /\ UNCHANGED <<sipQ, pc, dcsm, call, started, ui, faults, media>>

(* BYE, or CANCEL of an INVITE that is not answered: disconnect_remote. *)
PeerDisconnects(c) ==
    /\ sip[c].st \in Established \cup {"RECV_INVITE", "RECV_INVITE_CONNECTED"} /\ Fault
    /\ SipTo(c, "RELEASE", Post("RELEASE", c, "ok"))
    /\ UNCHANGED <<sipQ, pc, dcsm, call, started, ui, media>>

(* A re-INVITE; while ours is under way it is refused without a change. *)
PeerReinvites(c) ==
    /\ sip[c].st = "ACTIVE" /\ media < MaxMedia /\ media' = media + 1
    /\ SipTo(c, "CCFEATUREACK_PENDING", Post("MEDIA", c, "ok"))
    /\ UNCHANGED <<sipQ, pc, dcsm, call, started, ui, faults>>

(* The outcome of our re-INVITE: accepted, ... *)
PeerAccepts(c) ==
    LET feature == sip[c].feature
    IN /\ sip[c].st = "SENT_MIDCALL_INVITE"
       /\ sip' = [sip EXCEPT ![c].st = "ACTIVE",
                             ![c].peer = IF feature = "HOLD" THEN "hold" ELSE "active"]
       /\ gsmQ' = gsmQ \o Post(AckOf(feature), c, "ok")
       /\ UNCHANGED <<sipQ, pc, dcsm, call, started, ui, faults, media>>

(* ... refused, for glare (491) or another reason, ... *)
PeerRejects(c) == \E cause \in {"pending", "error"} :
    /\ sip[c].st = "SENT_MIDCALL_INVITE" /\ Fault
    /\ SipTo(c, "ACTIVE", Post(AckOf(sip[c].feature), c, cause))
    /\ UNCHANGED <<sipQ, pc, dcsm, call, started, ui, media>>

(* ... or never answered. *)
ReinviteTimesOut(c) ==
    /\ sip[c].st = "SENT_MIDCALL_INVITE" /\ Fault
    /\ SipTo(c, "RELEASE", Post(AckOf(sip[c].feature), c, "error") \o Post("RELEASE", c, "error"))
    /\ UNCHANGED <<sipQ, pc, dcsm, call, started, ui, media>>

(* The response to our BYE, CANCEL or refusal, or the supervision timer. *)
DisconnectDone(c) ==
    /\ sip[c].st = "RELEASE_BYE_SENT"
    /\ SipTo(c, "CLEANED_UP", Post("RELEASE_COMPLETE", c, "ok"))
    /\ UNCHANGED <<sipQ, pc, dcsm, call, started, ui, faults, media>>

-----------------------------------------------------------------------------
Init ==
    /\ gsmQ = <<>> /\ sipQ = <<>> /\ pc = "get" /\ dcsm = DcsmInit
    /\ call = [c \in Calls |-> IF Start[c] = "new" THEN NoCall ELSE Answered(Start[c] = "held")]
    /\ sip = [c \in Calls |-> IF Start[c] = "new" THEN NoDialog
                              ELSE [NoDialog EXCEPT !.st = "ACTIVE",
                                    !.peer = IF Start[c] = "held" THEN "hold" ELSE "active"]]
    /\ started = {c \in Calls : Start[c] # "new"}
    /\ ui = 0 /\ faults = 0 /\ media = 0

GsmThread == GsmGetMessage \/ GsmGetNull \/ DcsmProcessJobs

TimerService(c) ==
    ReqPendingTimerExpires(c) \/ TimerDeactivated(c) \/ ErrorOnhookTimerExpires(c)

Peer(c) ==
    \/ PeerInvites(c) \/ PeerRings(c) \/ PeerAnswers(c) \/ PeerRefuses(c) \/ PeerDisconnects(c)
    \/ PeerReinvites(c) \/ PeerRejects(c) \/ ReinviteTimesOut(c)

(* What the SIP transactions' own timers bring about if the peer does not. *)
PeerResponse(c) == PeerAcks(c) \/ PeerAccepts(c) \/ DisconnectDone(c)

Next ==
    \/ GsmThread \/ SipProcessCcEvent
    \/ \E c \in Calls : UiRequest(c) \/ TimerService(c) \/ Peer(c) \/ PeerResponse(c)

Fairness ==
    /\ WF_vars(GsmThread) /\ WF_vars(SipProcessCcEvent)
    /\ \A c \in Calls : WF_vars(TimerService(c)) /\ WF_vars(PeerResponse(c))

Spec == Init /\ [][Next]_vars
FairSpec == Spec /\ Fairness
-----------------------------------------------------------------------------
(* The calls, the gate and the queues have their types. *)
TypeOK ==
    /\ call \in [Calls -> CallRecord]
    /\ sip \in [Calls -> SipRecord]
    /\ pc \in {"get", "jobs"} /\ (pc = "jobs" => HasReadyJob(dcsm))
    /\ dcsm \in [state : {"READY", "WAITING"}, ids : SUBSET Calls, q : Seq(Message)]
    /\ gsmQ \in Seq(Message \cup {NullMessage})
    /\ sipQ \in Seq([ev : SipEvents, call : Calls])
    /\ started \subseteq Calls
    /\ ui \in 0 .. MaxUi /\ faults \in 0 .. MaxFaults /\ media \in 0 .. MaxMedia

(***************************************************************************)
(* One call has the audio path: at most one is being dialled, answered,    *)
(* connected or resumed, whatever the order of the events.  This is what   *)
(* fsmdef_wait_to_start_new_call() is for.                                 *)
(***************************************************************************)
UsesAudio(c) == call[c].st \in Dialing \cup {"CONNECTING"} \cup ConnectedStates
OneCallUsesAudio == \A c, d \in Calls : UsesAudio(c) /\ UsesAudio(d) => c = d

(***************************************************************************)
(* The gate waits for exactly the calls that are in the middle of a        *)
(* change, and is open when there are none: no call is left in call_ids    *)
(* when it is freed, and none is forgotten.                                *)
(***************************************************************************)
GateMatchesCalls ==
    /\ dcsm.ids = {c \in Calls : Pending(call[c].st, call[c].sendRelease)}
    /\ dcsm.state = "WAITING" <=> dcsm.ids # {}

(***************************************************************************)
(* A call that waits should have something to wake it: the request timer,  *)
(* its expiry message, a request on its way to the SIP thread, a           *)
(* transaction of the SIP thread, or the answer in the queue.              *)
(***************************************************************************)
Queued(c, evs) == \E i \in 1 .. Len(gsmQ) :
    gsmQ[i] # NullMessage /\ gsmQ[i].call = c /\ gsmQ[i].ev \in evs
Sent(c, evs) == \E i \in 1 .. Len(sipQ) : sipQ[i].call = c /\ sipQ[i].ev \in evs
Asked(c, feature) ==
    \/ Sent(c, {feature}) \/ Queued(c, {AckOf(feature)})
    \/ sip[c].st = "SENT_MIDCALL_INVITE" /\ sip[c].feature = feature
Retry(c) == call[c].tmr = "on" \/ Queued(c, {"REQ_PEND_TIMER_EXP"})
Ending(c) == Queued(c, {"RELEASE"})

CanWake(c) ==
    /\ call[c].st \in RetryStates => Retry(c) \/ Asked(c, "RESUME") \/ Ending(c)
    /\ call[c].st = "CONNECTED_MEDIA_PEND" => Retry(c) \/ Asked(c, "MEDIA") \/ Ending(c)

(* What the comments of fsmdef_resume() and                                *)
(* fsm_connected_media_pend_local_hold() take for granted: when the        *)
(* request timer is running, the request is going to be sent again.        *)
WaitingCallWakes == \A c \in Calls : CanWake(c)

(* What the code guarantees: a call that waits has something to wake it,   *)
(* unless one of these two functions was misled about the timer.           *)
WakesUnlessMisled == \A c \in Calls : call[c].misled \/ CanWake(c)

(***************************************************************************)
(* A re-INVITE of the peer is answered: while the SIP thread waits for     *)
(* call control's answer, the request or the answer is in a queue, or the  *)
(* call is being released.                                                 *)
(***************************************************************************)
ReinviteIsAnswered == \A c \in Calls :
    sip[c].st = "CCFEATUREACK_PENDING" =>
        \/ Queued(c, {"MEDIA"}) \/ Sent(c, {"MEDIA_ACK", "RELEASE"})

(***************************************************************************)
(* A pending state is left again, so the gate opens again, unless the call *)
(* was misled about its request timer: nothing need ever wake it then.     *)
(***************************************************************************)
PendingEnds == \A c \in Calls :
    Pending(call[c].st, call[c].sendRelease)
        ~> call[c].misled \/ ~Pending(call[c].st, call[c].sendRelease)

(***************************************************************************)
(* The GSM thread comes to rest.  A request that finds another call in its *)
(* way posts itself again and again, in ClearTheWay; the calls it waits    *)
(* for must get out of its way in the end.                                 *)
(***************************************************************************)
QueueDrains == []<>(gsmQ = <<>>)

(* Events that were set aside are run once the gate is open. *)
DeferredEventsRun == []<>(dcsm.q = <<>>)
=============================================================================
