------------------------------- MODULE RegMgr -------------------------------
(***************************************************************************)
(* Registration with a list of call managers: ccsip_register.c (the state  *)
(* machine of one REGISTER dialog) and sip_common_regmgr.c (active and     *)
(* standby call manager, failover, monitoring of failed call managers and  *)
(* fallback), with the application side of failover and fallback in        *)
(* ccprovider.c.                                                           *)
(*                                                                         *)
(* Two threads.  The SIP thread owns the record sip: it takes one message  *)
(* at a time from its queue sip.q, or a response from the network, and     *)
(* runs the handler to the end.  Handlers call one another, so the code's  *)
(* procedures are operators from record to record.  The application thread *)
(* takes its messages from sip.appq and answers into sip.q.  Timers post   *)
(* an expiry message; cancelling a timer does not take back a message that *)
(* is already queued.                                                      *)
(*                                                                         *)
(* The transport is UDP, as config_parser.c sets it.  One line is          *)
(* configured, as everywhere in this program (line_end = 1).               *)
(***************************************************************************)
EXTENDS Integers, Sequences, FiniteSets

CONSTANTS
    MaxCcm,      \* number of configured call managers (MAX_CCM in the code)
    MaxRetx,     \* CFGID_SIP_RETX: retransmissions of a REGISTER
    Responses,   \* the kinds of responses the call managers give
    MaxQ,        \* bound: no expiry or response is taken with MaxQ messages queued
    MaxAppQ,     \* bound: nor with MaxAppQ messages for the application
    Calls        \* whether calls are made

ASSUME RegMgrAssumption ==
    /\ MaxCcm \in Nat \ {0, 1} /\ MaxRetx \in Nat
    /\ Responses \subseteq {"100", "200", "200min", "4xx", "5xx", "retry"}
    /\ MaxQ \in Nat \ {0} /\ MaxAppQ \in Nat \ {0} /\ Calls \in BOOLEAN

Ccms == 0 .. MaxCcm - 1       \* in order of preference, 0 the primary
None == -1                    \* a NULL configuration table entry

(* Indices of the control blocks: REG_CCB_START, REG_BACKUP_CCB, and one   *)
(* for each call manager but one that may be monitored after it failed.    *)
Line == -1
Backup == 0
Slots == 1 .. MaxCcm - 1
Freed == -2                   \* a pointer to a fallback_ccb_t that was freed

VARIABLES
    sip,     \* the SIP thread's data, its queue and the application's queue
    app,     \* ccprovider.c: gCCApp
    call     \* gsm: a call is up

vars == <<sip, app, call>>

(***************************************************************************)
(* sip.ccb[i]: st is the registration state ("NONE": no such block), entry *)
(* cc_cfg_table_entry, reg reg.registered, trx that its last request is    *)
(* unanswered (every request has a new Call-ID, so older answers find no   *)
(* block), retx retx_counter.  A new fallback block is put into            *)
(* SIP_REG_PRE_FALLBACK, a value of another enumeration, that is the same  *)
(* number as SIP_REG_STATE_UNREGISTERING.                                  *)
(***************************************************************************)
NewCcb(st, entry) == [st |-> st, entry |-> entry, reg |-> FALSE,
                      trx |-> FALSE, retx |-> 0]
PreFallback == "UNREGISTERING"

Put(s, i, st) == [s EXCEPT !.ccb[i].st = st]          \* sip_reg_sm_change_state

(***************************************************************************)
(* Timers and messages                                                     *)
(***************************************************************************)
(* "ack": no answer; "expires": refresh, and Retry-After; "msg": retrans-  *)
(* mission; "retry", "wait": of a fallback block; "keepalive": of the      *)
(* standby; "allfail": before all registrations are reported as failed.    *)
Timers == ({"ack", "expires", "msg"} \X {Line, Backup}) \cup ({"retry", "wait"} \X Slots)
          \cup {<<"keepalive", Backup>>, <<"allfail", Line>>}

Start(s, kind, i) == [s EXCEPT !.tmr = @ \cup {<<kind, i>>}]
Stop(s, kind, i) == [s EXCEPT !.tmr = @ \ {<<kind, i>>}]

(* sip_start_ack_timer(), sip_stop_ack_timer(): the timer is found by the  *)
(* line number, which a fallback block shares with the line.               *)
AckTimerOf(i) == IF i = Backup THEN Backup ELSE Line
StopAck(s, i) == Stop(s, "ack", AckTimerOf(i))
StartAck(s, i) == Start(s, "ack", AckTimerOf(i))

Msg(cmd, i, ccm) == [cmd |-> cmd, idx |-> i, ccm |-> ccm]
Post(s, m) == [s EXCEPT !.q = Append(@, m)]
PostApp(s, ev) == [s EXCEPT !.appq = Append(@, ev)]

(* ccsip_register_send_msg(): fails without a block or an entry. *)
CanSend(s, i) == s.ccb[i].st # "NONE" /\ s.ccb[i].entry # None
Send(s, cmd, i) == IF CanSend(s, i) THEN Post(s, Msg(cmd, i, s.ccb[i].entry)) ELSE s

(***************************************************************************)
(* The line and the backup block                                           *)
(***************************************************************************)
(* sip_sm_call_cleanup() of a registration block ends in sip_sm_ccb_init() *)
(* and sip_regmgr_set_cc_info().  Its timers keep running.                 *)
CallCleanup(s, i) ==
    [s EXCEPT !.ccb[i] = [NewCcb("IDLE", IF i = Line THEN s.act ELSE s.stb)
                          EXCEPT !.retx = s.ccb[i].retx]]

SetRegState(s, st) == [s EXCEPT !.rstate = st]
AllUnregistered(s) == ~s.ccb[Line].reg

(* ccsip_register_cleanup() *)
RegisterCleanup(s, i, start) ==
    LET s1 == StopAck([s EXCEPT !.ccb[i].reg = FALSE], i)
        s2 == IF start /\ s.ccb[i].st # "UNREGISTERING" THEN Start(s1, "expires", i) ELSE s1
        s3 == IF AllUnregistered(s2) THEN SetRegState(s2, "IDLE") ELSE s2
    IN  CallCleanup(s3, i)

SendOrCleanup(s, cmd, i, start) ==
    IF CanSend(s, i) THEN Send(s, cmd, i) ELSE RegisterCleanup(s, i, start)

(* sip_regmgr_setup_new_active_ccb(), sip_regmgr_setup_new_standby_ccb() *)
SetupNewActive(s, c) ==
    LET s1 == CallCleanup(StopAck(Stop(s, "expires", Line), Line), Line)
    IN  [s1 EXCEPT !.ccb[Line].entry = c, !.act = c]

(* Mutant of SetupNewStandby: the block is set up from the old table.      *)
SetupNewStandbyOldEntry(s, c) ==
    LET s1 == RegisterCleanup(s, Backup, FALSE)
    IN  [s1 EXCEPT !.ccb[Backup].st = "UNREGISTERING", !.stb = c]

SetupNewStandby(s, c) ==
    LET s1 == RegisterCleanup(s, Backup, FALSE)
    IN  [s1 EXCEPT !.ccb[Backup].st = "UNREGISTERING", !.ccb[Backup].entry = c, !.stb = c]

SetupStandbyAgain(s) == IF s.stb = None THEN s ELSE SetupNewStandby(s, s.stb)

(* sipSPISendRegister(): only the line and the backup are retransmitted.   *)
SendRegister(s, i) ==
    LET s1 == [s EXCEPT !.ccb[i].trx = TRUE, !.ccb[i].retx = 0]
    IN  IF i \in Slots THEN s1 ELSE Start(s1, "msg", i)

(***************************************************************************)
(* Fallback blocks                                                         *)
(***************************************************************************)
Monitored(s) == {i \in Slots : s.ccb[i].st # "NONE"}   \* fallback_ccb_list

(* Mutant of CleanFallbackCcb: the number of the block is not given back.  *)
CleanFallbackCcbKeepsLine(s, I) ==
    [s EXCEPT !.tmr = @ \ ({"retry", "wait"} \X I),
              !.ccb = [i \in DOMAIN @ |-> IF i \in I THEN NewCcb("NONE", None) ELSE @[i]],
              !.fbCcb = IF @ \in I THEN Freed ELSE @]

(* sip_regmgr_clean_fallback_ccb() and cpr_free() of the blocks in I.      *)
(* Expiry messages and the fallback table carry pointers to them.          *)
CleanFallbackCcb(s, I) ==
    [s EXCEPT !.avail = @ \cup I,
              !.tmr = @ \ ({"retry", "wait"} \X I),
              !.ccb = [i \in DOMAIN @ |-> IF i \in I THEN NewCcb("NONE", None) ELSE @[i]],
              !.fbCcb = IF @ \in I THEN Freed ELSE @,
              !.q = [n \in DOMAIN @ |->
                       IF @[n].cmd \in {"RETRY_EXPIRED", "WAIT_EXPIRED"} /\ @[n].idx \in I
                       THEN [@[n] EXCEPT !.idx = Freed] ELSE @[n]]]

FreeFallbackCcb(s, i) == CleanFallbackCcb(s, {i} \cap Monitored(s))

(* sip_regmgr_free_fallback_ccb_list(): the list itself is destroyed. *)
FreeFallbackCcbList(s) == [CleanFallbackCcb(s, Monitored(s)) EXCEPT !.list = FALSE]

FallbackCcbOf(s, c) == {i \in Monitored(s) : s.ccb[i].entry = c}

(* sip_regmgr_create_fallback_ccb(): without a list sll_append() fails,    *)
(* and the number taken is lost.                                           *)
CreateFallbackCcb(s, c) ==
    IF FallbackCcbOf(s, c) # {} \/ s.avail = {} THEN s
    ELSE LET i == CHOOSE n \in s.avail : \A k \in s.avail : n <= k
         IN  [s EXCEPT !.avail = @ \ {i},
                       !.ccb[i] = IF s.list THEN NewCcb(PreFallback, c) ELSE @]

(* sip_regmgr_trigger_fallback_monitor() *)
TriggerFallbackMonitor(s) ==
    LET New == {i \in Monitored(s) : s.ccb[i].st = PreFallback}
    IN  [s EXCEPT !.ccb = [i \in DOMAIN @ |->
                             IF i \in New THEN [@[i] EXCEPT !.st = "IN_FALLBACK", !.trx = TRUE, !.retx = 0]
                             ELSE @[i]],
                  !.tmr = @ \cup ({"retry"} \X New)]

(***************************************************************************)
(* The next call manager: sip_regmgr_ccm_get_next()                        *)
(***************************************************************************)
NextAfter(c) == IF c + 1 \in Ccms THEN c + 1 ELSE None

(* No standby is left: the backup block is cleaned. *)
NoStandby(s) ==
    StopAck(Stop(CallCleanup(SetRegState(s, "NO_STANDBY"), Backup), "expires", Backup), Backup)

(* The active call manager failed: the standby takes its place. *)
NextActive(s, i) ==
    LET s1 == CreateFallbackCcb(s, s.ccb[i].entry)
        s2 == [s1 EXCEPT !.act = s1.stb,
                         !.stb = IF s1.stb = None THEN None ELSE NextAfter(s1.stb)]
    IN  IF s.ccb[i].entry = None THEN s
        ELSE IF s1.stb = None THEN SetRegState(s2, "NO_CC")
        ELSE IF s2.stb = None THEN NoStandby(s2) ELSE s2

(* The standby failed. *)
NextStandby(s) ==
    LET s1 == CreateFallbackCcb(s, s.ccb[Backup].entry)
        n == NextAfter(s.ccb[Backup].entry)
    IN  IF s.ccb[Backup].entry = None THEN [s EXCEPT !.stb = None]
        ELSE IF n = None THEN [NoStandby(s1) EXCEPT !.stb = None]
        ELSE Send(SetupNewStandby(s1, n), "CANCEL", Backup)

(* sip_regmgr_handle_reg_all_fail(): at once if calls are up. *)
RegAllFail(s) ==
    LET s1 == FreeFallbackCcbList(s)
    IN  IF call THEN PostApp(s1, "ALL_FAIL") ELSE Start(s1, "allfail", Line)

(* The phone moves to the standby once the application agrees. *)
Failover(s, i) ==
    LET s1 == Stop(StopAck(Stop(s, "expires", i), i), "msg", i)
        s2 == [s1 EXCEPT !.foEntry = s.act, !.foStarted = TRUE, !.prime = FALSE, !.fbEntry = None]
    IN  SetupStandbyAgain(PostApp(s2, "FAILOVER_IND"))

(***************************************************************************)
(* Event handlers.  i is the index of the block the event is for.          *)
(***************************************************************************)
(* sip_regmgr_ev_tmr_ack_retry() *)
EvTmrAckRetry(s, i) ==
    LET s0 == [s EXCEPT !.ccb[i].retx = 0]
        c == s.ccb[i]
    IN  CASE c.st \in {"REGISTERED", "REGISTERING"} /\ c.entry # s.act -> s0
          [] c.st \in {"REGISTERED", "REGISTERING"} /\ c.entry = s.act ->
               LET s1 == NextActive(s0, i)
               IN  IF s1.act = None THEN RegAllFail(s1) ELSE Failover(s1, i)
          [] c.st = "UNREGISTERING" /\ i = Backup ->
               TriggerFallbackMonitor(NextStandby(Stop(StopAck(s0, i), "msg", i)))
          [] c.st = "UNREGISTERING" /\ i # Backup ->
               CallCleanup(IF AllUnregistered(s0) THEN SetRegState(s0, "IDLE") ELSE s0, i)
          [] c.st \in {"IN_FALLBACK", "TOKEN_WAIT"} ->
               IF s.stb # None /\ s.stb < c.entry THEN FreeFallbackCcb(s0, i)
               ELSE Start(SendRegister(Put(s0, i, "IN_FALLBACK"), i), "retry", i)
          [] OTHER -> s0

(* sip_regmgr_ev_default() *)
EvRegmgrDefault(s, i) == EvTmrAckRetry(Put(s, i, "IN_FALLBACK"), i)

(* ccsip_handle_ev_reg_req(), ccsip_handle_ev_reg_cancel() *)
EvRegReq(s, i) == Put(SendRegister(Stop(StartAck(s, i), "expires", i), i), i, "REGISTERING")
EvRegCancel(s, i) == Put(SendRegister(Stop(StartAck(s, i), "expires", i), i), i, "UNREGISTERING")

(* ccsip_handle_ev_default(): CANCEL in IDLE. *)
EvIdleCancel(s, i) == RegisterCleanup(Stop(s, "expires", i), i, FALSE)

(* ccsip_handle_ev_tmr_expire() *)
EvTmrExpire(s, i) ==
    IF s.foStarted /\ i # Line THEN s
    ELSE SendOrCleanup(CallCleanup(s, i), "REG_REQ", i, TRUE)

(* Mutants of EvTmrRetry: one retransmission too many; the registration is *)
(* left to the ack timer when the retransmissions are used up.             *)
EvTmrRetryOnceMore(s, i) ==
    IF s.ccb[i].retx > MaxRetx THEN EvTmrAckRetry(s, i)
    ELSE IF s.ccb[i].st = "REGISTERED" THEN s
    ELSE Start([s EXCEPT !.ccb[i].retx = @ + 1], "msg", i)
EvTmrRetryGivesUp(s, i) ==
    IF s.ccb[i].retx >= MaxRetx \/ s.ccb[i].st = "REGISTERED" THEN s
    ELSE Start([s EXCEPT !.ccb[i].retx = @ + 1], "msg", i)

(* ccsip_handle_ev_tmr_retry() *)
EvTmrRetry(s, i) ==
    IF s.ccb[i].retx >= MaxRetx THEN EvTmrAckRetry(s, i)
    ELSE IF s.ccb[i].st = "REGISTERED" THEN s
    ELSE Start([s EXCEPT !.ccb[i].retx = @ + 1], "msg", i)

(* ccsip_handle_ev_2xx() *)
Ev2xx(s, i) ==
    LET s1 == StopAck([s EXCEPT !.ccb[i].reg = TRUE, !.ccb[i].st = "REGISTERED"], i)
        s2 == Start(IF i = Backup THEN s1 ELSE PostApp(s1, "REGISTERED"), "expires", i)
        s3 == [s2 EXCEPT !.monitor = FALSE]
    IN  IF ~(s.ccb[i].entry = s.act /\ s.monitor) THEN s2
        ELSE IF s.stb = None THEN s3
        ELSE Start(Send(Put(s3, Backup, "UNREGISTERING"), "CANCEL", Backup), "expires", Backup)

(* ... with an expiry below the minimum: the registration is given up. *)
Ev2xxTooShort(s, i) ==
    Start(SendOrCleanup(Put(StopAck(s, i), i, "UNREGISTERING"), "CANCEL", i, FALSE), "expires", i)

(* sip_regmgr_replace_standby() *)
ReplaceStandby(s) ==
    LET s1 == SetupNewStandby(s, s.newStb)
        s2 == CleanFallbackCcb(s1, FallbackCcbOf(s1, s.newStb))
    IN  [Send(s2, "CANCEL", Backup) EXCEPT !.newStb = None]

(* Mutant of EvUnreg2xx: a standby that never was registered is not asked again. *)
EvUnreg2xxNoKeepalive(s, i) ==
    LET s1 == StopAck([s EXCEPT !.ccb[i].reg = FALSE], i)
    IN  IF i = Backup
        THEN IF s.ccb[i].reg THEN Start(s1, "keepalive", Backup) ELSE s1
        ELSE Put(s1, i, "IDLE")

(* ccsip_handle_ev_unreg_2xx() *)
EvUnreg2xx(s, i) ==
    LET s1 == StopAck([s EXCEPT !.ccb[i].reg = FALSE], i)
    IN  IF i = Backup
        THEN Start(IF s.newStb = None THEN s1 ELSE ReplaceStandby(s1), "keepalive", Backup)
        ELSE LET s2 == Put(s1, i, "IDLE")
             IN  IF AllUnregistered(s2) THEN SetRegState(s2, "IDLE") ELSE s2

(* process_retry_after(); there is no such timer for a fallback block.     *)
EvRetryAfter(s, i) ==
    IF i \in Slots THEN StopAck(s, i) ELSE Start(StopAck(s, i), "expires", i)

(* sip_regmgr_ev_failure_response() *)
EvFailureResponse(s, i) == IF i = Backup THEN Start(s, "keepalive", Backup) ELSE RegAllFail(s)

(* ccsip_handle_ev_standby_keepalive_tmr_expire() *)
EvKeepaliveExpire(s, i) == Send(Stop(s, "keepalive", Backup), "CANCEL", i)

(* sip_regmgr_register_lines(prime_only, FALSE), ccsip_register_all_lines() *)
RegisterLine(s) ==
    SendOrCleanup(CallCleanup(SetupStandbyAgain(SetRegState(s, "REGISTERING")), Line),
                  "REG_REQ", Line, TRUE)

RegisterLines(s, primeOnly) ==
    LET s1 == IF ~primeOnly /\ s.ccb[Line].reg THEN PostApp(s, "REGISTERED") ELSE s
    IN  IF s.prime /\ ~primeOnly THEN s1 ELSE RegisterLine(s1)

RegisterAllLines(s) == RegisterLine(CallCleanup(s, Backup))

(* ccsip_register_cancel(TRUE, FALSE) *)
RegisterCancel(s) ==
    IF s.rstate = "IDLE" THEN s
    ELSE SendOrCleanup(StopAck(Stop(SetRegState(s, "UNREGISTERING"), "expires", Line), Line),
                       "CANCEL", Line, FALSE)

(* A read through a NULL pointer, or one to a block that was freed, or      *)
(* beyond a table: the model ends here, and its properties are about what  *)
(* comes before.                                                           *)
Undefined(s) == [s EXCEPT !.up = FALSE]

(* sipSPISendRefer() for the token, in check_and_transition and elsewhere. *)
SendRefer(s, i) == [s EXCEPT !.ccb[i].trx = TRUE]

(* sip_regmgr_check_and_transition(): a failed call manager answers again. *)
CheckAndTransition(s, i) ==
    LET c == s.ccb[i].entry
    IN  CASE s.act = None -> Undefined(s)
          [] s.act # None /\ s.act > c ->
               IF ~call /\ s.fbEntry = None
               THEN Start(SendRefer(Put(s, i, "TOKEN_WAIT"), i), "retry", i)
               ELSE Start(s, "retry", i)
          [] s.act # None /\ s.act = c -> s
          [] s.act # None /\ s.act < c ->
               IF s.stb # None /\ s.stb < c THEN FreeFallbackCcb(s, i)
               ELSE IF s.stb # None /\ s.ccb[Backup].trx
               THEN [s EXCEPT !.newStb = IF @ = None \/ @ > c THEN c ELSE @]
               ELSE Send(FreeFallbackCcb(SetupNewStandby(s, c), i), "CANCEL", Backup)

(* sip_regmgr_ev_in_fallback_2xx(), sip_regmgr_ev_fallback_retry() *)
EvInFallback2xx(s, i) == CheckAndTransition(Stop(StopAck(s, i), "retry", i), i)
EvFallbackRetry(s, i) == Start(StopAck(s, i), "retry", i)

(* sip_regmgr_ev_token_wait_2xx(): the token is granted. *)
EvTokenWait2xx(s, i) ==
    LET s1 == Stop(StopAck(s, i), "wait", i)
    IN  IF s.fbEntry = None
        THEN PostApp([s1 EXCEPT !.fbEntry = s.ccb[i].entry, !.isResp = FALSE, !.fbCcb = i],
                     "FALLBACK_IND")
        ELSE Start(Put(s1, i, "IN_FALLBACK"), "retry", i)

(* sip_regmgr_ev_token_wait_4xx_n_5xx(), sip_regmgr_ev_token_wait_tmr_wait() *)
EvTokenWaitRefused(s, i, busy) ==
    LET s1 == Stop(StopAck(s, i), "wait", i)
    IN  IF busy THEN Start(s1, "wait", i) ELSE Start(Put(s1, i, "IN_FALLBACK"), "retry", i)
EvTokenWaitTmrWait(s, i) == Start(SendRefer(s, i), "retry", i)

(* Mutant of EvCleanup: the old active call manager is dropped. *)
EvCleanupNoStandby(s, i) ==
    [RegisterLines(FreeFallbackCcb(SetupNewActive(s, s.ccb[i].entry), i), TRUE)
        EXCEPT !.prime = TRUE, !.stb = None]

(* sip_regmgr_ev_cleanup(): fall back; the old active becomes the standby. *)
EvCleanup(s, i) ==
    LET old == s.ccb[Line].entry
        s1 == FreeFallbackCcb(SetupNewActive(s, s.ccb[i].entry), i)
        s2 == IF s.isResp THEN [RegisterAllLines(s1) EXCEPT !.fbEntry = None]
              ELSE [RegisterLines(s1, TRUE) EXCEPT !.prime = TRUE]
    IN  Send(IF old = None THEN s2 ELSE SetupNewStandby(s2, old), "CANCEL", Backup)

(***************************************************************************)
(* gSIPRegSMTable: what an event does in each state.                       *)
(***************************************************************************)
St(s, i) == s.ccb[i].st

OnCancel(s, i) ==
    CASE St(s, i) = "IDLE" -> EvIdleCancel(s, i)
      [] St(s, i) \in {"REGISTERING", "REGISTERED", "UNREGISTERING"} -> EvRegCancel(s, i)
      [] St(s, i) = "IN_FALLBACK" -> SendRegister(s, i)
      [] St(s, i) = "TOKEN_WAIT" -> EvRegmgrDefault(s, i)
      [] OTHER -> s

OnTmrAck(s, i) == IF St(s, i) \in {"REGISTERING", "UNREGISTERING"} THEN EvTmrAckRetry(s, i) ELSE s

OnTmrExpire(s, i) ==
    IF \/ St(s, i) \in {"REGISTERING", "REGISTERED"}
       \/ St(s, i) = "IDLE" /\ i = Backup
    THEN EvTmrExpire(s, i) ELSE s

OnTmrWait(s, i) ==
    CASE St(s, i) = "UNREGISTERING" -> EvKeepaliveExpire(s, i)
      [] St(s, i) = "IN_FALLBACK" -> EvRegmgrDefault(s, i)
      [] St(s, i) = "TOKEN_WAIT" -> EvTokenWaitTmrWait(s, i)
      [] OTHER -> s

(* The table of retransmissions has no place for a fallback block. *)
OnTmrRetry(s, i) ==
    CASE St(s, i) \in {"REGISTERING", "REGISTERED", "UNREGISTERING"} ->
           IF i \in Slots THEN Undefined(s) ELSE EvTmrRetry(s, i)
      [] St(s, i) \in {"IN_FALLBACK", "TOKEN_WAIT"} -> EvTmrAckRetry(s, i)
      [] OTHER -> s

OnCleanup(s, i) ==
    CASE St(s, i) = "NONE" -> s
      [] St(s, i) = "TOKEN_WAIT" -> EvCleanup(s, i)
      [] OTHER -> EvRegmgrDefault(s, i)

OnFinal(s, i, rsp) ==
    LET ok == rsp \in {"200", "200min"}
    IN  CASE St(s, i) = "REGISTERING" /\ rsp = "200" -> Ev2xx(s, i)
          [] St(s, i) = "REGISTERING" /\ rsp = "200min" -> Ev2xxTooShort(s, i)
          [] St(s, i) = "UNREGISTERING" /\ ok -> EvUnreg2xx(s, i)
          [] St(s, i) \in {"REGISTERING", "UNREGISTERING"} /\ rsp = "retry" -> EvRetryAfter(s, i)
          [] St(s, i) \in {"REGISTERING", "UNREGISTERING"} /\ rsp \in {"4xx", "5xx"} ->
               EvFailureResponse(s, i)
          [] St(s, i) = "IN_FALLBACK" /\ ok -> EvInFallback2xx(s, i)
          [] St(s, i) = "IN_FALLBACK" /\ ~ok -> EvFallbackRetry(s, i)
          [] St(s, i) = "TOKEN_WAIT" /\ ok -> EvTokenWait2xx(s, i)
          [] St(s, i) = "TOKEN_WAIT" /\ rsp = "5xx" -> EvRegmgrDefault(s, i)
          [] St(s, i) = "TOKEN_WAIT" /\ rsp \in {"4xx", "retry"} ->
               EvTokenWaitRefused(s, i, rsp = "retry")
          [] OTHER -> s

(***************************************************************************)
(* The SIP thread                                                          *)
(***************************************************************************)
Idx == {Line, Backup} \cup Slots

Init ==
    /\ sip = RegisterAllLines(
               [act |-> 0, stb |-> 1, newStb |-> None,
                ccb |-> [i \in Idx |-> IF i \in Slots THEN NewCcb("NONE", None)
                                       ELSE NewCcb("IDLE", IF i = Line THEN 0 ELSE 1)],
                list |-> TRUE, avail |-> Slots, tmr |-> {}, monitor |-> TRUE,
                foEntry |-> None, foStarted |-> FALSE, prime |-> FALSE,
                fbEntry |-> None, fbCcb |-> Freed, isResp |-> FALSE,
                rstate |-> "IDLE", up |-> TRUE, q |-> <<>>, appq |-> <<>>])
    /\ app = [ins |-> FALSE, mode |-> "NONE", pres |-> FALSE, sess |-> FALSE]
    /\ call = FALSE

Room == sip.up /\ Len(sip.q) < MaxQ /\ Len(sip.appq) < MaxAppQ

(* A timer expires and posts its message. *)
ExpiryOf == [ack |-> "TMR_ACK", expires |-> "TMR_EXPIRE", msg |-> "MSG_EXPIRED",
             retry |-> "RETRY_EXPIRED", wait |-> "WAIT_EXPIRED",
             keepalive |-> "KEEPALIVE", allfail |-> "ALLFAIL_EXPIRED"]

Expire(t) ==
    /\ Room /\ t \in sip.tmr
    /\ sip' = Post(Stop(sip, t[1], t[2]), Msg(ExpiryOf[t[1]], t[2], None))
    /\ UNCHANGED <<app, call>>

(* A call manager answers the last request of block i: sipSPICheckResponse *)
(* finds the request, sip_sm_check_retx_timers stops its retransmission.   *)
Receive(i, rsp) ==
    /\ Room /\ sip.ccb[i].trx
    /\ LET s == Stop(sip, "msg", i)
       IN  sip' = IF rsp = "100" THEN s
                  ELSE OnFinal([s EXCEPT !.ccb[i].trx = FALSE], i, rsp)
    /\ UNCHANGED <<app, call>>

(***************************************************************************)
(* Messages of the SIP thread: SIPTaskProcessListEvent().  A message names *)
(* the block by its index; if there is no such block it is dropped.        *)
(***************************************************************************)
Take(cmd) == sip.up /\ sip.q # <<>> /\ Head(sip.q).cmd = cmd
Rest == [sip EXCEPT !.q = Tail(@)]
Target == Head(sip.q).idx
Exists(i) == sip.ccb[i].st # "NONE"
Becomes(s) == sip' = s /\ UNCHANGED <<app, call>>

(* What the program does after the use of a freed block is not defined.    *)
Dereference(i, s) == Becomes(IF i = Freed THEN Undefined(Rest) ELSE s)

RegReq ==
    /\ Take("REG_REQ")
    /\ Becomes(IF Exists(Target) THEN EvRegReq(CallCleanup(Rest, Target), Target) ELSE Rest)
RegCancel == Take("CANCEL") /\ Becomes(OnCancel(Rest, Target))
RegCleanup == Take("CLEANUP") /\ Becomes(OnCleanup(Rest, Target))
TmrAck == Take("TMR_ACK") /\ Becomes(OnTmrAck(Rest, Target))
TmrExpire == Take("TMR_EXPIRE") /\ Becomes(OnTmrExpire(Rest, Target))
TmrWait == Take("WAIT") /\ Becomes(OnTmrWait(Rest, Target))
StandbyKeepalive == Take("KEEPALIVE") /\ Becomes(OnTmrWait(Rest, Backup))

(* sip_sm_get_ccb_by_ccm_id_and_index(): the block must still be for the   *)
(* call manager the message was sent for.                                  *)
TmrRetry ==
    /\ Take("RETRY")
    /\ Becomes(IF Exists(Target) /\ sip.ccb[Target].entry = Head(sip.q).ccm
               THEN OnTmrRetry(Rest, Target) ELSE Rest)

(* ccsip_register_timeout_retry() *)
MsgExpired == Take("MSG_EXPIRED") /\ Becomes(SendOrCleanup(Rest, "RETRY", Target, TRUE))

(* sip_regmgr_retry_timeout_expire(), sip_regmgr_wait_timeout_expire() *)
RetryExpired == Take("RETRY_EXPIRED") /\ Dereference(Target, Send(Rest, "RETRY", Target))
WaitExpired ==
    Take("WAIT_EXPIRED") /\ Dereference(Target, Send(Stop(Rest, "wait", Target), "WAIT", Target))

(* sip_regmgr_regallfail_timer_callback() *)
AllFailExpired == Take("ALLFAIL_EXPIRED") /\ Becomes(PostApp(Rest, "ALL_FAIL"))

(* sip_regmgr_rsp(): the answers of the application. *)
FailoverRspStart ==
    /\ Take("FAILOVER_START")
    /\ Becomes([RegisterLines(SetupNewActive(Rest, sip.foEntry), TRUE) EXCEPT !.prime = TRUE])

FailoverRspComplete ==
    /\ Take("FAILOVER_COMPLETE")
    /\ LET s == TriggerFallbackMonitor(RegisterLines([Rest EXCEPT !.foStarted = FALSE], FALSE))
       IN  Becomes([s EXCEPT !.prime = FALSE])

PhoneIdle ==
    /\ Take("FALLBACK_START")
    /\ Dereference(sip.fbCcb, Send(RegisterCancel(Rest), "CLEANUP", sip.fbCcb))

PhoneIdleWaited ==
    /\ Take("FALLBACK_WAITED")
    /\ Dereference(sip.fbCcb, Put(SendRefer([Rest EXCEPT !.fbEntry = None], sip.fbCcb),
                                  sip.fbCcb, "TOKEN_WAIT"))

FallbackRsp ==
    /\ Take("FALLBACK_COMPLETE")
    /\ LET s == IF sip.fbEntry = None THEN Rest
                ELSE [RegisterLines(Rest, FALSE) EXCEPT !.fbEntry = None]
       IN  Becomes([s EXCEPT !.isResp = TRUE, !.prime = FALSE])

(***************************************************************************)
(* The application: CCApp_processCmds() and CCAppProcessSessionUpdate().   *)
(* app.ins is that gCCApp.state is CC_INSERVICE, mode cucm_mode, pres      *)
(* inPreservation, sess that there is a session.                           *)
(***************************************************************************)
AppTake(ev) == sip.up /\ sip.appq # <<>> /\ Head(sip.appq) = ev
Taken == [sip EXCEPT !.appq = Tail(@)]
Answer(cmd) == Post(Taken, Msg(cmd, Line, None))
AppBecomes(a, s) == app' = a /\ sip' = s /\ UNCHANGED call

(* A call that is not connected is ended, one that is is preserved. *)
AppFailoverInd(connected) ==
    /\ AppTake("FAILOVER_IND")
    /\ LET keep == app.sess /\ connected
       IN  AppBecomes([app EXCEPT !.ins = FALSE, !.mode = "FAILOVER", !.pres = @ \/ keep],
                      IF keep THEN Taken ELSE Answer("FAILOVER_START"))

AppFallbackInd ==
    /\ AppTake("FALLBACK_IND")
    /\ AppBecomes([app EXCEPT !.mode = "FALLBACK", !.ins = @ /\ app.sess],
                  IF app.sess THEN Taken ELSE Answer("FALLBACK_START"))

(* Mutant of AppRegistered: the SIP thread is not told. *)
AppRegisteredSilent ==
    /\ AppTake("REGISTERED")
    /\ IF app.ins THEN AppBecomes(app, Taken)
       ELSE AppBecomes([app EXCEPT !.ins = TRUE, !.mode = "NONE"], Taken)

AppRegistered ==
    /\ AppTake("REGISTERED")
    /\ IF app.ins THEN AppBecomes(app, Taken)
       ELSE AppBecomes([app EXCEPT !.ins = TRUE, !.mode = "NONE"],
                       CASE app.mode = "FAILOVER" -> Answer("FAILOVER_COMPLETE")
                         [] app.mode = "FALLBACK" -> Answer("FALLBACK_COMPLETE")
                         [] OTHER -> Taken)

AppRegAllFail(connected) ==
    /\ AppTake("ALL_FAIL")
    /\ AppBecomes([app EXCEPT !.ins = FALSE, !.mode = "NO_CUCM", !.pres = app.sess /\ connected],
                  Taken)

AppSessionCreated == AppTake("CREATED") /\ AppBecomes([app EXCEPT !.sess = TRUE], Taken)

(* Mutant of AppSessionClosed: the failover put off is forgotten. *)
AppSessionClosedForgets ==
    /\ AppTake("CLOSED")
    /\ AppBecomes([app EXCEPT !.sess = FALSE, !.pres = FALSE],
                  IF app.mode = "FALLBACK" THEN Answer("FALLBACK_WAITED") ELSE Taken)

(* proceedWithFOFB() *)
AppSessionClosed ==
    /\ AppTake("CLOSED")
    /\ IF app.pres \/ app.mode = "FALLBACK"
       THEN AppBecomes([app EXCEPT !.sess = FALSE, !.pres = FALSE, !.ins = FALSE],
                       CASE app.mode = "FAILOVER" -> Answer("FAILOVER_START")
                         [] app.mode = "FALLBACK" -> Answer("FALLBACK_WAITED")
                         [] OTHER -> Taken)
       ELSE AppBecomes([app EXCEPT !.sess = FALSE], Taken)

(***************************************************************************)
(* Calls, and the whole                                                    *)
(***************************************************************************)
CallStarts ==
    /\ Room /\ Calls /\ ~call /\ app.ins
    /\ call' = TRUE /\ sip' = PostApp(sip, "CREATED") /\ UNCHANGED app
CallEnds ==
    /\ Room /\ call
    /\ call' = FALSE /\ sip' = PostApp(sip, "CLOSED") /\ UNCHANGED app

(* What happens now is not defined. *)
Down == ~sip.up /\ UNCHANGED vars

SipStep ==
    \/ RegReq \/ RegCancel \/ RegCleanup \/ TmrAck \/ TmrExpire \/ TmrWait
    \/ StandbyKeepalive \/ TmrRetry \/ MsgExpired \/ RetryExpired \/ WaitExpired
    \/ AllFailExpired \/ FailoverRspStart \/ FailoverRspComplete
    \/ PhoneIdle \/ PhoneIdleWaited \/ FallbackRsp

AppStep ==
    \/ \E connected \in BOOLEAN : AppFailoverInd(connected) \/ AppRegAllFail(connected)
    \/ AppFallbackInd \/ AppRegistered \/ AppSessionCreated \/ AppSessionClosed

Next ==
    \/ SipStep \/ AppStep
    \/ \E t \in Timers : Expire(t)
    \/ \E i \in Idx, rsp \in Responses : Receive(i, rsp)
    \/ CallStarts \/ CallEnds \/ Down

(* Both threads take what is queued for them; the line's timers expire and *)
(* calls end, strongly because only the bound Room holds them back now and *)
(* then.  The other timers need no fairness.                               *)
Fairness ==
    /\ WF_vars(SipStep) /\ WF_vars(AppStep) /\ SF_vars(CallEnds)
    /\ \A kind \in {"ack", "expires", "msg", "allfail"} : SF_vars(Expire(<<kind, Line>>))

Spec == Init /\ [][Next]_vars
FairSpec == Spec /\ Fairness

(***************************************************************************)
(* Properties                                                              *)
(***************************************************************************)
(* The types of the registration manager's data. *)
Entry == Ccms \cup {None}
Commands == {"REG_REQ", "CANCEL", "CLEANUP", "RETRY", "WAIT"}
            \cup {ExpiryOf[k] : k \in DOMAIN ExpiryOf}
            \cup {"FAILOVER_START", "FAILOVER_COMPLETE",
                  "FALLBACK_START", "FALLBACK_WAITED", "FALLBACK_COMPLETE"}
TypeOK ==
    /\ {sip.act, sip.stb, sip.newStb, sip.foEntry, sip.fbEntry} \subseteq Entry
    /\ sip.fbCcb \in Slots \cup {Freed}
    /\ sip.ccb \in [Idx -> [st : {"NONE", "IDLE", "REGISTERING", "REGISTERED", "UNREGISTERING",
                                  "IN_FALLBACK", "TOKEN_WAIT"},
                            entry : Entry, reg : BOOLEAN, trx : BOOLEAN, retx : 0 .. MaxRetx]]
    /\ sip.avail \subseteq Slots /\ sip.tmr \subseteq Timers
    /\ {sip.list, sip.monitor, sip.foStarted, sip.prime, sip.isResp, sip.up, call} \subseteq BOOLEAN
    /\ sip.rstate \in {"IDLE", "REGISTERING", "UNREGISTERING", "NO_STANDBY", "NO_CC"}
    /\ sip.q \in Seq([cmd : Commands, idx : Idx \cup {Freed}, ccm : Entry])
    /\ sip.appq \in Seq({"FAILOVER_IND", "FALLBACK_IND", "REGISTERED", "ALL_FAIL", "CREATED", "CLOSED"})
    /\ app \in [ins : BOOLEAN, mode : {"NONE", "FAILOVER", "FALLBACK", "NO_CUCM"},
                pres : BOOLEAN, sess : BOOLEAN]

(* All call managers have failed, and sip_regmgr_handle_reg_all_fail() has *)
(* given up; or nothing is on its way to either thread.                    *)
GivenUp == ~sip.list
Quiet == sip.q = <<>> /\ sip.appq = <<>>

(* Every number of a fallback block is free or belongs to one, through all *)
(* failovers and fallbacks: a lost number is a call manager that can never *)
(* be monitored again, one given back twice a block that is overwritten.   *)
SlotsAccounted == sip.up /\ ~GivenUp => sip.avail = Slots \ Monitored(sip)

(* With two call managers, each is either the active one, the standby or   *)
(* monitored, and only one of these, whatever failed and came back before. *)
OneRole ==
    sip.up /\ ~GivenUp =>
        \A c \in Ccms :
            (IF sip.act = c THEN 1 ELSE 0) + (IF sip.stb = c THEN 1 ELSE 0)
                + Cardinality(FallbackCcbOf(sip, c)) = 1

(* With two call managers, both threads agree on a failover: when no       *)
(* message is on its way, one the SIP thread has started is one the        *)
(* application knows of, so that its next REGISTERED update or the end of  *)
(* the preserved call completes it.                                        *)
FailoverAnswered ==
    sip.up /\ ~GivenUp /\ Quiet /\ sip.foStarted => app.mode = "FAILOVER"

(* With two call managers: while the phone is registered, its standby is   *)
(* watched: a timer will ask it again or declare it failed.                *)
StandbyWatched ==
    sip.up /\ ~GivenUp /\ Quiet /\ ~sip.foStarted
        /\ sip.stb # None /\ sip.ccb[Line].st = "REGISTERED" =>
            \E kind \in {"ack", "msg", "keepalive"} : <<kind, Backup>> \in sip.tmr

(* The backup block is always set up for the standby the table names, and  *)
(* idle when there is none: the case of CSCsx60672 in sip_common_regmgr.c, *)
(* where the standby failed before the application had answered and the    *)
(* block was still that of the call manager before it.                     *)
BackupIsStandby ==
    IF sip.stb = None THEN sip.ccb[Backup].st = "IDLE"
    ELSE sip.ccb[Backup].st = "UNREGISTERING" /\ sip.ccb[Backup].entry = sip.stb

(* The standby is being asked: a timer, or a message that starts one.      *)
Asks(m, c) ==
    \/ m.cmd \in {"CANCEL", "MSG_EXPIRED"} /\ m.idx = Backup
    \/ m.cmd = "KEEPALIVE"
    \/ m.cmd = "RETRY" /\ m.idx = Backup /\ m.ccm = c
Watching(s) ==
    \/ \E kind \in {"msg", "keepalive"} : <<kind, Backup>> \in s.tmr
    \/ \E n \in DOMAIN s.q : Asks(s.q[n], s.stb)

(* The chain of timers and messages that watches a standby never breaks    *)
(* while it remains the standby, if the call managers give neither 100     *)
(* Trying nor Retry-After.                                                 *)
StaysWatched ==
    [][sip.stb # None /\ sip'.stb = sip.stb /\ Watching(sip) => Watching(sip')]_vars

(* A phone that is not registered becomes so, or reports that all call     *)
(* managers failed, or is falling back.                                    *)
Registers ==
    sip.ccb[Line].st # "REGISTERED" ~>
        sip.ccb[Line].st = "REGISTERED" \/ GivenUp \/ sip.fbEntry # None \/ ~sip.up

(* A failover that is started ends, though a call may put it off. *)
FailoverEnds == sip.foStarted ~> ~sip.foStarted \/ GivenUp \/ ~sip.up

(* sip_regmgr_check_and_transition(): "Check to see if the ccm coming      *)
(* backup is going to replace the current active, if not just replace the  *)
(* current Standby".  A fallback goes to a call manager that comes before  *)
(* the active one in the list.                                             *)
FallbackToPreferred == [][RegCleanup => sip'.act <= sip.act]_vars
=============================================================================
