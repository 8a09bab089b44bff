-------------------------------- MODULE Dcsm --------------------------------
(***************************************************************************)
(* The default call state machine of core/gsm/dcsm.c: a gate in front of   *)
(* the call FSMs.  While some call is in the middle of connecting, holding *)
(* resuming or releasing, the gate is WAITING and sets aside the events    *)
(* that would start another call or take one off hold.                     *)
(*                                                                         *)
(* The control block dcsm_cb is the record [state, ids, q]: ids is the     *)
(* call_ids array (a slot per call, so never full: both arrays have        *)
(* LSM_MAX_CALLS entries), q the s_msg_list of events set aside.           *)
(***************************************************************************)
EXTENDS Sequences

(* dcsm_init() *)
DcsmInit == [state |-> "READY", ids |-> {}, q |-> <<>>]

(* The events with a handler in the DCSM_S_WAITING row of the table. *)
DeferredEvents == {"OFFHOOK", "DIALSTRING", "ANSWER", "RESUME"}

(* dcsm_process_event() returns SM_RC_END: the event is queued. *)
Defers(d, ev) == d.state = "WAITING" /\ ev \in DeferredEvents

AddEvent(d, m) == [d EXCEPT !.q = Append(@, m)]
WithoutFirst(d) == [d EXCEPT !.q = Tail(@)]

(* dcsm_do_ready_state_job() has an event to run. *)
HasReadyJob(d) == d.state = "READY" /\ d.q # <<>>

(* A call in one of these states makes the gate wait ...                   *)
PendingStates == {"CONNECTING", "HOLD_PENDING", "RESUME_PENDING"}
(* ... and so does a RELEASING one that waits for the SIP stack's answer.  *)
Pending(s, sendRelease) == s \in PendingStates \/ (s = "RELEASING" /\ sendRelease)

(* Mutants of UpdateGsmState: the gate is never reopened; it opens as soon *)
(* as any call settles.                                                    *)
UpdateGsmStateNoReady(d, c, s, sendRelease) ==
    IF s = "RELEASING" /\ ~sendRelease THEN d
    ELSE IF Pending(s, sendRelease)
         THEN [d EXCEPT !.ids = @ \cup {c}, !.state = "WAITING"]
         ELSE [d EXCEPT !.ids = @ \ {c}]

UpdateGsmStateAnyReady(d, c, s, sendRelease) ==
    IF s = "RELEASING" /\ ~sendRelease THEN d
    ELSE IF Pending(s, sendRelease)
         THEN [d EXCEPT !.ids = @ \cup {c}, !.state = "WAITING"]
         ELSE [d EXCEPT !.ids = @ \ {c}, !.state = "READY"]

(* dcsm_update_gsm_state(): a call changes to state s. *)
UpdateGsmState(d, c, s, sendRelease) ==
    IF s = "RELEASING" /\ ~sendRelease THEN d
    ELSE IF Pending(s, sendRelease)
         THEN [d EXCEPT !.ids = @ \cup {c}, !.state = "WAITING"]
         ELSE [d EXCEPT !.ids = @ \ {c},
                        !.state = IF d.ids \ {c} = {} THEN "READY" ELSE @]

(* ... which posts DCSM_EV_READY if the gate opens with events set aside. *)
SendsReady(d, c, s, sendRelease) ==
    /\ s # "RELEASING" /\ ~Pending(s, sendRelease)
    /\ d.ids \ {c} = {} /\ d.q # <<>>
=============================================================================
