# A verification project for ikran's SIP phone (sipcc)

ikran puts a SIP phone into a browser. Its own core is `src/src/sipcc`: a call
control (GSM), a SIP stack, and CPR, a layer over the operating system with
message queues and timers. This directory holds TLA+ modules for the parts
where threads, queues and timers meet, the TLC configurations that check them
on small instances, and proofs that TLAPS checks for every instance.

Line numbers below and in `PROJECT.json` are those of the Linux sources.

## 1. The system

### Threads and how they talk

    user interface / ccapp ──┐                     ┌── peer (network)
                             v                     v
                   gsm_msg_queue ──> GSM thread    SIP thread <── sip msg queue
                        ^   ^            │              ^   │
                        │   └────────────┼──────────────┼───┘  (cc_* messages)
                        │                └──────────────┘
                        └── timer service thread (expiry messages)

    SIP thread <── sip msg queue <── timer service, GSM thread, application
    SIP thread ──> ccapp queue ──> application thread (failover, fallback, registered)

Every arrow is a CPR message queue (`cpr_linux_ipc.c`). A thread takes one
message, handles it to the end and comes back for the next. Timers belong to one
service thread; its clients talk to it over a socket pair, and it answers with
expiry messages on their queues.

### Components

| Component | State it keeps | Operations | What is hard |
|---|---|---|---|
| CPR message queues, `cpr_linux_ipc.c` | the System V queue, the extended queue, the mutex, counters, the owning thread | `cprSendMessage`, `cprGetMessage`, `cprMoveMsgToQueue`, `cprSetMessageQueueThread` | `msgrcv()` and the test of `extendedQDepth` run without the mutex; retries; partial failure |
| CPR timers, `cpr_linux_timers_using_select.c` | timer blocks, the delta list, the command socket, `api_mutex` | create, start, cancel, update, destroy; the service loop | blocks read and written without a lock; expiry racing cancel and destroy; time |
| DCSM, `dcsm.c` | `dcsm_cb`: state, `call_ids`, events set aside | `dcsm_update_gsm_state`, `dcsm_process_event`, `dcsm_process_jobs` | every pending state of every call must be entered and left through it |
| GSM thread and `fsmdef`, `gsm.c`, `fim.c`, `fsmdef.c` | call chains, the dcb of each call, its two timers | about 35 table entries for an audio call | calls that share the audio path and wait for one another; late acks; glare |
| SIP dialog machine, `ccsip_core.c` | the ccb of each call | call control messages, requests and responses of the peer | re-INVITEs that cross; timeouts; releases from both sides |
| call admission control, `fsmcac.c` | list of bandwidth requests | request, response, timer | never runs: `platWlanISActive()` is FALSE in every build |
| transfer and conference, `fsmxfr.c`, `fsmcnf.c`, `fsmb2bcnf.c` | xcb, ccb | feature events of two calls | two call chains change in one step |
| line state machine, SDP negotiation, `lsm.c`, `gsm_sdp.c` | lcb, media descriptions | | data, little control |
| registration and failover, `sip_common_regmgr.c`, `ccsip_register.c` | active and standby call manager, the control blocks of the line, the standby and the monitored call managers, about seven kinds of timers | REGISTER and its answers, failover, fallback, keep-alive, monitoring | silent and refusing call managers; expiry messages that outlive their timer; agreement with the application thread; a pool of blocks |
| subscriptions, publication | scb, pcb | SUBSCRIBE, NOTIFY, PUBLISH | retries, expiry |
| retransmission list, `ccsip_reldev.c` | a ring of the messages received last, each with the answer sent | store, match, store the answer, send it again, clear | overwriting; repeated and reordered messages; what identifies a transaction |
| SIP messages, transport, SDP parser | buffers, sockets | parse, format, read, write | text |
| application layer, `ccapp/` | sessions, device information | session and device events | copies of state in another thread |
| C++ wrappers, `softphonewrapper/`, `callcontrol/`, `media/`, `ikran/` | objects and handles | callbacks, API | lifetime of wrapped objects |
| start-up, resources, dial plan, KPML, presence | tables and lists | | |
| other ports, tests, vendored copies | | | copies of the above, or not this program |

`PROJECT.json` has a row for each with its status and the reason where a part is
not modelled, and the list of hazards with their lines.

### What makes each part correct

* A queue is one FIFO though it is two: nothing lost, doubled or out of order,
  the sender's result tells who owns the buffer, the reader is always woken.
* A timer is late only by the service's own delays, and early by no more than the
  fractions of a millisecond that the service drops, less than one for each command it
  reads; the list is never corrupt; calls return; a freed block is not touched.
* The gate waits for exactly the calls that are in the middle of a change, and
  opens again; what it sets aside is run.
* Each call manager has a place: active, standby or monitored. The phone becomes
  registered or reports that it cannot; a failover is agreed on by both threads and
  ends; the standby is watched; a fallback goes to a call manager that is preferred.
* The retransmission list is a window on the last messages; a retransmission is met
  with its own answer only, and a new call with none of an older one; an ACK is kept with the final response.
* One call at a time uses the audio path; a call that waits can be woken (unless it was
  left to a timer that is over, see the findings); a peer's re-INVITE is answered; both ends agree about hold; requests that wait for other
  calls come to rest.

## 2. The modules

| Module | Models | Used by |
|---|---|---|
| `MsgFifo` | what a message queue promises: a bounded FIFO buffer | `CprMsgQueue` (refinement) |
| `CprMsgQueue` | `cpr_linux_ipc.c` | `MCCprMsgQueue`, `CprMsgQueueProofs` |
| `CprMsgQueueProofs` | theorems about its fields, the counter, the wake-up of the reader, order and hand-over, and that it implements `MsgFifo` | |
| `TimerService` | what the timers promise their users: one expiry for each start, with its data, and how early it may be | `CprTimers` (refinement) |
| `CprTimers` | `cpr_linux_timers_using_select.c` | `MCCprTimers`, `CprTimersProofs` |
| `CprTimersProofs` | theorems about the exchange with the service thread and the list | `CprTimersTimeProofs` |
| `CprTimersTimeProofs` | theorems: the deltas keep time, and the service implements `TimerService` | |
| `Dcsm` | `dcsm.c`, as operators on `dcsm_cb` | `GsmCalls` |
| `GsmCalls` | `gsm.c`, `fim.c`, `fsm.c`, `fsmdef.c` composed with the gate and with the part of `ccsip_core.c` that call control sees | `MCGsmCalls`, `GsmCallsProofs` |
| `GsmCallsProofs` | theorems about its types, the gate and the audio path | `GsmCallsDialogProofs` |
| `GsmCallsDialogProofs` | theorems that relate call control to the SIP thread | |
| `RegMgr` | `ccsip_register.c`, `sip_common_regmgr.c`, and the failover and fallback of `ccprovider.c` | `MCRegMgr`, `RegMgrProofs` |
| `RegMgrProofs` | theorems about its blocks and messages | `RegMgrStandbyProofs` |
| `RegMgrStandbyProofs` | theorems about the standby: its block, and the timers that watch it | |
| `RetxWindow` | what the retransmission list promises: a window on the last N messages | `RelDev` (refinement) |
| `RelDev` | `ccsip_reldev.c` and its callers in `ccsip_messaging.c` and `ccsip_task.c` | `MCRelDev`, `RelDevProofs` |
| `RelDevProofs` | theorems about it | |
| `MC...` | the instances for TLC: named constants, and a `Done` step for behaviours whose bounded inputs are used up | the runs |

Definitions whose comment begins with "Fault" or "Mutant" are no part of a
specification. Each is a plausible mistake in the definition after it, and is
there to show that the properties would notice it (`mutants` in `PROJECT.json`).

### CprMsgQueue

`sys` is the System V queue, `ext` the extended queue, `mutex` its lock. A call of
`cprSendMessage()` is split where another thread can come in: before the lock
("lock"), between `msgsnd()` and the counter ("count"), between `EAGAIN` and the
post to the extended queue ("postExt"), and in the sleep of the retry loop
("retry"). `cprGetMessage()` is split at `msgrcv()`, at the lock around the counter
("decrement"), at the unlocked test ("check") and at the refill ("move").
`MayFail` lets `msgsnd()` and `cpr_malloc()` fail at any call. `held`, `delivered`,
`ok` and `failed` are history: what the reader and the callers know.

A message is the pair of its sender and its number; buffers are not modelled, since
a buffer is sent once. `cprDestroyMessageQueue()`, which nothing in `core/` calls,
is left out.

### CprTimers

The two blocks of a timer are the functions `exists`, `id`, `active`, `dur` and
`data`; `list` is the list of running timers with `dur` holding the deltas. The
service thread is "select", "send" (the expiry), "deactivate" and "clear" (the two
writes of `removeTimer()` at expiry, one before and one after the window in which
another thread may act), or "dead" (`select()` refused a negative time). A client's
call is its unlocked test, the command under `api_mutex`, the wait, and for destroy
the free. Time passes in `select()` (`TickWaiting`) and elsewhere (`TickElsewhere`,
which adds to `lag`). `ToInt32` is the conversion of the `uint32_t` duration.

The list counts milliseconds, `select()` finer. Times in the model are ticks of the
clock, `Grain` to the millisecond; a duration is `Ticks(d)`. When a command arrives,
the code sets the head to `tv_sec * 1000 + tv_usec/1000` of what `select()` had left
(line 1245): `HeadLeft` drops the rest (`Whole`), and as every other timer is counted
from the head, each command brings the whole list forward by up to `Grain - 1` ticks.
`early` is history: how much that may be for each running timer.

`SendFails` is a `sendto()` that fails: start and cancel report it, update and destroy
stop there, without a new start or the free. A `recvfrom()` that fails is left out. It
would release `api_mutex` with the result still to come, and the next caller would read
that result as its own (lines 294-296 and 470-472), so `OwnResult` and
`CancelEffective` hold for a client socket on which waiting does not fail.

`TimerService` is what a user of the timers may rely on. A running timer has a time, the
data it was started with and how early it may be; each request that the service handles
adds `Rounding`, less than a millisecond, to that (`Forward`). When the time has come, or
is that near, its expiry is delivered once, or lost in a full mailbox, and then it ends. `CprTimers` implements it with `Alarms` (the
running timers with their deadlines) and `Firing` (the timer whose expiry has been posted
but which is still listed). No promise is made that a delivered expiry is taken back by a
cancel, nor that one comes at its time exactly; `OnTime` bounds the delay.

### Dcsm and GsmCalls

One step of the GSM thread is one message: `GsmGetMessage` takes it, `FimProcessEvent`
lets the gate set it aside, drops it, or gives it to the handler of `fsmdef`'s table,
and every handler ends in `Stay`, `ChangeState` or `Release`, which do what
`fsm_change_state()` does, the gate included. `DcsmProcessJobs` is the
`dcsm_process_jobs()` call that follows in `GSMTask()`; a NULL message
(`DCSM_EV_READY`) is taken without it (`GsmGetNull`), as the code's `if (msg)` has it.

`call[c]` is the call chain with the dcb: its state, direction (`out`), what to send
when it ends (`sendRelease`, `sendComplete`), the hold state, the two timers, the
early error and the lock of the user interface. `sip[c]` is the ccb: its state, the
feature of a re-INVITE under way, and what the peer last agreed to.
The request timer is "fired" between the post of its expiry and the write of
`timerActive` (see `CprTimers`, "deactivate"): that write is a step of its own
(`TimerDeactivated`), and the GSM thread may handle the expiry and whatever comes after
it before. `misled` is history: `fsmdef_resume()` or
`fsm_connected_media_pend_local_hold()` found the timer running, and therefore sent
nothing, though its expiry was no longer to come (`Misled`).

`fsmdef_wait_to_start_new_call()` is `MustWait` (is a call in the way?) and
`ClearTheWay` (hold or end those calls, and post the own event behind that).

What is abstracted, and why it may be:

* Media descriptions are "hold" or "active". Capabilities change only by
  `UPD_MEDIA_CAP`. Failures to encode SDP are not modelled.
* An id is used for one call at a time and not again by the peer.
* KPML, digit collection, call forward, redial, JOINING and PRESERVED are left out;
  so are the conference and transfer machines in front of `fsmdef`, which have no
  part in a call that they did not start.
* The RESUME case of `hold_pending_feature` cannot happen: HOLD_PENDING closes the
  gate, which sets RESUME aside.
* The states of `ccsip_core.c` between an INVITE and its answer by call control are
  one state, and a mid-call request is a re-INVITE. What the peer sends is bounded by
  `MaxFaults` and `MaxMedia`, what the user asks by `MaxUi`.
* A behaviour may start with calls answered before (`Start`), at most one of them not
  on hold (`StartAssumption`).
* `gsm_reset()` and shutdown are not modelled.
* Messages are lost only by failures that the queue modules cover; here the queues
  are sequences, as `MsgFifo` allows.

### RegMgr

The phone knows an ordered list of call managers. It registers with one (active),
watches the next (standby, kept alive by un-registrations) and monitors those that
failed, each with a fallback block. `sip` is all that the SIP thread owns: the blocks
(`ccb`: index -1 the line, 0 the standby, from 1 the fallback blocks), the active and
standby entries, the pool of numbers (`avail`), the running timers, the failover and
fallback under way, and the two queues. Since handlers call one another, each of the
code's procedures is an operator from one such record to the next, and an action is
one message taken (`SipStep`), one answer of a call manager (`Receive`) or one expiry
(`Expire`). `OnCancel`, `OnTmrAck`, `OnFinal` and so on are the rows of
`gSIPRegSMTable`. `app` is `gCCApp` of `ccprovider.c`, which agrees to a failover or
fallback, puts it off while a call is up, and takes the next REGISTERED for its end.

* An expiry message stays queued when its timer is cancelled (see `CprTimers`), and a
  message for a fallback block carries a pointer. `Freed` marks a pointer to a block
  that was freed; to use one, or a NULL active entry, makes `up` FALSE and ends the
  behaviour, for what the program does then is not defined.
* A new fallback block is put into `SIP_REG_PRE_FALLBACK`, a value of another
  enumeration than the registration states. It is the number of UNREGISTERING, and is
  modelled as that (`PreFallback`).
* The ack timer is found by line number, which fallback blocks share with the line
  (`AckTimerOf`).
* Every request has a new Call-ID, so an answer to an older request finds nothing;
  `trx` says that the last one is unanswered. The network loses, delays and reorders
  answers, or a call manager is silent: nothing obliges `Receive`.
* The transport is UDP and one line is configured, as `config_parser.c` and the rest of
  the program have it.
* A fallback block has no expires timer: `sip_platform_register_expires_timer_start()`
  refuses an index from `MAX_CCBS` on (`EvRetryAfter`).

Left out: 3xx, 401, 407, 423 and provisional answers other than 100; TCP and TLS;
ICMP errors; NAT; a call manager that asks for a restart; configuration changes and
shutdown; duplicated answers; the notify timer, which only reports. The stability
check before a fallback never runs, as `wan_failure` is never set.

### RelDev and RetxWindow

A message is a record of what the list compares: Call-ID, CSeq number and method, the
tag of the To header and the response code; `req` stands for `is_request` and for the
From and To users, which tell the peer's requests from answers to ours. `ring` and
`counter` are `gSIPRRList` and its cursor, which wraps lazily: it may rest one past the
end. An action is the whole check of a received message, the whole of storing an
answer, or a change in the call's `phase`, on which the callers' tag checks depend.
`out` is what the step sent again and to what. The peer may send any message of `Msgs`
at any time and as often as it likes, so that all losses, repetitions and reorderings
happen.

`MsgsAssumption` says what an honest peer guarantees: it numbers its requests, and in
a Call-ID that it uses for a second call our requests do not have its numbers. It does
allow both ends to number a re-INVITE alike, which is why `OwnAnswer` is no triviality.
`whole = FALSE` is an answer whose new text could not be composed: it keeps the length
of the old one (`ccsip_reldev.c:172`). Retransmission handling cannot be switched off
(`SipRelDevEnabled` is 1 and never written). `sipRelDevGetStoredCoupledMessage()` only
copies an entry out.

`RetxWindow` is what the list is for: it knows the last `Size` messages by age, hands
none of them on twice unless it is provisional, and meets a retransmission with an
answer made for a message alike. `RelDev` implements it with `win[a]` the slot `a`
places behind the cursor (`SlotOf`).

## 3. The runs

| Run | Instance | Result |
|---|---|---|
| `queue_faults` | 3 threads, 2 sends each, both queues of one message, all failures | types, order, hand-over of buffers and the counter hold; refines the steps of `MsgFifo` whatever fails |
| `queue_fifo` | 2 threads, 3 sends each, extended queue of two, no outright failure | nothing is stranded, all that was sent is read, sends return, refines `MsgFifo` with its fairness |
| `timer_service` | 2 clients with a timer each, durations of 1 and 2 ms, 3 and 1 calls, half milliseconds, expiry queue of one | types, the list is sound, own results, cancel is effective, deltas keep time up to the truncation, refines `TimerService`; calls return, timers end |
| `gsm_glare` | one connected call, 3 requests, 2 re-INVITEs of the peer, 2 faults | types, gate, answers; a waiting call can be woken and its pending state is left, unless it was misled about the timer |
| `gsm_busy` | three calls (connected, incoming, dialled), 3 requests, 1 fault | one call has the audio, gate, the queue drains |
| `reg_failover` | 2 call managers that accept, refuse or are silent, 1 retransmission, a call, one message queued | the standby is watched and stays so, the backup block is the standby's, the phone registers or reports failure, failovers end |
| `reg_responses` | 2 call managers with every answer, no retransmission, a call, two messages queued | types; numbers of blocks are never lost; each call manager has one place; both threads agree on a failover |
| `reldev` | ring of 2, 2 calls, 8 messages: first INVITEs, crossing re-INVITEs numbered alike with 180, 200 and 486, an ACK, a NOTIFY, a Call-ID used again | types, a retransmission gets its own answer, a new call none of an older one, the ring refines `RetxWindow` |
| `gsm_deferred`, `gsm_late`, `reg_fallback`, `reldev_ack` | the smallest instances that show the findings | violations, see below |

Why the bounds are enough. Queues: with capacities of one and two every
combination of empty, partly full and full is met with a sender in each position,
and two sends of a thread are needed for order, three to overflow twice. Timers:
two clients are needed for mixed results and for a client whose own full queue the
service posts to; two durations for a timer before and one after another in the list,
with the sum of its delta to keep; two ticks to the millisecond for an expiry that comes
early. The clock stops at `MaxTime`, after which any timer may expire. Longer lists, with
insertions and removals in the middle, finer clocks and longer times are covered by the
proofs, which are for any number of timers and any `Grain`. Calls: glare needs one call and one re-INVITE from each side, retried once, thus
two faults; waiting for one another needs a call to wait for, one that waits and one
that comes between. Registration: two call managers are enough for every place to be
taken, lost and regained without end; with two messages in the SIP queue an expiry, an
answer and a request overtake one another; one retransmission distinguishes the first
from the last. `MaxQ` and `MaxAppQ` hold back only new expiries, answers and calls,
never a handler's own posts. `OneRole`, `FailoverAnswered` and `StandbyWatched` are about two call managers: with
three, the code itself forgets one that is less preferred than the standby, a token
granted during a failover changes the mode of the application before it has answered,
and the standby after the first failover is not watched (below). Retransmissions: a ring
of two wraps in every run of three messages, and eight messages overflow it with each
kind of entry; the proofs cover all sizes.

Deadlock is not checked in `queue_faults`, where a message whose refill failed stops
the system, nor in the registration runs: after all call managers have failed nothing
happens any more.

Fairness. Weak fairness of a thread's own steps says that the operating system
runs it: the GSM thread, the SIP thread, the application thread, the timer service,
senders inside a call. `TickWaiting` says that time passes. `PeerResponse` (the ACK,
the answer to our re-INVITE, the end of our BYE) is fair because the SIP transactions
have timers that bring about an outcome when the peer is silent. In `RegMgr` the line's
timers expire and calls end, strongly fair only because the bound `Room` disables them
now and then; the program itself has no such bound. No answer of a call manager is
assumed. Nothing obliges a user to ask, a peer to call, ring, answer an INVITE, refuse
or send a re-INVITE.

### Findings

* **Events left behind the gate** (`gsm_deferred`). The wake-up is a NULL message,
  which the task loop ignores, and one job is run per message.
* **A fallback away from the primary** (`reg_fallback`). The preferences are compared
  when the token is asked for, not when it is granted. With the two better call
  managers back at once, the phone falls back to the primary and then leaves it for the
  other one.
* **An ACK kept with a ringing** (`reldev_ack`). The ACK is stored under the code of the
  response received last. A 180 that was overtaken by the 200 takes it, and a
  retransmitted 200 is dropped without an ACK.
* **A call left to a timer that is over** (`gsm_late`). The timer service posts an expiry
  before it clears `timerActive`, and `fsmdef.c:5631` (like 4414) asks
  `cprIsTimerRunning()` without a lock. A HOLD is refused with 491, the request timer
  expires, and its expiry is handled: the HOLD is sent again. The user's RESUME, handled
  before the service thread goes on, finds the timer running and leaves the sending to
  it. The call is in RESUME_PENDING with the gate closed; the ack of the HOLD is ignored
  there unless it is another refusal, and nothing else need ever wake the call.
  `WaitingCallWakes` is what the comments take for granted. `WakesUnlessMisled` says that
  this is the only way in which a call is left with nothing to wake it, and is proved;
  `PendingEnds`, that all other calls do leave their pending state, is checked. Both are
  about the code with this window.

Other behaviours of the code that the models contain and for which no run is kept:

* Queue: with `MayFail`, `NoStranded` fails. `cprMoveMsgToQueue()` only logs a failed
  re-post; with the OS queue empty the reader sleeps for good, while senders keep
  succeeding into the extended queue.
* Timers: `removeTimer()` at expiry holds no lock, contrary to its comment, and clears
  `timerActive` before its last write, so it can write a block that
  `cprDestroyTimer()` has freed. With `CreateRace = TRUE` two timers get one id and
  `CancelEffective` fails. Each command read drops what `select()` had left of a
  millisecond (line 1245), so a timer expires early by less than a millisecond for each
  command read while it runs, with no limit but their number.
* Call control: HOLD refused with 491 in RESUME_PENDING leads to CONNECTED without
  `fim_unlock_ui()`. A HOLD of the GSM's own in RESUME_PENDING goes to HOLDING at once,
  without regard to the RESUME under way, and the ends disagree; so
  they do when HOLD is refused with 491 in HOLD_PENDING, where the ack of a HOLD has no
  handler. An END_CALL that overtakes a re-posted OFFHOOK ends the call, which the
  OFFHOOK then starts again under its old id.
* Registration: an answer to a fallback block stops the line's ack timer; if the line
  was told 100 Trying, which stopped its retransmissions, it stays in REGISTERING. After
  a 200 with too short an expiry, the comment at `ccsip_register.c:853` expects another
  attempt after the expires timer, which the un-registration asked for in the same
  handler stops; the line ends in IDLE. These two answers are not in `reg_failover`'s
  instance. A RETRY message overtaken by the token turns the block back to monitoring
  while the application prepares the fallback, and the phone stays without a
  registration (hence `fbEntry` in `Registers`). An expiry message can carry a pointer
  to a freed block. A standby that answers with Retry-After is not asked again by its
  keep-alive. With three call managers the new standby of the first failover is never
  asked at all: `ccsip_register.c:921` starts its monitoring at the 200 of the active one
  only while `start_standby_monitor` is set, which the first registration has cleared and
  nothing sets again but `ccsip_register_init()`, where the comment at
  `sip_common_regmgr.c:2596` has it that "Monitoring of standby node will start when we
  get a 200 ok for the new active cucm" (`StandbyWatched` fails in `reg_fallback`'s
  instance). After all call managers failed nothing registers again.
* Retransmissions: a first INVITE that arrives again once the call is up gets a 481,
  which replaces the stored 200 (`TagMismatch`). An answer that cannot be composed leaves
  a torn one.

And seen while reading, outside the models: `dcsm_shutdown()` drops the list of deferred
events with their messages; a request pending timer that cannot be started leaves the
call in its pending state (`fsmdef.c:2011`); the subtraction at `ccsip_register.c:668`
is unsigned.

## 4. The proofs

The eight proof modules are about `Spec`, without fairness, and use only the assumptions
named in the specifications (`QueueAssumption`, `NoThreadAssumption`,
`TimersAssumption`, `NoneAssumption`, `CallsAssumption`, `StartAssumption`,
`RegMgrAssumption`, `NAssumption`, `MsgsAssumption`), which TLC evaluates in the runs.
A few theorems have a hypothesis besides. `~CreateRace` turns off a race of the code,
and `~MayFail` outright failures of the operating system. The models have these, and with
them TLC finds the statement violated for `CancelEffective` and `NoStranded` (section 3). `StandbyStaysWatched` leaves out two
kinds of answer of a call manager, see there.

**The queue** (`CprMsgQueueProofs`), for any threads, capacities, attempts and sends.

* `TypeCorrect`: `TypeOK`, together with `Started` (a thread inside a call has begun
  one) and `MutexHeld` (who may hold the mutex, and where), without which it is not
  inductive.
* `NothingStranded`: `NoStranded`, provided nothing fails outright (with failures it is
  false). By itself it is not inductive: a sender that saw `EAGAIN` and has not yet
  posted has nothing on the extended queue, and the reader might pass in between.
  `HolderSeen` closes that: while a sender is between the two, the OS queue is not empty
  or the reader has to wait for the mutex at its decrement. The lock taken for a
  statistic is thus what keeps the queue alive.
* `CountCorrect`: `CountNotNegative`, failures included.

Its second half shows that the two queues are one, failures included.

* `OrderCorrect`: `InOrder`. The danger is a sender that sees `EAGAIN` and posts to the
  extended queue while another one finds room again in the OS queue. `Room` excludes
  it: a sender about to put the first message on the extended queue finds it still
  empty, since it has held the mutex since before its `msgsnd()`. `Placed` says that
  what is queued is older than what its thread is still trying to send.
* `HandOver`: `Ownership`. A failed send leaves nothing queued (`Failures`), and one
  that is past its post has its message queued or read (`Counted`).
* `FifoImplemented`: `IsFifo`. With the buffer `sys \o ext` each step is a `Put`, a
  `Get` or a stutter of `MsgFifo`; the move of a message between the queues is a stutter
  (`MoveConcat`). `EachStep` reduces the steps of the code to the few things that they do
  to the whole, and the invariants are proved about those.

**The timers** (`CprTimersProofs`, `CprTimersTimeProofs`), for any threads, timers,
durations and numbers of calls.

* `TypeCorrect`: `TypeOK`. Not obvious, as the place in the list and the new deltas are
  found by adding up deltas.
* `ResultsMatch`: `OwnResult`. `ExchangeInv`: who waits is who holds `api_mutex`, and
  there is one command or one result under way, of that thread.
* `ListCorrect`: `ListMatchesActive`, and `CancelCorrect`: `CancelEffective`. Timers are
  found by id on removal, so `RaceFreeInv` says that ids differ (`IdInv`), which is where
  `~CreateRace` is needed; that `timerActive` says what is listed, each timer once
  (`ListInv`), also between the two writes of an expiry; and that a thread frees only a
  timer that does not run (`CallInv`).
* `TimersOnTime`: `OnTime`, under the same hypothesis. `Due`: the deltas up to a timer
  add up to the time it has left, less at most what the commands read since its start
  dropped (`early`), and more at most the time that the service spent outside
  `select()`. `InsertSums` and `RemoveSums` say that an insertion and a
  removal leave the sums of all other timers as they were; that is what splitting a delta
  on insertion and adding it to the next on removal is for. Facts about sums come from the
  well-foundedness of the numbers (`LeastNumber`, `UpTo`), so no induction over an operator
  is needed.
* `TimersImplemented`: `IsTimerService`, under the same hypothesis. `ExpiryInv` says that
  an expiry is posted for a head whose delta is used up, which with `Due` means that its
  time has come but for `early`, and that the service clears the data only of a timer that no longer
  runs. Each command is then a `Start`, a `Stop` or `Idle` (`LeftAlone` says
  what it does to the other timers), the post is an `Expire`, the
  first write of the removal an `End`, and all else is not seen. `MaxTime`, where the
  model's clock stops, is any number.

**Call control** (`GsmCallsProofs`), for any finite set of calls, any requests and any
number of faults: `TypeCorrect`, `GateCorrect` (`GateMatchesCalls`) and `AudioExclusive`
(`OneCallUsesAudio`). The invariant `Inv` adds `ChainOut` to them: a call in a state
other than IDLE has a call chain, and one that is being dialled is outgoing. That is
needed because `fsmdef_get_ringing_n_error_call_dcbs()` looks for calls by their chain
and `ToEnd` picks the outgoing ones; a dialled call that it missed would let a second
one have the audio (`NotInTheWay`). The argument has two halves. `StayCore` and
`ChangeCore` say once and for all under which conditions (`StayGood`, `ChangeGood`) the
two ways in which a handler ends keep the invariant, the gate's update included. Then
each handler of the table is a case that establishes those conditions, and the steps of
the timers, the SIP thread and the peers are shown to change no call's state. The
sequence made of the set of calls to end is dealt with by `SetToSeqType`.

`GsmCallsDialogProofs` relates the two threads, for the same instances.

* `ReinviteAnswered`: `ReinviteIsAnswered`. `fsmdef` drops an event that its state has no
  row for, and a re-INVITE must never be dropped so. `SipAhead` says that what the SIP
  thread has told call control fits its dialog, and `GsmAhead` that a call with an
  established dialog is in a state that answers, or will be before it sees the re-INVITE
  because the ack of its CONNECTED is ahead in the queue (`AckAhead`), or has sent a
  release. `Known` and `RecordGood` keep messages and records of calls that never began, or
  that would end without a release, out of the argument.
* `WaitingWakes`: `WakesUnlessMisled`, with no hypothesis about the timer service.
  `Wakes` says by what each pending state is left: the retry timer, a request that the SIP
  thread still has to answer, or an end; a timer that has fired counts only while its
  expiry is queued.

Each handler is described by what it may do to the call's record and which event it may send
(`Outcome`, `Allowed`), each step of the SIP thread and of the peer by what it posts and
takes (`SipMoves`); `HandledDialog`, `HandledWakes`, `ReactDialog` and `ReactWakes` show
once that such steps keep the invariants.

**Registration** (`RegMgrProofs`), for any number of call managers, any answers and any
bounds: `TypeCorrect` (`TypeOK`) and `SlotsCorrect` (`SlotsAccounted`). The invariant
`Good` has three parts. A message names a block of the kind that its handler works on, and
only the messages of a fallback block's timers can name one that was freed (`GoodMessage`).
The line and the standby always have a block in a registration state, and a fallback block
is never in one that only the line can be in; the block that the phone falls back to
exists. A number is free, or is that of a block in the list. As
handlers call one another, the proof goes procedure by procedure: most keep the record good
and free no block (`Keeps`), so that the caller may go on with its own block
(`KeepsOn`); the few that free one have lemmas of their own (`FreeGood`, `CleanGood`), and
their callers are shown not to touch it again.

`RegMgrStandbyProofs` is about the standby, for the same instances.

* `BackupCorrect`: `BackupIsStandby`, for any number of call managers, among them the
  third one of the case CSCsx60672 that `sip_common_regmgr.c:1329` describes and that two
  call managers do not have. A REG_REQ for the backup block would put it into a
  state that the table does not say, and the WAIT of a fallback block, whose handler it
  shares with the standby, would stop the standby's keep-alive timer; the invariant
  `Right` therefore adds (`Clean`) that no request to register is ever made for it and
  that nothing of Retry-After is under way unless a call manager gives one.
* `StandbyStaysWatched`: `StaysWatched`, an action property. The chain that watches the
  standby consists of a retransmission or keep-alive timer, its expiry message, and the
  CANCEL or RETRY that sends the next request; each handler has to start the next link
  before the last is gone, whatever else is queued. Retry-After is left out since there
  the chain does break, as section 3 says; 100 Trying since it leaves only the ack timer,
  which registering the line again stops, being found by line number. Both are in
  `reg_responses`.

The steps of a handler are of three kinds. Most procedures leave the standby alone
(`Holds`), a handler as a whole keeps the chain (`Fine`), and one that takes a new standby
ends with its block set up and a message for it (`Settled`). `Holds` composes before and
after either of the others, so that each procedure is looked at once, and each row of
`gSIPRegSMTable` puts them together.

**The retransmission list** (`RelDevProofs`), for every length of the ring, any calls and
any messages of `MsgsAssumption`.

* `TypeCorrect`: `TypeOK`; the cursor never leaves the ring.
* `AnswersFit`: `OwnAnswer`. What is sent again is what was stored, so the invariant
  `IInv` speaks about the ring: `Fits` (every stored answer fits the message of its
  entry), `NoResponses` (while a call is being set up, when the tag is not compared, the
  ring has no response of that call that an answer could be stored with) and `Pending`
  (what waits for its ACK is a response).
* `CallsBeginAfresh`: `NewCallsAreNew`, an action property. Only `NewCall` makes the phone
  respond to a call, and with the requests of its Call-ID forgotten no entry of the ring
  can match its INVITE, which is a request with that Call-ID.
* `RingIsWindow`: `IsWindow`, that is `Spec => Window!Spec`. Storing a message moves the
  cursor and so changes the age of every slot: `SlotFacts` says that ages and slots
  correspond one to one (`SlotOf`, `AgeOf`), `ShiftFacts` that a store makes every entry
  one place older and drops the oldest, `WindowStep` that each action is a step of the
  window or a stutter.

Out of the prover's reach and left to TLC: liveness (`SentIsRead`, `SendReturns`,
`CallReturns`, `TimerEnds`, `PendingEnds`, `QueueDrains`, `Registers`, `FailoverEnds`)
and the fairness part of `ImplementsFifo`.

Three invariants of `RegMgr` stay with TLC, all about two call managers. `StandbyWatched`
says of every state at rest what `StaysWatched` says of steps: that a chain once begun
goes on is proved, that one is begun is not, for it is not always (section 3). `OneRole`
and `FailoverAnswered` hold because messages of an earlier failover are handled before
those of the next: an ack timer that expired for a standby which has since changed
places, or an answer of the application to a failover that is over, would break them if
it came late enough. An inductive invariant would have to say, for every kind of message,
which others may be ahead of it in both queues, with no bound on the queues; the instances
checked bound them, and the statement for any length is open.

## 5. Plan

Done: the queues and the timers with their refinements, the gate and call control, and the
retransmission list, each with the safety properties of its runs proved; registration,
failover and fallback, with the account of its blocks, the backup block and the watch
over the standby proved. To come, in this order:

1. The order of messages between two failovers in `RegMgr`, and from it `OneRole` and
   `FailoverAnswered` for two call managers.
2. The Darwin queue (`cpr_darwin_ipc.c`) as a second implementation of `MsgFifo`.
3. The transfer and conference machines over `GsmCalls`.
4. Subscriptions and publication; the application layer's copies of session state;
   the C++ wrappers' handles.

## 6. Not modelled

* Most of the repository's lines are copies: `src/native/` holds the same phone twice
  more, inside two browsers' trees, with their patches, and third-party libraries. The
  models are of `src/src/sipcc`, and a statement about a copy would need its own reading.
* `fsmcac.c` never runs: `fim.c:469` asks for bandwidth only if `platWlanISActive()`,
  which returns FALSE in every build. A model would have no reachable state.
* The SDP and SIP parsers and formatters, and the transport, are text and sockets; what
  they hand to the state machines is an input of the models.
* Media, the browser extension and the test programs are glue to code that is not here,
  or not part of the phone.
* Transfer, conference, subscriptions, publication, the application layer's copies of
  state and the C++ handles have state worth modelling, and are in the plan.
