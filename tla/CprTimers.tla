----------------------------- MODULE CprTimers -----------------------------
(***************************************************************************)
(* The CPR timer service (cpr/linux/cpr_linux_timers_using_select.c).  One *)
(* thread keeps a list of running timers, each with the time between the   *)
(* expiry of its predecessor and its own, and sleeps in select() until the *)
(* first expires or a command arrives.  Clients start, cancel, update and  *)
(* destroy timers: a call sends one command under api_mutex and waits for  *)
(* the result, but the tests that decide whether to send it read the timer *)
(* block without any lock, while the service may be expiring that timer.   *)
(* The list counts milliseconds and select() finer: times are in ticks of  *)
(* the clock here, Grain to the millisecond.                               *)
(***************************************************************************)
EXTENDS Integers, Sequences, FiniteSets

CONSTANTS Clients,     \* threads that use timers
          Timers,      \* timer blocks
          UserOf,      \* UserOf[t]: the thread that t belongs to
          Calls,       \* the calls the application makes after cprCreateTimer
          Durations,   \* durations (uint32_t) given to start and update
          MaxInt,      \* largest int32_t, the type of timerBlk.duration
          QCap,        \* expiry messages a client's message queue can hold
          MaxCalls,    \* bound: MaxCalls[c] is the number of timer calls c makes
          Grain,       \* ticks of the clock in a millisecond
          MaxTime,     \* bound: ticks of the clock
          CreateRace   \* BOOLEAN: two threads may be in cprCreateTimer() at once

ASSUME TimersAssumption ==
    /\ UserOf \in [Timers -> Clients]
    /\ Calls \subseteq {"start", "cancel", "update", "destroy"}
    /\ Durations \subseteq Nat
    /\ MaxInt \in Nat /\ QCap \in Nat /\ MaxTime \in Nat
    /\ Grain \in Nat \ {0}
    /\ MaxCalls \in [Clients -> Nat]
    /\ CreateRace \in BOOLEAN

None == "none"

ASSUME NoneAssumption == None \notin Clients \union Timers

VARIABLES
  \* the timer blocks
    exists,      \* allocated by cprCreateTimer and not yet destroyed
    id,          \* cprTimerId of each timer
    active,      \* timerActive of each timer
    dur,         \* duration of each timer: the delta while it is listed, else -1
    data,        \* user data of each timer: 0 is NULL, 1 what the user gave
    list,        \* the list from timerListHead on
  \* the service thread
    svc,         \* "select", "send", "deactivate", "clear" or "dead"
    tv,          \* time left in the current select()
    cmd,         \* command in serv_sock, or NoCall
    expiring,    \* the timer process_expired_timers() is removing, or None
  \* the clients
    pc,          \* where each client is
    call,        \* the client's call in progress
    calls,       \* number of calls made
    apiMutex,    \* holder of api_mutex, or None
    rsp,         \* result in client_sock, or NoResult
    queue,       \* expiry messages on each client's message queue
    nextId,      \* the static counter of cprCreateTimer
  \* history
    now,         \* the clock
    deadline,    \* when each running timer is due
    lag,         \* time that passed while the service was not in select()
    early        \* how early a running timer may be: see CountCut

blocks  == <<exists, id, active, dur, data, list>>
service == <<svc, tv, cmd, expiring>>
clients == <<pc, call, calls, apiMutex, rsp, nextId>>
clock   == <<now, deadline, lag, early>>
vars    == <<blocks, service, clients, queue, clock>>

ToInt32(d) == IF d > MaxInt THEN d - 2 * (MaxInt + 1) ELSE d

\* A duration in milliseconds, as the int32_t of the timer block, in ticks.
Ticks(d) == Grain * ToInt32(d)

\* A time in ticks without the rest that is no whole millisecond.
Whole(x) == x - (x % Grain)

Listed(t) == \E k \in 1..Len(list) : list[k] = t

\* The time to the expiry of the k-th timer of l: the sum of the deltas.
Prefix(durs, l, k) ==
    LET sum[j \in 0..k] == IF j = 0 THEN 0 ELSE sum[j - 1] + durs[l[j]]
    IN  sum[k]

NoCall == [op |-> None, timer |-> None, duration |-> 0, data |-> 0]
NoResult == [op |-> None, timer |-> None, ok |-> FALSE]

Init ==
    /\ exists = [t \in Timers |-> FALSE]
    /\ id = [t \in Timers |-> 0]
    /\ active = [t \in Timers |-> FALSE]
    /\ dur = [t \in Timers |-> -1]
    /\ data = [t \in Timers |-> 0]
    /\ list = <<>>
    /\ svc = "select" /\ tv = 0 /\ cmd = NoCall /\ expiring = None
    /\ pc = [c \in Clients |-> "idle"]
    /\ call = [c \in Clients |-> NoCall]
    /\ calls = [c \in Clients |-> 0]
    /\ apiMutex = None /\ rsp = NoResult
    /\ queue = [c \in Clients |-> <<>>]
    /\ nextId = 0
    /\ now = 0 /\ deadline = [t \in Timers |-> 0] /\ lag = 0
    /\ early = [t \in Timers |-> 0]

-----------------------------------------------------------------------------
(* Clients.                                                                *)

(* A call goes on at a label, or returns at "idle". *)
Goto(c, label) ==
    /\ pc' = [pc EXCEPT ![c] = label]
    /\ call' = IF label = "idle" THEN [call EXCEPT ![c] = NoCall] ELSE call

Begin(c, op, t, d, dt, label) ==
    /\ pc[c] = "idle" /\ calls[c] < MaxCalls[c] /\ UserOf[t] = c /\ op \in Calls
    /\ calls' = [calls EXCEPT ![c] = @ + 1]
    /\ call' = [call EXCEPT ![c] =
                   [op |-> op, timer |-> t, duration |-> d, data |-> dt]]
    /\ pc' = [pc EXCEPT ![c] = label]
    /\ UNCHANGED <<apiMutex, rsp, queue, clock>>

(* cprCreateTimer: fills the blocks; "cprTimerId++" on a static counter is *)
(* a read and a write.                                                     *)
CreateTimer(c, t) ==
    /\ ~exists[t]
    /\ CreateRace \/ \A b \in Clients : pc[b] # "created"
    /\ pc[c] = "idle" /\ UserOf[t] = c
    /\ pc' = [pc EXCEPT ![c] = "created"]
    /\ call' = [call EXCEPT ![c] =
                   [op |-> "create", timer |-> t, duration |-> 0, data |-> 0]]
    /\ id' = [id EXCEPT ![t] = nextId]
    /\ exists' = [exists EXCEPT ![t] = TRUE]
    /\ active' = [active EXCEPT ![t] = FALSE]
    /\ dur' = [dur EXCEPT ![t] = -1]
    /\ data' = [data EXCEPT ![t] = 0]
    /\ UNCHANGED <<list, service, calls, apiMutex, rsp, nextId, queue, clock>>

CountId(c) ==
    /\ pc[c] = "created"
    /\ nextId' = id[call[c].timer] + 1
    /\ Goto(c, "idle")
    /\ UNCHANGED <<blocks, service, calls, apiMutex, rsp, queue, clock>>

(* cprStartTimer with fresh user data, which is never NULL here. *)
StartTimer(c, t, d) ==
    /\ exists[t]
    /\ Begin(c, "start", t, d, 1, "add")
    /\ UNCHANGED <<blocks, service, nextId>>

CancelTimer(c, t) ==
    /\ exists[t]
    /\ Begin(c, "cancel", t, 0, 0, "cancel")
    /\ UNCHANGED <<blocks, service, nextId>>

(* cprUpdateTimer "grabs" the data before it cancels the timer. *)
UpdateTimer(c, t, d) ==
    /\ exists[t]
    /\ Begin(c, "update", t, d, data[t], "cancel")
    /\ UNCHANGED <<blocks, service, nextId>>

DestroyTimer(c, t) ==
    /\ exists[t]
    /\ Begin(c, "destroy", t, 0, 0, "cancel")
    /\ UNCHANGED <<blocks, service, nextId>>

(* Where a call goes once its cprCancelTimer() has succeeded. *)
AfterCancel(c) ==
    Goto(c, CASE call[c].op = "update"  -> "add"
              [] call[c].op = "destroy" -> "free"
              [] OTHER                  -> "idle")

(* cprCancelTimer: the unlocked test of timerActive. *)
TestActive(c) ==
    /\ pc[c] = "cancel"
    /\ IF active[call[c].timer] THEN Goto(c, "remove") ELSE AfterCancel(c)
    /\ UNCHANGED <<blocks, service, calls, apiMutex, rsp, queue, nextId,
                   clock>>

(* Fault: API_ENTER is missing. *)
SendCmdUnlocked(c) ==
    /\ pc[c] \in {"add", "remove"} /\ cmd = NoCall
    /\ apiMutex' = c
    /\ cmd' = [op |-> pc[c], timer |-> call[c].timer,
               duration |-> call[c].duration, data |-> call[c].data]
    /\ Goto(c, "wait")
    /\ UNCHANGED <<blocks, svc, tv, expiring, calls, rsp, queue, nextId, clock>>

(* addTimerToList and removeTimerFromList: one command at a time. *)
SendCmd(c) ==
    /\ pc[c] \in {"add", "remove"}
    /\ apiMutex = None
    /\ apiMutex' = c
    /\ cmd' = [op |-> pc[c], timer |-> call[c].timer,
               duration |-> call[c].duration, data |-> call[c].data]
    /\ Goto(c, "wait")
    /\ UNCHANGED <<blocks, svc, tv, expiring, calls, rsp, queue, nextId, clock>>

(* sendto() fails: cprStartTimer() or cprCancelTimer() does, and an update *)
(* or destroy goes no further.                                             *)
SendFails(c) ==
    /\ pc[c] \in {"add", "remove"}
    /\ apiMutex = None
    /\ Goto(c, "idle")
    /\ UNCHANGED <<blocks, service, calls, apiMutex, rsp, queue, nextId, clock>>

(* The result arrives.  A successful removal goes on to what the call does *)
(* after cprCancelTimer(); everything else ends the call.                  *)
ReceiveResult(c) ==
    /\ pc[c] = "wait" /\ apiMutex = c /\ rsp.op # None
    /\ apiMutex' = None /\ rsp' = NoResult
    /\ IF rsp.op = "remove" /\ rsp.ok THEN AfterCancel(c) ELSE Goto(c, "idle")
    /\ UNCHANGED <<blocks, service, calls, queue, nextId, clock>>

(* Fault: a destroyed timer gets an id outside the type. *)
FreeTimerMinusOne(c) ==
    /\ pc[c] = "free"
    /\ exists' = [exists EXCEPT ![call[c].timer] = FALSE]
    /\ id' = [id EXCEPT ![call[c].timer] = -1]
    /\ Goto(c, "idle")
    /\ UNCHANGED <<active, dur, data, list, service, calls, apiMutex, rsp,
                   queue, nextId, clock>>

(* The end of cprDestroyTimer: both blocks are freed. *)
FreeTimer(c) ==
    /\ pc[c] = "free"
    /\ exists' = [exists EXCEPT ![call[c].timer] = FALSE]
    /\ id' = [id EXCEPT ![call[c].timer] = 0]
    /\ Goto(c, "idle")
    /\ UNCHANGED <<active, dur, data, list, service, calls, apiMutex, rsp,
                   queue, nextId, clock>>

(* The client's task takes an expiry message from its queue. *)
HandleExpiry(c) ==
    /\ pc[c] = "idle" /\ queue[c] # <<>>
    /\ queue' = [queue EXCEPT ![c] = Tail(@)]
    /\ UNCHANGED <<blocks, service, clients, clock>>

-----------------------------------------------------------------------------
(* The service thread.                                                     *)

Without(s, k) == SubSeq(s, 1, k - 1) \o SubSeq(s, k + 1, Len(s))

(* addTimer's walk: the new timer goes before the first one whose delta is *)
(* larger than what is left of the new duration there, or to the end.      *)
InsertAt(durs, D) ==
    LET later == {k \in 1..Len(list) : D - Prefix(durs, list, k - 1) < durs[list[k]]}
        pos == IF later = {} THEN Len(list) + 1
               ELSE CHOOSE k \in later : \A j \in later : k <= j
    IN  [pos |-> pos, delta |-> D - Prefix(durs, list, pos - 1)]

(* addTimer on the list whose head already shows the time left in select. *)
AddTimer(durs, t, D, dt) ==
    LET at == InsertAt(durs, D)
        new == [durs EXCEPT ![t] = at.delta]
    IN  /\ list' = SubSeq(list, 1, at.pos - 1) \o <<t>>
                      \o SubSeq(list, at.pos, Len(list))
        /\ dur' = IF at.pos <= Len(list)
                  THEN [new EXCEPT ![list[at.pos]] = @ - at.delta] ELSE new
        /\ active' = [active EXCEPT ![t] = TRUE]
        /\ data' = [data EXCEPT ![t] = dt]
        /\ deadline' = [deadline EXCEPT ![t] = now + D]

(* Fault: the time of the removed timer is not added back. *)
RemoveAtShort(durs, k) ==
    /\ list' = Without(list, k)
    /\ dur' = [durs EXCEPT ![list[k]] = -1]
    /\ active' = [active EXCEPT ![list[k]] = FALSE]
    /\ deadline' = [deadline EXCEPT ![list[k]] = 0]

(* Fault: timerActive is not reset. *)
RemoveAtActive(durs, k) ==
    LET u == list[k]
        new == [durs EXCEPT ![u] = -1]
    IN  /\ list' = Without(list, k)
        /\ dur' = IF k < Len(list)
                  THEN [new EXCEPT ![list[k + 1]] = @ + durs[u]] ELSE new
        /\ UNCHANGED <<active, deadline>>

(* removeTimer looks a timer up by its id; the time it had left goes to    *)
(* its successor.                                                          *)
RemoveAt(durs, k) ==
    LET u == list[k]
        new == [durs EXCEPT ![u] = -1]
    IN  /\ list' = Without(list, k)
        /\ dur' = IF k < Len(list)
                  THEN [new EXCEPT ![list[k + 1]] = @ + durs[u]] ELSE new
        /\ active' = [active EXCEPT ![u] = FALSE]
        /\ deadline' = [deadline EXCEPT ![u] = 0]

(* select() is entered with the duration of the head of the list; a        *)
(* negative one is EINVAL, which ends the service loop.                    *)
EnterSelect ==
    /\ tv' = IF list' = <<>> THEN 0 ELSE dur'[Head(list')]
    /\ svc' = IF tv' < 0 THEN "dead" ELSE "select"

Reply(result) == rsp' = [op |-> cmd.op, timer |-> cmd.timer, ok |-> result]

(* select() returned with a command: the head is set to the time left, of  *)
(* which tv_usec/1000 drops the rest of a millisecond.                     *)
HeadLeft == IF list = <<>> THEN dur ELSE [dur EXCEPT ![Head(list)] = Whole(tv)]

(* History: each command that is read brings the timers that run on        *)
(* forward by less than a millisecond.                                     *)
CountCut ==
    early' = [t \in Timers |-> IF active[t] /\ active'[t]
                               THEN early[t] + (Grain - 1) ELSE 0]

(* Fault: the check that the timer is not already running is missing. *)
ReadAddTwice ==
    /\ svc = "select" /\ cmd.op = "add"
    /\ AddTimer(HeadLeft, cmd.timer, Ticks(cmd.duration), cmd.data)
    /\ Reply(TRUE)
    /\ cmd' = NoCall
    /\ EnterSelect /\ CountCut
    /\ UNCHANGED <<exists, id, expiring, pc, call, calls, apiMutex, nextId, queue,
                   now, lag>>

ReadAdd ==
    /\ svc = "select" /\ cmd.op = "add"
    /\ IF active[cmd.timer]
       THEN /\ dur' = HeadLeft /\ Reply(FALSE)
            /\ UNCHANGED <<list, active, data, deadline>>
       ELSE /\ AddTimer(HeadLeft, cmd.timer, Ticks(cmd.duration), cmd.data)
            /\ Reply(TRUE)
    /\ cmd' = NoCall
    /\ EnterSelect /\ CountCut
    /\ UNCHANGED <<exists, id, expiring, pc, call, calls, apiMutex, nextId, queue,
                   now, lag>>

ReadRemove ==
    /\ svc = "select" /\ cmd.op = "remove"
    /\ LET t == cmd.timer
           found == {k \in 1..Len(list) : id[list[k]] = id[t]}
       IN  /\ IF found # {}
              THEN RemoveAt(HeadLeft, CHOOSE k \in found : \A j \in found : k <= j)
              ELSE /\ active' = [active EXCEPT ![t] = FALSE]
                   /\ dur' = [HeadLeft EXCEPT ![t] = -1]
                   /\ UNCHANGED <<list, deadline>>
           /\ data' = [data EXCEPT ![t] = 0]
    /\ Reply(TRUE)
    /\ cmd' = NoCall
    /\ EnterSelect /\ CountCut
    /\ UNCHANGED <<exists, id, expiring, pc, call, calls, apiMutex, nextId, queue,
                   now, lag>>

(* select() timed out: the head has expired. *)
Timeout ==
    /\ svc = "select" /\ list # <<>> /\ tv = 0
    /\ dur' = [dur EXCEPT ![Head(list)] = 0]
    /\ svc' = "send"
    /\ UNCHANGED <<exists, id, active, data, list, tv, cmd, expiring, clients,
                   queue, clock>>

(* Fault: the service waits for room on a full queue as long as it takes. *)
SendExpiryBlocking ==
    /\ svc = "send"
    /\ LET t == Head(list)
           c == UserOf[t]
       IN  /\ Len(queue[c]) < QCap
           /\ queue' = [queue EXCEPT ![c] =
                            Append(@, [timer |-> t, data |-> data[t]])]
    /\ svc' = "deactivate"
    /\ UNCHANGED <<blocks, tv, cmd, expiring, clients, clock>>

(* process_expired_timers posts the expiry message.  cprSendMessage gives  *)
(* up on a queue that stays full, and then the expiry is lost.             *)
SendExpiry ==
    /\ svc = "send"
    /\ LET t == Head(list)
           c == UserOf[t]
       IN  IF Len(queue[c]) < QCap
           THEN queue' = [queue EXCEPT ![c] =
                             Append(@, [timer |-> t, data |-> data[t]])]
           ELSE UNCHANGED queue
    /\ svc' = "deactivate"
    /\ UNCHANGED <<blocks, tv, cmd, expiring, clients, clock>>

(* Only then is the timer taken off the list; timerActive is cleared       *)
(* before the data.                                                        *)
Deactivate ==
    /\ svc = "deactivate"
    /\ RemoveAt(dur, 1)
    /\ expiring' = Head(list)
    /\ early' = [early EXCEPT ![Head(list)] = 0]
    /\ svc' = "clear"
    /\ UNCHANGED <<exists, id, data, tv, cmd, clients, queue, now, lag>>

(* Fault: the loop takes a timer that has a millisecond left for expired. *)
ClearDataEarly ==
    /\ svc = "clear"
    /\ data' = [data EXCEPT ![expiring] = 0]
    /\ expiring' = None
    /\ IF list # <<>> /\ dur[Head(list)] <= Grain
       THEN svc' = "send" /\ UNCHANGED tv
       ELSE /\ tv' = IF list = <<>> THEN 0 ELSE dur[Head(list)]
            /\ svc' = "select"
    /\ UNCHANGED <<exists, id, active, dur, list, cmd, clients, queue, clock>>

(* The end of removeTimer, and the loop of process_expired_timers: the     *)
(* next timer may have expired at the same time.                           *)
ClearData ==
    /\ svc = "clear"
    /\ data' = [data EXCEPT ![expiring] = 0]
    /\ expiring' = None
    /\ IF list # <<>> /\ dur[Head(list)] <= 0
       THEN svc' = "send" /\ UNCHANGED tv
       ELSE /\ tv' = IF list = <<>> THEN 0 ELSE dur[Head(list)]
            /\ svc' = "select"
    /\ UNCHANGED <<exists, id, active, dur, list, cmd, clients, queue, clock>>

-----------------------------------------------------------------------------
(* The clock.  While select() waits, the kernel counts tv down; the time   *)
(* that passes anywhere else is not accounted for.  The history stops at   *)
(* MaxTime, the clock does not.                                            *)
Waiting == svc = "select" /\ list # <<>> /\ tv > 0

TickWaiting ==
    /\ Waiting
    /\ tv' = tv - 1
    /\ now' = IF now < MaxTime THEN now + 1 ELSE now
    /\ UNCHANGED <<blocks, svc, cmd, expiring, clients, queue, deadline, lag, early>>

TickElsewhere ==
    /\ ~Waiting /\ now < MaxTime
    /\ now' = now + 1
    /\ lag' = IF list = <<>> THEN lag ELSE lag + 1
    /\ UNCHANGED <<blocks, service, clients, queue, deadline, early>>

-----------------------------------------------------------------------------
ClientStep(c) ==
    \/ CountId(c) \/ TestActive(c) \/ SendCmd(c) \/ SendFails(c)
    \/ ReceiveResult(c) \/ FreeTimer(c) \/ HandleExpiry(c)

ClientCall(c) ==
    \E t \in Timers :
        \/ CreateTimer(c, t) \/ CancelTimer(c, t) \/ DestroyTimer(c, t)
        \/ \E d \in Durations : StartTimer(c, t, d) \/ UpdateTimer(c, t, d)

ServiceStep ==
    ReadAdd \/ ReadRemove \/ Timeout \/ SendExpiry \/ Deactivate \/ ClearData

Next ==
    \/ \E c \in Clients : ClientCall(c) \/ ClientStep(c)
    \/ ServiceStep \/ TickWaiting \/ TickElsewhere

(* The service thread and threads inside a call keep running, tasks come   *)
(* back to their message queue, and time passes; nobody has to make calls. *)
Fairness ==
    /\ \A c \in Clients : WF_vars(ClientStep(c))
    /\ WF_vars(ServiceStep) /\ WF_vars(TickWaiting)

Spec == Init /\ [][Next]_vars

FairSpec == Spec /\ Fairness

-----------------------------------------------------------------------------
(* Properties.                                                             *)

CallTypes == [op : {None, "create", "start", "cancel", "update", "destroy"},
              timer : Timers \union {None}, duration : Durations \union {0},
              data : {0, 1}]

(* Types of the timer blocks, the service thread and the clients' calls.   *)
TypeOK ==
    /\ exists \in [Timers -> BOOLEAN] /\ active \in [Timers -> BOOLEAN]
    /\ id \in [Timers -> Nat] /\ nextId \in Nat
    /\ dur \in [Timers -> Int] /\ data \in [Timers -> {0, 1}]
    /\ list \in Seq(Timers)
    /\ svc \in {"select", "send", "deactivate", "clear", "dead"}
    /\ tv \in Int
    /\ expiring \in Timers \union {None}
    /\ pc \in [Clients -> {"idle", "created", "cancel", "add", "remove",
                           "wait", "free"}]
    /\ call \in [Clients -> CallTypes]
    /\ calls \in [Clients -> Nat]
    /\ apiMutex \in Clients \union {None}
    /\ now \in 0..MaxTime /\ lag \in 0..MaxTime
    /\ early \in [Timers -> Nat]

(* timerActive says exactly which timers are on the list, each once: the   *)
(* list of addTimer and removeTimer is never corrupt.                      *)
ListMatchesActive ==
    /\ \A t \in Timers : active[t] <=> Listed(t)
    /\ \A j, k \in 1..Len(list) : list[j] = list[k] => j = k

\* Time left for the k-th timer of the list, as the service sees it.
TimeLeft(k) ==
    Prefix(dur, list, k) + (IF svc = "select" THEN tv - dur[list[1]] ELSE 0)

(* The deltas add up: a timer is late by no more than the time the service *)
(* thread spent outside select(), and early by no more than the fractions  *)
(* of a millisecond lost in the commands read since it was started.        *)
OnTime ==
    now < MaxTime =>
      \A k \in 1..Len(list) :
        /\ TimeLeft(k) >= deadline[list[k]] - now - early[list[k]]
        /\ TimeLeft(k) <= deadline[list[k]] - now + lag

(* A cancel that reports success did stop the timer of that call: when the *)
(* result of removeTimer arrives, the timer is off the list.               *)
CancelEffective ==
    \A c \in Clients :
        pc[c] = "wait" /\ apiMutex = c /\ rsp.op # None /\ rsp.op = "remove"
            => ~active[call[c].timer]

(* The result a client reads is the answer to its own command: one request *)
(* is outstanding at a time on the shared socket.                          *)
OwnResult ==
    /\ \A c \in Clients : pc[c] = "wait" => apiMutex = c
    /\ \A t \in {cmd.timer, rsp.timer} \ {None} :
          apiMutex # None /\ pc[apiMutex] = "wait" /\ call[apiMutex].timer = t
    /\ cmd = NoCall \/ rsp = NoResult

(* Every timer call returns, even one made by a thread whose own full      *)
(* queue the service is trying to post to.                                 *)
CallReturns == \A c \in Clients : pc[c] # "idle" ~> pc[c] = "idle"

(* A running timer ends: it expires or is cancelled. *)
TimerEnds == \A t \in Timers : active[t] ~> ~active[t]

(* What each running timer was started for, and the timer whose expiry has *)
(* been posted but which has not been taken off the list yet.              *)
Alarms ==
    [t \in Timers |->
        IF active[t]
        THEN [on |-> TRUE, due |-> deadline[t], early |-> early[t], data |-> data[t]]
        ELSE [on |-> FALSE, due |-> 0, early |-> 0, data |-> 0]]
Firing == IF svc = "deactivate" THEN Head(list) ELSE None

Delays == {Ticks(d) : d \in Durations \union {0}}
Rounding == Grain - 1

(* The deltas, the socket and the service thread do for users what         *)
(* TimerService says: an expiry message is posted once for each start that *)
(* is not cancelled, with the data given to cprStartTimer(), not before it *)
(* is due but for a fraction of a millisecond for each command read in the *)
(* meantime, and none after the removal that answers a cancel.             *)
Service ==
    INSTANCE TimerService
    WITH Users <- Clients, Cap <- QCap, Horizon <- MaxTime,
         timer <- Alarms, firing <- Firing, mail <- queue

IsTimerService == Service!Spec
=============================================================================
