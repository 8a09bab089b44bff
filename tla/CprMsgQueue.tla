---------------------------- MODULE CprMsgQueue ----------------------------
(***************************************************************************)
(* A CPR message queue (cpr/linux/cpr_linux_ipc.c): the System V queue of  *)
(* the operating system ("sys"), the extended queue kept in the process    *)
(* ("ext"), and the mutex that guards the extended queue and the counters. *)
(* Any thread may send; one thread, Owner, reads the queue.  msgrcv() is   *)
(* called WITHOUT the mutex, and cprGetMessage() looks at extendedQDepth   *)
(* without it too: those are the interleavings this module is about.       *)
(***************************************************************************)
EXTENDS Integers, Sequences, FiniteSets

CONSTANTS Threads,      \* the threads that use the queue
          Owner,        \* the thread that reads it (GSMTask, ccsip_task, ...)
          SysCap,       \* messages the OS queue can hold before EAGAIN
          MaxExt,       \* maxExtendedQDepth, 0 when depth <= OS_MSGTQL
          Attempts,     \* CPR_ATTEMPTS_TO_SEND
          MaxSends,     \* bound: calls of cprSendMessage per thread
          MayFail       \* BOOLEAN: msgsnd() and cpr_malloc() may fail outright

ASSUME QueueAssumption ==
    /\ Owner \in Threads
    /\ SysCap \in Nat \ {0}
    /\ MaxExt \in Nat
    /\ Attempts \in Nat \ {0}
    /\ MaxSends \in Nat
    /\ MayFail \in BOOLEAN

NoThread == "none"

ASSUME NoThreadAssumption == NoThread \notin Threads

VARIABLES sys,           \* contents of the OS queue, oldest first
          ext,           \* contents of the extended queue, oldest first
          mutex,         \* holder of msgq->mutex, or NoThread
          currentCount,  \* msgq->currentCount
          associated,    \* cprSetMessageQueueThread() has been called
          pc,            \* where each thread is
          attempts,      \* attemptsToSend of each thread's current call
          sends,         \* calls of cprSendMessage() each thread has made
          held,          \* message received by Owner and not yet returned
          delivered,     \* messages returned by cprGetMessage(), in order
          ok,            \* messages whose send returned CPR_SUCCESS
          failed         \* messages whose send returned CPR_FAILURE

vars == <<sys, ext, mutex, currentCount, associated, pc, attempts, sends,
          held, delivered, ok, failed>>

\* The n-th message of thread t.  Senders allocate a fresh buffer per send.
Msgs == Threads \X (1..MaxSends)

\* The message that thread t is sending now.
Current(t) == <<t, sends[t]>>

SendPCs == {"lock", "count", "postExt", "retry"}
GetPCs  == {"decrement", "check", "move"}

Init ==
    /\ sys = <<>> /\ ext = <<>>
    /\ mutex = NoThread
    /\ currentCount = 0
    /\ associated = FALSE
    /\ pc = [t \in Threads |-> "idle"]
    /\ attempts = [t \in Threads |-> 0]
    /\ sends = [t \in Threads |-> 0]
    /\ held = <<>> /\ delivered = <<>>
    /\ ok = {} /\ failed = {}

-----------------------------------------------------------------------------
(* cprSetMessageQueueThread, called by thread_init() once the threads are  *)
(* already running.                                                        *)
SetMessageQueueThread ==
    /\ ~associated
    /\ associated' = TRUE
    /\ UNCHANGED <<sys, ext, mutex, currentCount, pc, attempts, sends, held,
                   delivered, ok, failed>>

IsSelf(t) == associated /\ t = Owner

(* The two ways a call of cprSendMessage() returns. *)
ReturnSuccess(t) ==
    /\ pc' = [pc EXCEPT ![t] = "idle"]
    /\ ok' = ok \union {Current(t)}
    /\ UNCHANGED failed

ReturnFailure(t) ==
    /\ pc' = [pc EXCEPT ![t] = "idle"]
    /\ failed' = failed \union {Current(t)}
    /\ UNCHANGED ok

Goto(t, label) == pc' = [pc EXCEPT ![t] = label] /\ UNCHANGED <<ok, failed>>

(* A thread calls cprSendMessage().  Owner does so between two calls of    *)
(* cprGetMessage(), while it handles a message.                            *)
SendMessage(t) ==
    /\ pc[t] = "idle" /\ sends[t] < MaxSends
    /\ sends' = [sends EXCEPT ![t] = @ + 1]
    /\ attempts' = [attempts EXCEPT ![t] = Attempts]
    /\ Goto(t, "lock")
    /\ UNCHANGED <<sys, ext, mutex, currentCount, associated, held, delivered>>

(* cprPostExtendedQMsg, with the mutex held: the new node, or no memory.   *)
PostExtendedQMsg(t) ==
    \/ /\ ext' = Append(ext, Current(t))
       /\ currentCount' = currentCount + 1
       /\ ReturnSuccess(t)
    \/ /\ MayFail
       /\ ReturnFailure(t)
       /\ UNCHANGED <<ext, currentCount>>

(* The queue is in overflow and the extended queue has room.               *)
SendOverflow(t) ==
    /\ pc[t] = "lock" /\ mutex = NoThread
    /\ ext # <<>> /\ Len(ext) < MaxExt
    /\ PostExtendedQMsg(t)
    /\ UNCHANGED <<sys, mutex, associated, attempts, sends, held, delivered>>

(* The extended queue is full too: the owning thread gives up, any other   *)
(* thread goes to the re-try procedure.                                    *)
SendExtFull(t) ==
    /\ pc[t] = "lock" /\ mutex = NoThread
    /\ ext # <<>> /\ Len(ext) >= MaxExt
    /\ IF IsSelf(t) THEN ReturnFailure(t) ELSE Goto(t, "retry")
    /\ UNCHANGED <<sys, ext, mutex, currentCount, associated, attempts, sends,
                   held, delivered>>

(* Fault: the overflow test is forgotten, so a message overtakes the ones  *)
(* waiting on the extended queue.                                          *)
SendPostOvertaking(t) ==
    /\ pc[t] = "lock" /\ mutex = NoThread
    /\ Len(sys) < SysCap
    /\ sys' = Append(sys, Current(t))
    /\ mutex' = t
    /\ Goto(t, "count")
    /\ UNCHANGED <<ext, currentCount, associated, attempts, sends, held,
                   delivered>>

(* cprPostMessage: msgsnd() succeeds; the mutex stays held until the count *)
(* is updated.                                                             *)
SendPost(t) ==
    /\ pc[t] = "lock" /\ mutex = NoThread
    /\ ext = <<>>
    /\ Len(sys) < SysCap
    /\ sys' = Append(sys, Current(t))
    /\ mutex' = t
    /\ Goto(t, "count")
    /\ UNCHANGED <<ext, currentCount, associated, attempts, sends, held,
                   delivered>>

SendCount(t) ==
    /\ pc[t] = "count"
    /\ currentCount' = currentCount + 1
    /\ mutex' = NoThread
    /\ ReturnSuccess(t)
    /\ UNCHANGED <<sys, ext, associated, attempts, sends, held, delivered>>

(* msgsnd() fails with EAGAIN: CPR_MSGQ_POST_PENDING.  The mutex is still  *)
(* held if the message goes to the extended queue next.                    *)
SendPending(t) ==
    /\ pc[t] = "lock" /\ mutex = NoThread
    /\ ext = <<>>
    /\ Len(sys) >= SysCap
    /\ IF MaxExt > 0
       THEN Goto(t, "postExt") /\ mutex' = t
       ELSE Goto(t, "retry") /\ UNCHANGED mutex
    /\ UNCHANGED <<sys, ext, currentCount, associated, attempts, sends, held,
                   delivered>>

(* Fault: the result of cprPostExtendedQMsg() is not taken over, so the    *)
(* call still counts as pending and is tried again.                        *)
SendExtendPending(t) ==
    /\ pc[t] = "postExt"
    /\ ext' = Append(ext, Current(t))
    /\ currentCount' = currentCount + 1
    /\ Goto(t, "retry")
    /\ mutex' = NoThread
    /\ UNCHANGED <<sys, associated, attempts, sends, held, delivered>>

SendExtend(t) ==
    /\ pc[t] = "postExt"
    /\ PostExtendedQMsg(t)
    /\ mutex' = NoThread
    /\ UNCHANGED <<sys, associated, attempts, sends, held, delivered>>

(* msgsnd() fails with another error: CPR_MSGQ_POST_FAILED.                *)
SendError(t) ==
    /\ MayFail
    /\ pc[t] = "lock" /\ mutex = NoThread
    /\ ext = <<>>
    /\ ReturnFailure(t)
    /\ UNCHANGED <<sys, ext, mutex, currentCount, associated, attempts, sends,
                   held, delivered>>

(* Fault: do ... while (attemptsToSend >= 0). *)
SendRetryOnceMore(t) ==
    /\ pc[t] = "retry"
    /\ attempts' = [attempts EXCEPT ![t] = @ - 1]
    /\ IF attempts[t] > 0 THEN Goto(t, "lock") ELSE ReturnFailure(t)
    /\ UNCHANGED <<sys, ext, mutex, currentCount, associated, sends, held,
                   delivered>>

(* Fault: attemptsToSend is not counted down. *)
SendRetryForever(t) ==
    /\ pc[t] = "retry"
    /\ Goto(t, "lock")
    /\ UNCHANGED <<sys, ext, mutex, currentCount, associated, attempts, sends,
                   held, delivered>>

(* The end of the do-while loop: sleep and try again, or give up.          *)
SendRetry(t) ==
    /\ pc[t] = "retry"
    /\ attempts' = [attempts EXCEPT ![t] = @ - 1]
    /\ IF attempts[t] > 1 THEN Goto(t, "lock") ELSE ReturnFailure(t)
    /\ UNCHANGED <<sys, ext, mutex, currentCount, associated, sends, held,
                   delivered>>

-----------------------------------------------------------------------------
(* cprGetMessage(): msgrcv(), which does not need the mutex.               *)
GetMessage ==
    /\ pc[Owner] = "idle"
    /\ sys # <<>>
    /\ held' = <<Head(sys)>>
    /\ sys' = Tail(sys)
    /\ Goto(Owner, "decrement")
    /\ UNCHANGED <<ext, mutex, currentCount, associated, attempts, sends,
                   delivered>>

(* Fault: the statistics are updated without the mutex, as the comment on  *)
(* cpr_msg_queue_s says they are.                                          *)
GetDecrementUnlocked ==
    /\ pc[Owner] = "decrement"
    /\ currentCount' = currentCount - 1
    /\ Goto(Owner, "check")
    /\ UNCHANGED <<sys, ext, mutex, associated, attempts, sends, held,
                   delivered>>

GetDecrement ==
    /\ pc[Owner] = "decrement" /\ mutex = NoThread
    /\ currentCount' = currentCount - 1
    /\ Goto(Owner, "check")
    /\ UNCHANGED <<sys, ext, mutex, associated, attempts, sends, held,
                   delivered>>

(* cprGetMessage() returns the message it holds. *)
ReturnMessage ==
    /\ delivered' = delivered \o held
    /\ held' = <<>>
    /\ Goto(Owner, "idle")

(* Fault: cprGetMessage() never refills the OS queue. *)
GetCheckNoMove ==
    /\ pc[Owner] = "check"
    /\ ReturnMessage
    /\ UNCHANGED <<sys, ext, mutex, currentCount, associated, attempts, sends>>

(* The unlocked test of extendedQDepth. *)
GetCheck ==
    /\ pc[Owner] = "check"
    /\ IF ext # <<>>
       THEN Goto(Owner, "move") /\ UNCHANGED <<held, delivered>>
       ELSE ReturnMessage
    /\ UNCHANGED <<sys, ext, mutex, currentCount, associated, attempts, sends>>

(* Fault: the increment made by cprPostMessage() is not taken back. *)
MoveMsgToQueueCounted ==
    /\ pc[Owner] = "move" /\ mutex = NoThread
    /\ ext # <<>> /\ Len(sys) < SysCap
    /\ sys' = Append(sys, Head(ext))
    /\ ext' = Tail(ext)
    /\ currentCount' = currentCount + 1
    /\ ReturnMessage
    /\ UNCHANGED <<mutex, associated, attempts, sends>>

(* cprMoveMsgToQueue(): the oldest node of the extended queue goes to the  *)
(* OS queue; its post may find that queue full, or fail.                   *)
MoveMsgToQueue ==
    /\ pc[Owner] = "move" /\ mutex = NoThread
    /\ \/ /\ ext # <<>> /\ Len(sys) < SysCap
          /\ sys' = Append(sys, Head(ext))
          /\ ext' = Tail(ext)
       \/ /\ ext = <<>> \/ Len(sys) >= SysCap \/ MayFail
          /\ UNCHANGED <<sys, ext>>
    /\ ReturnMessage
    /\ UNCHANGED <<mutex, currentCount, associated, attempts, sends>>

-----------------------------------------------------------------------------
SendStep(t) ==
    \/ SendOverflow(t) \/ SendExtFull(t) \/ SendPost(t) \/ SendCount(t)
    \/ SendPending(t) \/ SendExtend(t) \/ SendError(t) \/ SendRetry(t)

GetStep == GetMessage \/ GetDecrement \/ GetCheck \/ MoveMsgToQueue

Next ==
    \/ SetMessageQueueThread
    \/ \E t \in Threads : SendMessage(t) \/ SendStep(t)
    \/ GetStep

(* Threads that are inside a call keep running, and the owner's task loop  *)
(* comes back to cprGetMessage(); nobody is obliged to send.               *)
Fairness ==
    /\ \A t \in Threads : WF_vars(SendStep(t))
    /\ WF_vars(GetStep)

Spec == Init /\ [][Next]_vars

FairSpec == Spec /\ Fairness

-----------------------------------------------------------------------------
(* Properties.                                                             *)

Elements(s) == {s[i] : i \in 1..Len(s)}

\* Every message that was accepted, in the order readers see them.
Whole == delivered \o held \o sys \o ext

(* Types of the queue's fields and of each thread's position in the code.  *)
TypeOK ==
    /\ sys \in Seq(Msgs) /\ ext \in Seq(Msgs)
    /\ mutex \in Threads \union {NoThread}
    /\ currentCount \in Int
    /\ associated \in BOOLEAN
    /\ pc \in [Threads -> {"idle"} \union SendPCs \union GetPCs]
    /\ attempts \in [Threads -> 0..Attempts]
    /\ sends \in [Threads -> 0..MaxSends]
    /\ held \in Seq(Msgs) /\ delivered \in Seq(Msgs)
    /\ ok \subseteq Msgs /\ failed \subseteq Msgs

(* The two queues together are one FIFO: messages of one sender are read   *)
(* in the order of its cprSendMessage() calls, none twice, even when some  *)
(* went through the extended queue and some did not.                       *)
InOrder ==
    \A i, j \in 1..Len(Whole) :
        i < j /\ Whole[i][1] = Whole[j][1] => Whole[i][2] < Whole[j][2]

(* The hand-over of the buffer: a message whose send returned CPR_SUCCESS  *)
(* is on a queue or with the reader, and one whose send returned           *)
(* CPR_FAILURE, which the caller frees, is nowhere.                        *)
Ownership ==
    /\ ok \subseteq Elements(Whole)
    /\ failed \intersect Elements(Whole) = {}

(* The reader blocks in msgrcv() and looks at the extended queue only      *)
(* after it: a message may wait on the extended queue only while the OS    *)
(* queue has one that will wake the reader, or the reader is on its way.   *)
NoStranded == ext # <<>> => sys # <<>> \/ pc[Owner] \in GetPCs

(* currentCount, a uint16_t, is exact up to the call in progress, and so   *)
(* cprGetMessage() never decrements it below zero.                         *)
CountExact ==
    currentCount = Len(sys) + Len(ext)
                     + (IF pc[Owner] = "decrement" THEN 1 ELSE 0)
                     - (IF mutex # NoThread /\ pc[mutex] = "count" THEN 1 ELSE 0)

CountNotNegative == CountExact /\ currentCount >= 0

(* Every message whose send returned CPR_SUCCESS is eventually read.       *)
SentIsRead == \A m \in Msgs : m \in ok ~> m \in Elements(delivered)

(* Every call of cprSendMessage() returns: the re-try procedure ends.      *)
SendReturns == \A t \in Threads : pc[t] \in SendPCs ~> pc[t] = "idle"

(* The queue implements a bounded FIFO (ImplementsFifo: one whose Get is   *)
(* fair): cprSendMessage() puts a message at the end once, or not at all,  *)
(* and cprGetMessage() takes the first, also when msgsnd() or cpr_malloc() *)
(* fails on the way (IsFifo).                                              *)
Fifo == INSTANCE MsgFifo WITH
            Values <- Msgs, Capacity <- SysCap + MaxExt,
            queue <- sys \o ext, got <- delivered \o held

IsFifo == Fifo!Safety
ImplementsFifo == Fifo!Spec
=============================================================================
