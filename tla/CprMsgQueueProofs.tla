------------------------- MODULE CprMsgQueueProofs -------------------------
(***************************************************************************)
(* TLAPS proofs about CprMsgQueue, for any number of threads, any capacity *)
(* of the OS queue, any extended depth and any number of re-tries: its     *)
(* fields, the wake-up of the reader and the counter; and that the two     *)
(* queues are one FIFO, failures of msgsnd() and cpr_malloc() included:    *)
(* order, the hand-over of buffers, and the safety part of MsgFifo.        *)
(***************************************************************************)
EXTENDS CprMsgQueue, SequenceTheorems, TLAPS

USE DEF NoThread

-----------------------------------------------------------------------------
(* Facts about sequences, stated so that Zenon can use them. *)
LEMMA AppendType ==
    ASSUME NEW S, NEW s \in Seq(S), NEW e \in S PROVE Append(s, e) \in Seq(S)
OBVIOUS

LEMMA ConcatType ==
    ASSUME NEW S, NEW s \in Seq(S), NEW u \in Seq(S) PROVE s \o u \in Seq(S)
OBVIOUS

LEMMA HeadTailType ==
    ASSUME NEW S, NEW s \in Seq(S), s # <<>>
    PROVE  Head(s) \in S /\ Tail(s) \in Seq(S)
OBVIOUS

LEMMA EmptyType == ASSUME NEW S PROVE <<>> \in Seq(S)
OBVIOUS

(* The message being sent is a message. *)
LEMMA CurrentType ==
    ASSUME TypeOK, NEW t \in Threads, sends[t] > 0
    PROVE  Current(t) \in Msgs
BY QueueAssumption DEF TypeOK, Current, Msgs

(* Threads inside a call have started one. *)
Started == \A t \in Threads : pc[t] \in SendPCs => sends[t] > 0 /\ attempts[t] > 0

(* The holder of the mutex, if any, is the thread between its post to the  *)
(* OS queue and its unlock; nobody else is there.                          *)
MutexHeld ==
    /\ \A t \in Threads : pc[t] = "count" => mutex = t
    /\ \A t \in Threads : pc[t] = "postExt" => mutex = t
    /\ mutex # NoThread => pc[mutex] \in {"count", "postExt"}
    /\ \A t \in Threads : pc[t] \in GetPCs => t = Owner

TypeInv == TypeOK /\ Started /\ MutexHeld

LEMMA TypeInvInit == Init => TypeInv
<1> SUFFICES ASSUME Init PROVE TypeInv
  OBVIOUS
<1> USE QueueAssumption, NoThreadAssumption DEF Init
<1>1. TypeOK
  <2>1. pc \in [Threads -> {"idle"} \union SendPCs \union GetPCs]
    OBVIOUS
  <2>2. /\ attempts \in [Threads -> 0..Attempts]
        /\ sends \in [Threads -> 0..MaxSends]
    OBVIOUS
  <2>3. /\ sys \in Seq(Msgs) /\ ext \in Seq(Msgs)
        /\ held \in Seq(Msgs) /\ delivered \in Seq(Msgs)
    OBVIOUS
  <2>4. ok \subseteq Msgs /\ failed \subseteq Msgs
    OBVIOUS
  <2>5. mutex \in Threads \union {NoThread} /\ currentCount \in Int
    OBVIOUS
  <2>6. associated \in BOOLEAN
    OBVIOUS
  <2> HIDE DEF Init
  <2> QED
    BY <2>1, <2>2, <2>3, <2>4, <2>5, <2>6 DEF TypeOK
<1>2. Started /\ MutexHeld
  BY DEF Started, MutexHeld, SendPCs, GetPCs
<1> QED
  BY <1>1, <1>2 DEF TypeInv

LEMMA TypeInvStep == TypeInv /\ [Next]_vars => TypeInv'
<1> SUFFICES ASSUME TypeInv, [Next]_vars PROVE TypeInv'
  OBVIOUS
<1> USE QueueAssumption, NoThreadAssumption
<1> USE DEF TypeInv, SendPCs, GetPCs, Goto, ReturnSuccess, ReturnFailure
<1>q. /\ sys \in Seq(Msgs) /\ ext \in Seq(Msgs)
      /\ held \in Seq(Msgs) /\ delivered \in Seq(Msgs)
  BY DEF TypeOK
<1>m. \A t \in Threads : sends[t] > 0 => Current(t) \in Msgs
  BY CurrentType
<1>1. CASE SetMessageQueueThread
  <2>1. TypeOK'
    BY <1>1, <1>m DEF TypeOK, Started, SetMessageQueueThread
  <2>2. Started'
    BY <1>1 DEF TypeOK, Started, SetMessageQueueThread
  <2>3. MutexHeld'
    BY <1>1 DEF TypeOK, MutexHeld, SetMessageQueueThread
  <2> QED
    BY <2>1, <2>2, <2>3
<1>2. ASSUME NEW t \in Threads, SendMessage(t) PROVE TypeInv'
  <2>1. TypeOK'
    BY <1>2, <1>m, SMTT(20) DEF TypeOK, Started, SendMessage
  <2>2. Started'
    BY <1>2 DEF TypeOK, Started, SendMessage
  <2>3. MutexHeld'
    BY <1>2 DEF TypeOK, MutexHeld, SendMessage
  <2> QED
    BY <2>1, <2>2, <2>3
<1>3. ASSUME NEW t \in Threads, SendOverflow(t) PROVE TypeInv'
  <2>1. TypeOK'
    <3>1. pc' \in [Threads -> {"idle"} \union SendPCs \union GetPCs]
      BY <1>3, <1>m DEF TypeOK, SendOverflow, PostExtendedQMsg
    <3>2. sys' \in Seq(Msgs) /\ ext' \in Seq(Msgs)
      <4>1. sys' = sys /\ (ext' = ext \/ ext' = Append(ext, Current(t)))
        BY <1>3 DEF SendOverflow, PostExtendedQMsg
      <4>2. Current(t) \in Msgs
        BY <1>3, <1>m DEF Started, SendOverflow
      <4> HIDE DEF TypeInv
      <4> QED
        BY <4>1, <4>2, <1>q, AppendType, Zenon
    <3>3. held' \in Seq(Msgs) /\ delivered' \in Seq(Msgs)
      BY <1>3, <1>m DEF TypeOK, Started, SendOverflow, PostExtendedQMsg
    <3>4. ok' \subseteq Msgs /\ failed' \subseteq Msgs
      BY <1>3, <1>m DEF TypeOK, Started, SendOverflow, PostExtendedQMsg
    <3>5. /\ mutex' \in Threads \union {NoThread} /\ currentCount' \in Int
          /\ associated' \in BOOLEAN
          /\ attempts' \in [Threads -> 0..Attempts]
          /\ sends' \in [Threads -> 0..MaxSends]
      BY <1>3, <1>m DEF TypeOK, Started, SendOverflow, PostExtendedQMsg
    <3> QED
      BY <3>1, <3>2, <3>3, <3>4, <3>5 DEF TypeOK
  <2>2. Started'
    BY <1>3 DEF TypeOK, Started, SendOverflow, PostExtendedQMsg
  <2>3. MutexHeld'
    BY <1>3 DEF TypeOK, MutexHeld, SendOverflow, PostExtendedQMsg
  <2> QED
    BY <2>1, <2>2, <2>3
<1>4. ASSUME NEW t \in Threads, SendExtFull(t) PROVE TypeInv'
  <2>1. TypeOK'
    <3>1. pc' \in [Threads -> {"idle"} \union SendPCs \union GetPCs]
      BY <1>4, <1>m DEF TypeOK, SendExtFull
    <3>2. sys' \in Seq(Msgs) /\ ext' \in Seq(Msgs)
      BY <1>4, <1>m DEF TypeOK, Started, SendExtFull
    <3>3. held' \in Seq(Msgs) /\ delivered' \in Seq(Msgs)
      BY <1>4, <1>m DEF TypeOK, Started, SendExtFull
    <3>4. ok' \subseteq Msgs /\ failed' \subseteq Msgs
      BY <1>4, <1>m DEF TypeOK, Started, SendExtFull
    <3>5. /\ mutex' \in Threads \union {NoThread} /\ currentCount' \in Int
          /\ associated' \in BOOLEAN
          /\ attempts' \in [Threads -> 0..Attempts]
          /\ sends' \in [Threads -> 0..MaxSends]
      BY <1>4, <1>m DEF TypeOK, Started, SendExtFull
    <3> QED
      BY <3>1, <3>2, <3>3, <3>4, <3>5 DEF TypeOK
  <2>2. Started'
    BY <1>4 DEF TypeOK, Started, SendExtFull
  <2>3. MutexHeld'
    BY <1>4 DEF TypeOK, MutexHeld, SendExtFull
  <2> QED
    BY <2>1, <2>2, <2>3
<1>5. ASSUME NEW t \in Threads, SendPost(t) PROVE TypeInv'
  <2>1. TypeOK'
    BY <1>5, <1>m DEF TypeOK, Started, SendPost
  <2>2. Started'
    BY <1>5 DEF TypeOK, Started, SendPost
  <2>3. MutexHeld'
    BY <1>5 DEF TypeOK, MutexHeld, SendPost
  <2> QED
    BY <2>1, <2>2, <2>3
<1>6. ASSUME NEW t \in Threads, SendCount(t) PROVE TypeInv'
  <2>1. TypeOK'
    BY <1>6, <1>m DEF TypeOK, Started, SendCount
  <2>2. Started'
    BY <1>6 DEF TypeOK, Started, SendCount
  <2>3. MutexHeld'
    BY <1>6 DEF TypeOK, MutexHeld, SendCount
  <2> QED
    BY <2>1, <2>2, <2>3
<1>7. ASSUME NEW t \in Threads, SendPending(t) PROVE TypeInv'
  <2>1. TypeOK'
    BY <1>7, <1>m DEF TypeOK, Started, SendPending
  <2>2. Started'
    BY <1>7 DEF TypeOK, Started, SendPending
  <2>3. MutexHeld'
    BY <1>7 DEF TypeOK, MutexHeld, SendPending
  <2> QED
    BY <2>1, <2>2, <2>3
<1>8. ASSUME NEW t \in Threads, SendExtend(t) PROVE TypeInv'
  <2>1. TypeOK'
    <3>1. pc' \in [Threads -> {"idle"} \union SendPCs \union GetPCs]
      BY <1>8, <1>m DEF TypeOK, SendExtend, PostExtendedQMsg
    <3>2. sys' \in Seq(Msgs) /\ ext' \in Seq(Msgs)
      <4>1. sys' = sys /\ (ext' = ext \/ ext' = Append(ext, Current(t)))
        BY <1>8 DEF SendExtend, PostExtendedQMsg
      <4>2. Current(t) \in Msgs
        BY <1>8, <1>m DEF Started, SendExtend
      <4> HIDE DEF TypeInv
      <4> QED
        BY <4>1, <4>2, <1>q, AppendType, Zenon
    <3>3. held' \in Seq(Msgs) /\ delivered' \in Seq(Msgs)
      BY <1>8, <1>m DEF TypeOK, Started, SendExtend, PostExtendedQMsg
    <3>4. ok' \subseteq Msgs /\ failed' \subseteq Msgs
      BY <1>8, <1>m DEF TypeOK, Started, SendExtend, PostExtendedQMsg
    <3>5. /\ mutex' \in Threads \union {NoThread} /\ currentCount' \in Int
          /\ associated' \in BOOLEAN
          /\ attempts' \in [Threads -> 0..Attempts]
          /\ sends' \in [Threads -> 0..MaxSends]
      BY <1>8, <1>m, SMTT(20) DEF TypeOK, Started, SendExtend, PostExtendedQMsg
    <3> QED
      BY <3>1, <3>2, <3>3, <3>4, <3>5 DEF TypeOK
  <2>2. Started'
    BY <1>8 DEF TypeOK, Started, SendExtend, PostExtendedQMsg
  <2>3. MutexHeld'
    BY <1>8 DEF TypeOK, MutexHeld, SendExtend, PostExtendedQMsg
  <2> QED
    BY <2>1, <2>2, <2>3
<1>9. ASSUME NEW t \in Threads, SendError(t) PROVE TypeInv'
  <2>1. TypeOK'
    BY <1>9, <1>m DEF TypeOK, Started, SendError
  <2>2. Started'
    BY <1>9 DEF TypeOK, Started, SendError
  <2>3. MutexHeld'
    BY <1>9 DEF TypeOK, MutexHeld, SendError
  <2> QED
    BY <2>1, <2>2, <2>3
<1>10. ASSUME NEW t \in Threads, SendRetry(t) PROVE TypeInv'
  <2>1. TypeOK'
    <3>1. pc' \in [Threads -> {"idle"} \union SendPCs \union GetPCs]
      BY <1>10, <1>m DEF TypeOK, SendRetry
    <3>2. sys' \in Seq(Msgs) /\ ext' \in Seq(Msgs)
      BY <1>10, <1>m DEF TypeOK, Started, SendRetry
    <3>3. held' \in Seq(Msgs) /\ delivered' \in Seq(Msgs)
      BY <1>10, <1>m DEF TypeOK, Started, SendRetry
    <3>4. ok' \subseteq Msgs /\ failed' \subseteq Msgs
      BY <1>10, <1>m DEF TypeOK, Started, SendRetry
    <3>5. /\ mutex' \in Threads \union {NoThread} /\ currentCount' \in Int
          /\ associated' \in BOOLEAN
          /\ attempts' \in [Threads -> 0..Attempts]
          /\ sends' \in [Threads -> 0..MaxSends]
      BY <1>10, <1>m, SMTT(20) DEF TypeOK, Started, SendRetry
    <3> QED
      BY <3>1, <3>2, <3>3, <3>4, <3>5 DEF TypeOK
  <2>2. Started'
    BY <1>10 DEF TypeOK, Started, SendRetry
  <2>3. MutexHeld'
    BY <1>10 DEF TypeOK, MutexHeld, SendRetry
  <2> QED
    BY <2>1, <2>2, <2>3
<1>11. CASE GetMessage
  <2>1. TypeOK'
    BY <1>11, <1>m, SMTT(20) DEF TypeOK, Started, GetMessage
  <2>2. Started'
    BY <1>11 DEF TypeOK, Started, GetMessage
  <2>3. MutexHeld'
    BY <1>11 DEF TypeOK, MutexHeld, GetMessage
  <2> QED
    BY <2>1, <2>2, <2>3
<1>12. CASE GetDecrement
  <2>1. TypeOK'
    BY <1>12, <1>m DEF TypeOK, Started, GetDecrement
  <2>2. Started'
    BY <1>12 DEF TypeOK, Started, GetDecrement
  <2>3. MutexHeld'
    BY <1>12 DEF TypeOK, MutexHeld, GetDecrement
  <2> QED
    BY <2>1, <2>2, <2>3
<1>13. CASE GetCheck
  <2>1. TypeOK'
    <3>1. pc' \in [Threads -> {"idle"} \union SendPCs \union GetPCs]
      BY <1>13, <1>m DEF TypeOK, GetCheck, ReturnMessage
    <3>2. sys' \in Seq(Msgs) /\ ext' \in Seq(Msgs)
      BY <1>13, <1>m DEF TypeOK, Started, GetCheck, ReturnMessage
    <3>3. held' \in Seq(Msgs) /\ delivered' \in Seq(Msgs)
      <4>1. \/ UNCHANGED <<held, delivered>>
            \/ held' = <<>> /\ delivered' = delivered \o held
        BY <1>13 DEF GetCheck, ReturnMessage
      <4> HIDE DEF TypeInv
      <4> QED
        BY <4>1, <1>q, ConcatType, EmptyType, Zenon
    <3>4. ok' \subseteq Msgs /\ failed' \subseteq Msgs
      BY <1>13, <1>m DEF TypeOK, Started, GetCheck, ReturnMessage
    <3>5. /\ mutex' \in Threads \union {NoThread} /\ currentCount' \in Int
          /\ associated' \in BOOLEAN
          /\ attempts' \in [Threads -> 0..Attempts]
          /\ sends' \in [Threads -> 0..MaxSends]
      BY <1>13, <1>m DEF TypeOK, Started, GetCheck, ReturnMessage
    <3> QED
      BY <3>1, <3>2, <3>3, <3>4, <3>5 DEF TypeOK
  <2>2. Started'
    BY <1>13 DEF TypeOK, Started, GetCheck, ReturnMessage
  <2>3. MutexHeld'
    BY <1>13 DEF TypeOK, MutexHeld, GetCheck, ReturnMessage
  <2> QED
    BY <2>1, <2>2, <2>3
<1>14. CASE MoveMsgToQueue
  <2>1. TypeOK'
    <3>1. pc' \in [Threads -> {"idle"} \union SendPCs \union GetPCs]
      BY <1>14, <1>m DEF TypeOK, MoveMsgToQueue, ReturnMessage
    <3>2. sys' \in Seq(Msgs) /\ ext' \in Seq(Msgs)
      <4>1. \/ UNCHANGED <<sys, ext>>
            \/ ext # <<>> /\ sys' = Append(sys, Head(ext)) /\ ext' = Tail(ext)
        BY <1>14 DEF MoveMsgToQueue
      <4>2. ext # <<>> => Head(ext) \in Msgs /\ Tail(ext) \in Seq(Msgs)
        BY <1>q, HeadTailType, Zenon
      <4> HIDE DEF TypeInv
      <4> QED
        BY <4>1, <4>2, <1>q, AppendType, Zenon
    <3>3. held' \in Seq(Msgs) /\ delivered' \in Seq(Msgs)
      <4>1. \/ UNCHANGED <<held, delivered>>
            \/ held' = <<>> /\ delivered' = delivered \o held
        BY <1>14 DEF MoveMsgToQueue, ReturnMessage
      <4> HIDE DEF TypeInv
      <4> QED
        BY <4>1, <1>q, ConcatType, EmptyType, Zenon
    <3>4. ok' \subseteq Msgs /\ failed' \subseteq Msgs
      BY <1>14, <1>m DEF TypeOK, Started, MoveMsgToQueue, ReturnMessage
    <3>5. /\ mutex' \in Threads \union {NoThread} /\ currentCount' \in Int
          /\ associated' \in BOOLEAN
          /\ attempts' \in [Threads -> 0..Attempts]
          /\ sends' \in [Threads -> 0..MaxSends]
      BY <1>14, <1>m DEF TypeOK, Started, MoveMsgToQueue, ReturnMessage
    <3> QED
      BY <3>1, <3>2, <3>3, <3>4, <3>5 DEF TypeOK
  <2>2. Started'
    BY <1>14 DEF TypeOK, Started, MoveMsgToQueue, ReturnMessage
  <2>3. MutexHeld'
    BY <1>14 DEF TypeOK, MutexHeld, MoveMsgToQueue, ReturnMessage
  <2> QED
    BY <2>1, <2>2, <2>3
<1>15. CASE UNCHANGED vars
  BY <1>15 DEF vars, TypeOK, Started, MutexHeld
<1> QED
  BY <1>1, <1>2, <1>3, <1>4, <1>5, <1>6, <1>7, <1>8, <1>9, <1>10, <1>11,
     <1>12, <1>13, <1>14, <1>15 DEF Next, SendStep, GetStep

LEMMA TypeInvHolds == Spec => []TypeInv
BY TypeInvInit, TypeInvStep, PTL DEF Spec

(* Type correctness of the queue (TypeOK), for the fields that             *)
(* cprCreateMessageQueue() initialises and every call changes.             *)
THEOREM TypeCorrect == Spec => []TypeOK
BY TypeInvHolds, PTL DEF TypeInv

-----------------------------------------------------------------------------
(* Nothing is stranded.  NoStranded is not inductive: a sender that got    *)
(* EAGAIN posts to the extended queue without looking at the OS queue      *)
(* again, and the reader may have emptied it in between.  What saves it is *)
(* that the reader is then stuck at the mutex, before its test of the      *)
(* extended queue: HolderSeen.                                             *)
HolderSeen ==
    \A t \in Threads :
        pc[t] \in {"count", "postExt"} => sys # <<>> \/ pc[Owner] = "decrement"

LEMMA NonEmptySeq ==
    ASSUME NEW S, NEW s \in Seq(S), Len(s) >= SysCap PROVE s # <<>>
BY QueueAssumption

LEMMA AppendNonEmpty ==
    ASSUME NEW S, NEW s \in Seq(S), NEW e \in S PROVE Append(s, e) # <<>>
<1>1. Len(Append(s, e)) = Len(s) + 1
  OBVIOUS
<1>2. Len(s) \in Nat /\ Len(<<>>) = 0
  OBVIOUS
<1> QED
  BY <1>1, <1>2

LEMMA HolderStep ==
    ASSUME TypeInv, HolderSeen, [Next]_vars PROVE HolderSeen'
<1> USE QueueAssumption, NoThreadAssumption
<1>t. pc \in [Threads -> {"idle"} \union SendPCs \union GetPCs]
  BY DEF TypeInv, TypeOK
<1>q. sys \in Seq(Msgs) /\ ext \in Seq(Msgs)
  BY DEF TypeInv, TypeOK
<1>c. \A t \in Threads : pc[t] \in SendPCs => Current(t) \in Msgs
  BY CurrentType DEF TypeInv, Started
<1>m. \A t \in Threads : pc[t] \in {"count", "postExt"} => mutex = t
  BY DEF TypeInv, MutexHeld
<1> USE DEF HolderSeen, SendPCs, GetPCs, Goto, ReturnSuccess, ReturnFailure
<1>1. CASE SetMessageQueueThread
  BY <1>1, <1>t DEF SetMessageQueueThread
<1>2. ASSUME NEW t \in Threads, SendMessage(t) PROVE HolderSeen'
  BY <1>2, <1>t DEF SendMessage
<1>3. ASSUME NEW t \in Threads, SendOverflow(t) PROVE HolderSeen'
  BY <1>3, <1>t DEF SendOverflow, PostExtendedQMsg
<1>4. ASSUME NEW t \in Threads, SendExtFull(t) PROVE HolderSeen'
  BY <1>4, <1>t DEF SendExtFull
<1>5. ASSUME NEW t \in Threads, SendPost(t) PROVE HolderSeen'
  <2>1. sys' # <<>>
    BY <1>5, <1>q, <1>c, AppendNonEmpty DEF SendPost
  <2> QED
    BY <1>5, <2>1 DEF SendPost
<1>6. ASSUME NEW t \in Threads, SendCount(t) PROVE HolderSeen'
  <2>1. \A u \in Threads : u # t => pc[u] \notin {"count", "postExt"}
    BY <1>6, <1>m DEF SendCount
  <2>2. pc' = [pc EXCEPT ![t] = "idle"]
    BY <1>6 DEF SendCount
  <2> QED
    BY <1>6, <2>1, <2>2, <1>t
<1>7. ASSUME NEW t \in Threads, SendPending(t) PROVE HolderSeen'
  <2>1. sys # <<>>
    BY <1>7, <1>q, NonEmptySeq DEF SendPending
  <2> QED
    BY <1>7, <2>1, <1>t DEF SendPending
<1>8. ASSUME NEW t \in Threads, SendExtend(t) PROVE HolderSeen'
  <2>1. \A u \in Threads : u # t => pc[u] \notin {"count", "postExt"}
    BY <1>8, <1>m DEF SendExtend
  <2>2. pc' = [pc EXCEPT ![t] = "idle"]
    BY <1>8 DEF SendExtend, PostExtendedQMsg
  <2> QED
    BY <1>8, <2>1, <2>2, <1>t
<1>9. ASSUME NEW t \in Threads, SendError(t) PROVE HolderSeen'
  BY <1>9, <1>t DEF SendError
<1>10. ASSUME NEW t \in Threads, SendRetry(t) PROVE HolderSeen'
  BY <1>10, <1>t DEF SendRetry
<1>11. CASE GetMessage
  BY <1>11, <1>t DEF GetMessage
<1>12. CASE GetDecrement
  <2>1. \A t \in Threads : pc[t] \notin {"count", "postExt"}
    BY <1>12, <1>m DEF GetDecrement
  <2> QED
    BY <1>12, <2>1, <1>t DEF GetDecrement
<1>13. CASE GetCheck
  BY <1>13, <1>t DEF GetCheck, ReturnMessage
<1>14. CASE MoveMsgToQueue
  <2>1. \A t \in Threads : pc[t] \notin {"count", "postExt"}
    BY <1>14, <1>m DEF MoveMsgToQueue
  <2> QED
    BY <1>14, <2>1, <1>t DEF MoveMsgToQueue, ReturnMessage
<1>15. CASE UNCHANGED vars
  BY <1>15 DEF vars
<1> QED
  BY <1>1, <1>2, <1>3, <1>4, <1>5, <1>6, <1>7, <1>8, <1>9, <1>10, <1>11,
     <1>12, <1>13, <1>14, <1>15 DEF Next, SendStep, GetStep

LEMMA HolderHolds == Spec => []HolderSeen
<1>1. Init => HolderSeen
  BY DEF Init, HolderSeen
<1>2. TypeInv /\ HolderSeen /\ [Next]_vars => HolderSeen'
  BY HolderStep
<1> QED
  BY <1>1, <1>2, TypeInvHolds, PTL DEF Spec

LEMMA StrandStep ==
    ASSUME ~MayFail, TypeInv, HolderSeen, NoStranded, [Next]_vars PROVE NoStranded'
<1> USE QueueAssumption, NoThreadAssumption
<1>t. pc \in [Threads -> {"idle"} \union SendPCs \union GetPCs]
  BY DEF TypeInv, TypeOK
<1>q. sys \in Seq(Msgs) /\ ext \in Seq(Msgs)
  BY DEF TypeInv, TypeOK
<1>c. \A t \in Threads : pc[t] \in SendPCs => Current(t) \in Msgs
  BY CurrentType DEF TypeInv, Started
<1>m. \A t \in Threads : pc[t] \in {"count", "postExt"} => mutex = t
  BY DEF TypeInv, MutexHeld
<1> USE DEF NoStranded, SendPCs, GetPCs, Goto, ReturnSuccess, ReturnFailure
<1>1. CASE SetMessageQueueThread
  BY <1>1, <1>t DEF SetMessageQueueThread
<1>2. ASSUME NEW t \in Threads, SendMessage(t) PROVE NoStranded'
  BY <1>2, <1>t DEF SendMessage
<1>3. ASSUME NEW t \in Threads, SendOverflow(t) PROVE NoStranded'
  BY <1>3, <1>t DEF SendOverflow, PostExtendedQMsg
<1>4. ASSUME NEW t \in Threads, SendExtFull(t) PROVE NoStranded'
  BY <1>4, <1>t DEF SendExtFull
<1>5. ASSUME NEW t \in Threads, SendPost(t) PROVE NoStranded'
  <2>1. sys' # <<>>
    BY <1>5, <1>q, <1>c, AppendNonEmpty DEF SendPost
  <2> QED
    BY <1>5, <2>1 DEF SendPost
<1>6. ASSUME NEW t \in Threads, SendCount(t) PROVE NoStranded'
  BY <1>6, <1>t DEF SendCount
<1>7. ASSUME NEW t \in Threads, SendPending(t) PROVE NoStranded'
  BY <1>7, <1>t DEF SendPending
<1>8. ASSUME NEW t \in Threads, SendExtend(t) PROVE NoStranded'
  <2>1. sys # <<>> \/ pc[Owner] = "decrement"
    BY <1>8 DEF SendExtend, HolderSeen
  <2>2. t = Owner => sys # <<>>
    BY <1>8, <2>1 DEF SendExtend
  <2>3. sys' = sys /\ pc' = [pc EXCEPT ![t] = "idle"]
    BY <1>8 DEF SendExtend, PostExtendedQMsg
  <2> QED
    BY <2>1, <2>2, <2>3, <1>t
<1>9. ASSUME NEW t \in Threads, SendError(t) PROVE NoStranded'
  BY <1>9, <1>t DEF SendError
<1>10. ASSUME NEW t \in Threads, SendRetry(t) PROVE NoStranded'
  BY <1>10, <1>t DEF SendRetry
<1>11. CASE GetMessage
  BY <1>11, <1>t DEF GetMessage
<1>12. CASE GetDecrement
  BY <1>12, <1>t DEF GetDecrement
<1>13. CASE GetCheck
  BY <1>13, <1>t DEF GetCheck, ReturnMessage
<1>14. CASE MoveMsgToQueue
  <2>1. CASE ext # <<>> /\ sys' = Append(sys, Head(ext))
    <3>1. Head(ext) \in Msgs
      BY <2>1, <1>q, HeadTailType, Zenon
    <3> QED
      BY <2>1, <3>1, <1>q, AppendNonEmpty
  <2>2. CASE UNCHANGED <<sys, ext>> /\ (ext = <<>> \/ Len(sys) >= SysCap)
    BY <2>2, <1>q, NonEmptySeq
  <2> QED
    BY <1>14, <2>1, <2>2 DEF MoveMsgToQueue
<1>15. CASE UNCHANGED vars
  BY <1>15 DEF vars
<1> QED
  BY <1>1, <1>2, <1>3, <1>4, <1>5, <1>6, <1>7, <1>8, <1>9, <1>10, <1>11,
     <1>12, <1>13, <1>14, <1>15 DEF Next, SendStep, GetStep

(* While msgsnd() and cpr_malloc() do not fail, no message waits on the    *)
(* extended queue of cprSendMessage() without something to wake the reader *)
(* (NoStranded).                                                           *)
THEOREM NothingStranded == ASSUME ~MayFail PROVE Spec => []NoStranded
<1>1. Init => NoStranded
  BY DEF Init, NoStranded
<1>2. TypeInv /\ HolderSeen /\ NoStranded /\ [Next]_vars => NoStranded'
  BY StrandStep
<1> QED
  BY <1>1, <1>2, TypeInvHolds, HolderHolds, PTL DEF Spec

-----------------------------------------------------------------------------
(* The counter.  Here the exact value is inductive, given that only the    *)
(* holder of the mutex is between its post and its increment.              *)
LEMMA CountStep ==
    ASSUME TypeInv, CountExact, [Next]_vars PROVE CountExact'
<1> USE QueueAssumption, NoThreadAssumption
<1>t. /\ pc \in [Threads -> {"idle"} \union SendPCs \union GetPCs]
      /\ currentCount \in Int /\ mutex \in Threads \union {NoThread}
  BY DEF TypeInv, TypeOK
<1>q. sys \in Seq(Msgs) /\ ext \in Seq(Msgs)
  BY DEF TypeInv, TypeOK
<1>c. \A t \in Threads : pc[t] \in SendPCs => Current(t) \in Msgs
  BY CurrentType DEF TypeInv, Started
<1>m. /\ \A t \in Threads : pc[t] = "postExt" => mutex = t
      /\ \A t \in Threads : pc[t] = "count" => mutex = t
      /\ mutex # NoThread => pc[mutex] \in {"count", "postExt"}
  BY DEF TypeInv, MutexHeld
<1>l. Len(sys) \in Nat /\ Len(ext) \in Nat
  BY <1>q
<1> USE DEF CountExact, SendPCs, GetPCs, Goto, ReturnSuccess, ReturnFailure
<1>1. CASE SetMessageQueueThread
  BY <1>1 DEF SetMessageQueueThread
<1>2. ASSUME NEW t \in Threads, SendMessage(t) PROVE CountExact'
  BY <1>2, <1>t, <1>m, <1>l DEF SendMessage
<1>3. ASSUME NEW t \in Threads, SendOverflow(t) PROVE CountExact'
  <2>1. Len(Append(ext, Current(t))) = Len(ext) + 1
    BY <1>3, <1>q, <1>c DEF SendOverflow
  <2> QED
    BY <1>3, <2>1, <1>t, <1>m, <1>l, SMTT(20) DEF SendOverflow, PostExtendedQMsg
<1>4. ASSUME NEW t \in Threads, SendExtFull(t) PROVE CountExact'
  BY <1>4, <1>t, <1>m, <1>l DEF SendExtFull
<1>5. ASSUME NEW t \in Threads, SendPost(t) PROVE CountExact'
  <2>1. Len(Append(sys, Current(t))) = Len(sys) + 1
    <3>1. Current(t) \in Msgs
      BY <1>5, <1>c DEF SendPost
    <3> QED
      BY <3>1, <1>q
  <2> QED
    <3>1. currentCount = Len(sys) + Len(ext)
                           + (IF pc[Owner] = "decrement" THEN 1 ELSE 0)
      BY <1>5, <1>t, <1>l DEF SendPost
    <3>2. /\ Len(sys') = Len(sys) + 1
          /\ ext' = ext /\ currentCount' = currentCount
      BY <1>5, <2>1 DEF SendPost
    <3>3. mutex' # NoThread /\ pc'[mutex'] = "count"
      BY <1>5, <1>t DEF SendPost
    <3>4. pc'[Owner] = "decrement" <=> pc[Owner] = "decrement"
      BY <1>5, <1>t DEF SendPost
    <3> QED
      BY <3>1, <3>2, <3>3, <3>4, <1>l
<1>6. ASSUME NEW t \in Threads, SendCount(t) PROVE CountExact'
  BY <1>6, <1>t, <1>m, <1>l DEF SendCount
<1>7. ASSUME NEW t \in Threads, SendPending(t) PROVE CountExact'
  BY <1>7, <1>t, <1>m, <1>l DEF SendPending
<1>8. ASSUME NEW t \in Threads, SendExtend(t) PROVE CountExact'
  <2>1. Len(Append(ext, Current(t))) = Len(ext) + 1
    BY <1>8, <1>q, <1>c DEF SendExtend
  <2> QED
    BY <1>8, <2>1, <1>t, <1>m, <1>l DEF SendExtend, PostExtendedQMsg
<1>9. ASSUME NEW t \in Threads, SendError(t) PROVE CountExact'
  BY <1>9, <1>t, <1>m, <1>l DEF SendError
<1>10. ASSUME NEW t \in Threads, SendRetry(t) PROVE CountExact'
  BY <1>10, <1>t, <1>m, <1>l DEF SendRetry
<1>11. CASE GetMessage
  <2>1. Len(Tail(sys)) = Len(sys) - 1
    BY <1>11, <1>q DEF GetMessage
  <2> QED
    BY <1>11, <2>1, <1>t, <1>m, <1>l DEF GetMessage
<1>12. CASE GetDecrement
  BY <1>12, <1>t, <1>m, <1>l DEF GetDecrement
<1>13. CASE GetCheck
  BY <1>13, <1>t, <1>m, <1>l DEF GetCheck, ReturnMessage
<1>14. CASE MoveMsgToQueue
  <2>1. ext # <<>> => /\ Len(Tail(ext)) = Len(ext) - 1
                      /\ Len(Append(sys, Head(ext))) = Len(sys) + 1
    <3>1. ext # <<>> => Head(ext) \in Msgs
      BY <1>q, HeadTailType, Zenon
    <3> QED
      BY <3>1, <1>q
  <2>2. Len(sys') + Len(ext') = Len(sys) + Len(ext)
    BY <1>14, <2>1, <1>l DEF MoveMsgToQueue
  <2> QED
    BY <1>14, <2>2, <1>t, <1>m, <1>l DEF MoveMsgToQueue, ReturnMessage
<1>15. CASE UNCHANGED vars
  BY <1>15 DEF vars
<1> QED
  BY <1>1, <1>2, <1>3, <1>4, <1>5, <1>6, <1>7, <1>8, <1>9, <1>10, <1>11,
     <1>12, <1>13, <1>14, <1>15 DEF Next, SendStep, GetStep

(* currentCount is exact up to the call in progress and never goes below   *)
(* zero (CountNotNegative), whether or not posts fail: between msgsnd()    *)
(* and its increment the reader cannot pass its own decrement.             *)
THEOREM CountCorrect == Spec => []CountNotNegative
<1>1. Init => CountExact
  BY QueueAssumption DEF Init, CountExact
<1>2. TypeInv /\ CountExact /\ [Next]_vars => CountExact'
  BY CountStep
<1>3. Spec => [](TypeInv /\ CountExact)
  BY <1>1, <1>2, TypeInvHolds, PTL DEF Spec
<1>4. TypeInv /\ HolderSeen /\ CountExact => CountNotNegative
  <2> SUFFICES ASSUME TypeInv, HolderSeen, CountExact PROVE currentCount >= 0
    BY DEF CountNotNegative
  <2>1. /\ Len(sys) \in Nat /\ Len(ext) \in Nat
        /\ sys # <<>> => Len(sys) > 0
    BY DEF TypeInv, TypeOK
  <2>2. CASE mutex # NoThread /\ pc[mutex] = "count"
    <3>1. mutex \in Threads
      BY <2>2 DEF TypeInv, TypeOK
    <3> QED
      BY <2>1, <2>2, <3>1 DEF HolderSeen, CountExact
  <2>3. CASE ~(mutex # NoThread /\ pc[mutex] = "count")
    BY <2>1, <2>3 DEF CountExact
  <2> QED
    BY <2>2, <2>3
<1> QED
  BY <1>3, <1>4, HolderHolds, PTL

-----------------------------------------------------------------------------
(***************************************************************************)
(* The two queues are one                                                  *)
(***************************************************************************)

(* A message moved from the front of one queue to the end of the one       *)
(* before it stays where it was in the whole.                              *)
LEMMA MoveConcat ==
    ASSUME NEW S, NEW s \in Seq(S), NEW e \in Seq(S), e # <<>>
    PROVE  Append(s, Head(e)) \o Tail(e) = s \o e
<1> DEFINE m == Append(s, Head(e))
<1>1. Head(e) \in S /\ Tail(e) \in Seq(S) /\ Len(Tail(e)) = Len(e) - 1
      /\ \A i \in 1..Len(Tail(e)) : Tail(e)[i] = e[i + 1]
  BY HeadTailProperties
<1>2. m \in Seq(S) /\ Len(m) = Len(s) + 1 /\ m[Len(s) + 1] = Head(e)
      /\ \A i \in 1..Len(s) : m[i] = s[i]
  BY <1>1, AppendProperties
<1>3. Head(e) = e[1] /\ Len(e) \in Nat /\ Len(s) \in Nat /\ Len(e) > 0
  OBVIOUS
<1> HIDE DEF m
<1>4. /\ m \o Tail(e) \in Seq(S) /\ Len(m \o Tail(e)) = Len(s) + Len(e)
      /\ \A i \in 1..(Len(s) + Len(e)) :
            (m \o Tail(e))[i] = IF i <= Len(s) + 1 THEN m[i] ELSE Tail(e)[i - (Len(s) + 1)]
  <2>1. /\ m \o Tail(e) \in Seq(S) /\ Len(m \o Tail(e)) = Len(m) + Len(Tail(e))
        /\ \A i \in 1..(Len(m) + Len(Tail(e))) :
              (m \o Tail(e))[i] = IF i <= Len(m) THEN m[i] ELSE Tail(e)[i - Len(m)]
    BY <1>1, <1>2, ConcatProperties
  <2> QED
    BY <2>1, <1>1, <1>2, <1>3
<1>5. /\ s \o e \in Seq(S) /\ Len(s \o e) = Len(s) + Len(e)
      /\ \A i \in 1..(Len(s) + Len(e)) :
            (s \o e)[i] = IF i <= Len(s) THEN s[i] ELSE e[i - Len(s)]
  BY ConcatProperties
<1>6. ASSUME NEW i \in 1..(Len(s) + Len(e)) PROVE (m \o Tail(e))[i] = (s \o e)[i]
  <2>1. CASE i <= Len(s)
    BY <2>1, <1>2, <1>3, <1>4, <1>5
  <2>2. CASE i = Len(s) + 1
    BY <2>2, <1>2, <1>3, <1>4, <1>5
  <2>3. CASE i > Len(s) + 1
    <3> DEFINE j == i - (Len(s) + 1)
    <3>1. j \in 1..Len(Tail(e)) /\ j + 1 = i - Len(s)
      BY <2>3, <1>1, <1>3
    <3>2. Tail(e)[j] = e[j + 1]
      BY <3>1, <1>1
    <3> QED
      BY <2>3, <3>1, <3>2, <1>3, <1>4, <1>5
  <2> QED
    <3>1. i \in Nat /\ Len(s) \in Nat
      BY <1>3
    <3>2. i <= Len(s) \/ i = Len(s) + 1 \/ i > Len(s) + 1
      BY <3>1
    <3> QED
      BY <3>2, <2>1, <2>2, <2>3
<1>7. m \o Tail(e) = s \o e
  BY <1>4, <1>5, <1>6, SeqEqual
<1> QED
  BY <1>7 DEF m

(* A message sent to the second queue goes to the end of the whole, and    *)
(* so does one sent to the first while the second is empty.                *)
LEMMA AppendConcat ==
    ASSUME NEW S, NEW s \in Seq(S), NEW e \in Seq(S), NEW m \in S
    PROVE  s \o Append(e, m) = Append(s \o e, m)
<1>1. Append(e, m) = e \o <<m>> /\ Append(s \o e, m) = (s \o e) \o <<m>>
  BY AppendIsConcat, ConcatProperties
<1>2. <<m>> \in Seq(S)
  OBVIOUS
<1> QED
  BY <1>1, <1>2, ConcatAssociative

(* The first of both queues is the first of the one that is read. *)
LEMMA ReadConcat ==
    ASSUME NEW S, NEW s \in Seq(S), NEW e \in Seq(S), s # <<>>
    PROVE  /\ s \o e # <<>>
           /\ Head(s \o e) = Head(s)
           /\ Tail(s \o e) = Tail(s) \o e
<1>1. /\ s \o e \in Seq(S) /\ Len(s \o e) = Len(s) + Len(e)
      /\ \A i \in 1..(Len(s) + Len(e)) :
            (s \o e)[i] = IF i <= Len(s) THEN s[i] ELSE e[i - Len(s)]
  BY ConcatProperties
<1>2. Len(s) \in Nat /\ Len(e) \in Nat /\ Len(s) > 0
  OBVIOUS
<1>3. s \o e # <<>>
  BY <1>1, <1>2
<1>4. Head(s \o e) = (s \o e)[1] /\ Head(s) = s[1]
  BY <1>1
<1>5. Head(s \o e) = Head(s)
  BY <1>1, <1>2, <1>4
<1>6. /\ Tail(s \o e) \in Seq(S) /\ Len(Tail(s \o e)) = Len(s) + Len(e) - 1
      /\ \A i \in 1..(Len(s) + Len(e) - 1) : Tail(s \o e)[i] = (s \o e)[i + 1]
  <2> DEFINE w == s \o e
  <2>1. w \in Seq(S) /\ w # <<>> /\ Len(w) = Len(s) + Len(e)
    BY <1>1, <1>3
  <2> HIDE DEF w
  <2>2. /\ Tail(w) \in Seq(S) /\ Len(Tail(w)) = Len(w) - 1
        /\ \A i \in 1..Len(Tail(w)) : Tail(w)[i] = w[i + 1]
    BY <2>1, HeadTailProperties
  <2>3. /\ Tail(w) \in Seq(S) /\ Len(Tail(w)) = Len(s) + Len(e) - 1
        /\ \A i \in 1..(Len(s) + Len(e) - 1) : Tail(w)[i] = w[i + 1]
    BY <2>1, <2>2
  <2> QED
    BY <2>3 DEF w
<1>7. /\ Tail(s) \in Seq(S) /\ Len(Tail(s)) = Len(s) - 1
      /\ \A i \in 1..(Len(s) - 1) : Tail(s)[i] = s[i + 1]
  BY <1>2, HeadTailProperties
<1>8. /\ Tail(s) \o e \in Seq(S) /\ Len(Tail(s) \o e) = Len(s) + Len(e) - 1
      /\ \A i \in 1..(Len(s) + Len(e) - 1) :
            (Tail(s) \o e)[i] = IF i <= Len(s) - 1 THEN Tail(s)[i] ELSE e[i - (Len(s) - 1)]
  <2>1. /\ Tail(s) \o e \in Seq(S) /\ Len(Tail(s) \o e) = Len(Tail(s)) + Len(e)
        /\ \A i \in 1..(Len(Tail(s)) + Len(e)) :
              (Tail(s) \o e)[i] = IF i <= Len(Tail(s)) THEN Tail(s)[i] ELSE e[i - Len(Tail(s))]
    BY <1>7, ConcatProperties
  <2> QED
    BY <2>1, <1>2, <1>7
<1>9. ASSUME NEW i \in 1..(Len(s) + Len(e) - 1)
      PROVE  Tail(s \o e)[i] = (Tail(s) \o e)[i]
  <2>1. CASE i <= Len(s) - 1
    BY <2>1, <1>1, <1>2, <1>6, <1>7, <1>8
  <2>2. CASE i > Len(s) - 1
    <3>1. i - (Len(s) - 1) = (i + 1) - Len(s) /\ i + 1 \in 1..(Len(s) + Len(e)) /\ i + 1 > Len(s)
      BY <2>2, <1>2
    <3>2. Tail(s \o e)[i] = e[(i + 1) - Len(s)]
      BY <3>1, <1>1, <1>2, <1>6
    <3> QED
      BY <2>2, <3>1, <3>2, <1>2, <1>8
  <2> QED
    BY <2>1, <2>2, <1>2
<1>10. Tail(s \o e) = Tail(s) \o e
  BY <1>6, <1>8, <1>9, SeqEqual
<1> QED
  BY <1>3, <1>5, <1>10

-----------------------------------------------------------------------------
(* What a step does to the two queues, seen as one. *)
Queue == sys \o ext
Got == delivered \o held

(* In a call of cprSendMessage() whose message is not on a queue yet. *)
Waits == {"lock", "postExt", "retry"}

LEMMA SeqTypes ==
    ASSUME TypeOK
    PROVE  /\ sys \in Seq(Msgs) /\ ext \in Seq(Msgs)
           /\ held \in Seq(Msgs) /\ delivered \in Seq(Msgs)
           /\ Queue \in Seq(Msgs) /\ Got \in Seq(Msgs) /\ Whole \in Seq(Msgs)
           /\ Whole = Got \o Queue
<1>1. /\ sys \in Seq(Msgs) /\ ext \in Seq(Msgs)
      /\ held \in Seq(Msgs) /\ delivered \in Seq(Msgs)
  BY DEF TypeOK
<1>2. Queue \in Seq(Msgs) /\ Got \in Seq(Msgs)
  BY <1>1, ConcatType DEF Queue, Got
<1>3. Whole = Got \o Queue
  <2>1. (Got \o sys) \o ext = Got \o (sys \o ext)
    BY <1>1, <1>2, ConcatAssociative, SMTT(20)
  <2> QED
    BY <2>1 DEF Whole, Queue, Got
<1> QED
  BY <1>1, <1>2, <1>3, ConcatType

(* The reader holds a message only inside cprGetMessage(). *)
HeldInCall == pc[Owner] \notin GetPCs => held = <<>>

(* No queue holds more than it can; a sender that is about to put the      *)
(* first message on the extended queue finds it empty and with room.       *)
Room ==
    /\ Len(sys) <= SysCap /\ Len(ext) <= MaxExt
    /\ \A t \in Threads : pc[t] = "postExt" => ext = <<>> /\ MaxExt > 0

(* The steps of a sender, as its caller sees them: *)
Moves(t, from, to) == pc[t] \in from /\ pc' = [pc EXCEPT ![t] = to]

Begins(t) ==
    /\ Moves(t, {"idle"}, "lock")
    /\ sends' = [sends EXCEPT ![t] = @ + 1]
    /\ UNCHANGED <<Queue, Got, ok, failed>>

Accepted(t) ==
    /\ Len(Queue) < SysCap + MaxExt
    /\ Queue' = Append(Queue, Current(t)) /\ UNCHANGED <<Got, sends, failed>>
    /\ \/ Moves(t, Waits, "idle") /\ ok' = ok \union {Current(t)}
       \/ Moves(t, Waits, "count") /\ ok' = ok

Succeeds(t) ==
    /\ Moves(t, {"count"}, "idle") /\ ok' = ok \union {Current(t)}
    /\ UNCHANGED <<Queue, Got, sends, failed>>

Fails(t) ==
    /\ Moves(t, Waits, "idle") /\ failed' = failed \union {Current(t)}
    /\ UNCHANGED <<Queue, Got, sends, ok>>

GoesOn(t) == \E to \in Waits :
    Moves(t, Waits, to) /\ UNCHANGED <<Queue, Got, sends, ok, failed>>

(* and those of the reader and the rest. *)
ReaderMoves == \E to \in {"idle"} \union GetPCs :
    Moves(Owner, {"idle"} \union GetPCs, to) /\ UNCHANGED <<sends, ok, failed>>

Takes ==
    /\ ReaderMoves
    /\ Queue # <<>> /\ Queue' = Tail(Queue) /\ Got' = Append(Got, Head(Queue))

ReadsOn == ReaderMoves /\ UNCHANGED <<Queue, Got>>

Nothing == UNCHANGED <<Queue, Got, sends, ok, failed, pc>>

LEMMA EachStep ==
    ASSUME TypeInv, HeldInCall, Room, [Next]_vars
    PROVE  \/ \E t \in Threads : Begins(t) \/ Accepted(t) \/ Succeeds(t) \/ Fails(t) \/ GoesOn(t)
           \/ Takes \/ ReadsOn \/ Nothing
<1>t. TypeOK /\ pc \in [Threads -> {"idle"} \union SendPCs \union GetPCs] /\ Owner \in Threads
  BY QueueAssumption DEF TypeInv, TypeOK
<1>q. /\ sys \in Seq(Msgs) /\ ext \in Seq(Msgs)
      /\ held \in Seq(Msgs) /\ delivered \in Seq(Msgs)
      /\ Queue \in Seq(Msgs) /\ Got \in Seq(Msgs)
  BY <1>t, SeqTypes
<1>c. \A t \in Threads : pc[t] \in SendPCs => Current(t) \in Msgs
  BY <1>t, CurrentType DEF TypeInv, Started
<1>e. \A m \in Msgs : sys \o Append(ext, m) = Append(Queue, m)
  BY <1>q, AppendConcat DEF Queue
<1>s. \A m \in Msgs : ext = <<>> => Append(sys, m) \o ext = Append(Queue, m)
  <2> SUFFICES ASSUME NEW m \in Msgs, ext = <<>> PROVE Append(sys, m) \o ext = Append(Queue, m)
    OBVIOUS
  <2>1. Append(sys, m) \in Seq(Msgs)
    BY <1>q, AppendProperties
  <2>2. Append(sys, m) \o <<>> = Append(sys, m) /\ sys \o <<>> = sys
    BY <2>1, <1>q, ConcatEmptySeq
  <2> QED
    BY <2>2 DEF Queue
<1>r. held' = <<>> /\ delivered' = delivered \o held => Got' = Got
  <2>1. Got \o <<>> = Got
    BY <1>q, ConcatEmptySeq
  <2> QED
    BY <2>1 DEF Got
<1>l. /\ Len(Queue) = Len(sys) + Len(ext) /\ Len(sys) \in Nat /\ Len(ext) \in Nat
      /\ SysCap \in Nat /\ MaxExt \in Nat /\ Len(<<>>) = 0
  BY <1>q, ConcatProperties, QueueAssumption DEF Queue
<1> USE DEF SendPCs, GetPCs, Goto, ReturnSuccess, ReturnFailure, Moves, Waits
<1>1. CASE SetMessageQueueThread \/ UNCHANGED vars
  BY <1>1 DEF SetMessageQueueThread, vars, Nothing, Queue, Got
<1>2. ASSUME NEW t \in Threads, SendMessage(t) PROVE Begins(t)
  BY <1>2 DEF SendMessage, Begins, Queue, Got
<1>3. ASSUME NEW t \in Threads, SendOverflow(t) PROVE Accepted(t) \/ Fails(t)
  <2>1. Current(t) \in Msgs
    BY <1>3, <1>c DEF SendOverflow
  <2>2. Len(Queue) < SysCap + MaxExt
    BY <1>3, <1>l DEF SendOverflow, Room
  <2> QED
    BY <1>3, <2>1, <2>2, <1>e DEF SendOverflow, PostExtendedQMsg, Accepted, Fails, Queue, Got
<1>4. ASSUME NEW t \in Threads, SendExtFull(t) PROVE Fails(t) \/ GoesOn(t)
  BY <1>4 DEF SendExtFull, Fails, GoesOn, Queue, Got
<1>5. ASSUME NEW t \in Threads, SendPost(t) PROVE Accepted(t)
  <2>1. Current(t) \in Msgs
    BY <1>5, <1>c DEF SendPost
  <2>2. Len(Queue) < SysCap + MaxExt
    BY <1>5, <1>l DEF SendPost, Room
  <2> QED
    BY <1>5, <2>1, <2>2, <1>s DEF SendPost, Accepted, Queue, Got
<1>6. ASSUME NEW t \in Threads, SendCount(t) PROVE Succeeds(t)
  BY <1>6 DEF SendCount, Succeeds, Queue, Got
<1>7. ASSUME NEW t \in Threads, SendPending(t) PROVE GoesOn(t)
  BY <1>7 DEF SendPending, GoesOn, Queue, Got
<1>8. ASSUME NEW t \in Threads, SendExtend(t) PROVE Accepted(t) \/ Fails(t)
  <2>1. Current(t) \in Msgs
    BY <1>8, <1>c DEF SendExtend
  <2>2. Len(Queue) < SysCap + MaxExt
    BY <1>8, <1>l DEF SendExtend, Room
  <2> QED
    BY <1>8, <2>1, <2>2, <1>e DEF SendExtend, PostExtendedQMsg, Accepted, Fails, Queue, Got
<1>9. ASSUME NEW t \in Threads, SendError(t) PROVE Fails(t)
  BY <1>9 DEF SendError, Fails, Queue, Got
<1>10. ASSUME NEW t \in Threads, SendRetry(t) PROVE Fails(t) \/ GoesOn(t)
  BY <1>10 DEF SendRetry, Fails, GoesOn, Queue, Got
<1>11. CASE GetMessage
  <2>1. held = <<>> /\ sys # <<>>
    BY <1>11 DEF GetMessage, HeldInCall
  <2>2. Queue # <<>> /\ Head(Queue) = Head(sys) /\ Tail(Queue) = Tail(sys) \o ext
    BY <2>1, <1>q, ReadConcat DEF Queue
  <2>3. delivered \o <<Head(sys)>> = Append(delivered, Head(sys)) /\ delivered \o <<>> = delivered
    BY <2>1, <1>q, HeadTailProperties, AppendIsConcat, ConcatEmptySeq
  <2>4. Queue' = Tail(Queue) /\ Got' = Append(Got, Head(Queue))
    BY <1>11, <2>1, <2>2, <2>3 DEF GetMessage, Queue, Got
  <2> QED
    BY <1>11, <2>2, <2>4 DEF GetMessage, Takes, ReaderMoves
<1>12. CASE GetDecrement
  BY <1>12 DEF GetDecrement, ReadsOn, ReaderMoves, Queue, Got
<1>13. CASE GetCheck
  <2>1. UNCHANGED Queue /\ UNCHANGED Got
    BY <1>13, <1>r DEF GetCheck, ReturnMessage, Queue, Got
  <2> QED
    BY <1>13, <2>1 DEF GetCheck, ReturnMessage, ReadsOn, ReaderMoves
<1>14. CASE MoveMsgToQueue
  <2>1. Got' = Got
    BY <1>14, <1>r DEF MoveMsgToQueue, ReturnMessage
  <2>2. Queue' = Queue
    <3>1. ext # <<>> => Append(sys, Head(ext)) \o Tail(ext) = Queue
      BY <1>q, MoveConcat DEF Queue
    <3> QED
      BY <1>14, <3>1 DEF MoveMsgToQueue, Queue
  <2> QED
    BY <1>14, <2>1, <2>2 DEF MoveMsgToQueue, ReturnMessage, ReadsOn, ReaderMoves
<1> QED
  BY <1>1, <1>2, <1>3, <1>4, <1>5, <1>6, <1>7, <1>8, <1>9, <1>10, <1>11,
     <1>12, <1>13, <1>14 DEF Next, SendStep, GetStep

-----------------------------------------------------------------------------
(* Capacities *)

LEMMA RoomStep ==
    ASSUME TypeInv, HeldInCall, Room, [Next]_vars PROVE HeldInCall' /\ Room'
<1>t. /\ pc \in [Threads -> {"idle"} \union SendPCs \union GetPCs] /\ Owner \in Threads
      /\ SysCap \in Nat \ {0} /\ MaxExt \in Nat
  BY QueueAssumption DEF TypeInv, TypeOK
<1>q. sys \in Seq(Msgs) /\ ext \in Seq(Msgs)
  BY DEF TypeInv, TypeOK
<1>c. \A t \in Threads : pc[t] \in SendPCs => Current(t) \in Msgs
  BY CurrentType DEF TypeInv, Started
<1>m. /\ \A t \in Threads : pc[t] = "postExt" => mutex = t
      /\ \A t \in Threads : pc[t] \in GetPCs => t = Owner
  BY DEF TypeInv, MutexHeld
<1>a. /\ \A m \in Msgs : Len(Append(sys, m)) = Len(sys) + 1 /\ Len(Append(ext, m)) = Len(ext) + 1
      /\ Len(sys) \in Nat /\ Len(ext) \in Nat /\ Len(<<>>) = 0
      /\ sys # <<>> => Len(Tail(sys)) = Len(sys) - 1
      /\ ext # <<>> => Head(ext) \in Msgs /\ Len(Tail(ext)) = Len(ext) - 1
  BY <1>q, AppendProperties, HeadTailProperties
<1>n. NoThread \notin Threads
  BY NoThreadAssumption
<1> USE DEF SendPCs, GetPCs, Goto, ReturnSuccess, ReturnFailure, HeldInCall, Room
<1>1. CASE SetMessageQueueThread \/ UNCHANGED vars
  BY <1>1 DEF SetMessageQueueThread, vars
<1>2. ASSUME NEW t \in Threads, SendMessage(t) PROVE HeldInCall' /\ Room'
  BY <1>2, <1>t DEF SendMessage
<1>3. ASSUME NEW t \in Threads, SendOverflow(t) PROVE HeldInCall' /\ Room'
  <2>1. Current(t) \in Msgs /\ \A u \in Threads : pc[u] # "postExt"
    BY <1>3, <1>c, <1>m, <1>n DEF SendOverflow
  <2>2. pc' = [pc EXCEPT ![t] = "idle"] /\ held' = held /\ sys' = sys /\ (t # Owner \/ pc[Owner] \notin GetPCs)
    BY <1>3, <1>t DEF SendOverflow, PostExtendedQMsg
  <2>3. Len(ext') <= MaxExt
    BY <1>3, <1>a, <1>t, <2>1 DEF SendOverflow, PostExtendedQMsg
  <2> QED
    BY <1>3, <1>t, <2>1, <2>2, <2>3 DEF SendOverflow, PostExtendedQMsg
<1>4. ASSUME NEW t \in Threads, SendExtFull(t) PROVE HeldInCall' /\ Room'
  BY <1>4, <1>t DEF SendExtFull
<1>5. ASSUME NEW t \in Threads, SendPost(t) PROVE HeldInCall' /\ Room'
  <2>1. Len(sys') <= SysCap
    BY <1>5, <1>a, <1>c, <1>t DEF SendPost
  <2> QED
    BY <1>5, <1>t, <2>1 DEF SendPost
<1>6. ASSUME NEW t \in Threads, SendCount(t) PROVE HeldInCall' /\ Room'
  BY <1>6, <1>t DEF SendCount
<1>7. ASSUME NEW t \in Threads, SendPending(t) PROVE HeldInCall' /\ Room'
  BY <1>7, <1>t DEF SendPending
<1>8. ASSUME NEW t \in Threads, SendExtend(t) PROVE HeldInCall' /\ Room'
  <2>1. /\ Current(t) \in Msgs /\ ext = <<>> /\ MaxExt > 0
        /\ \A u \in Threads : u # t => pc[u] # "postExt"
    BY <1>8, <1>c, <1>m DEF SendExtend
  <2>2. Len(ext') <= MaxExt
    <3>1. ext' = Append(ext, Current(t)) \/ ext' = ext
      BY <1>8 DEF SendExtend, PostExtendedQMsg
    <3>2. Len(Append(ext, Current(t))) = 1 /\ Len(ext) = 0
      BY <1>a, <2>1
    <3>3. 1 <= MaxExt /\ 0 <= MaxExt
      BY <2>1, <1>t
    <3>4. Len(ext') = 1 \/ Len(ext') = 0
      BY <3>1, <3>2
    <3> QED
      BY <3>3, <3>4
  <2> QED
    BY <1>8, <1>t, <2>1, <2>2 DEF SendExtend, PostExtendedQMsg
<1>9. ASSUME NEW t \in Threads, SendError(t) PROVE HeldInCall' /\ Room'
  BY <1>9, <1>t DEF SendError
<1>10. ASSUME NEW t \in Threads, SendRetry(t) PROVE HeldInCall' /\ Room'
  BY <1>10, <1>t DEF SendRetry
<1>11. CASE GetMessage
  <2>1. Len(sys') <= SysCap
    BY <1>11, <1>a, <1>t DEF GetMessage
  <2> QED
    BY <1>11, <1>t, <2>1 DEF GetMessage
<1>12. CASE GetDecrement
  BY <1>12, <1>t DEF GetDecrement
<1>13. CASE GetCheck
  BY <1>13, <1>t DEF GetCheck, ReturnMessage
<1>14. CASE MoveMsgToQueue
  <2>1. \A u \in Threads : pc[u] # "postExt"
    BY <1>14, <1>m, <1>n DEF MoveMsgToQueue
  <2>2. Len(sys') <= SysCap /\ Len(ext') <= MaxExt
    BY <1>14, <1>a, <1>t DEF MoveMsgToQueue
  <2> QED
    BY <1>14, <1>t, <2>1, <2>2 DEF MoveMsgToQueue, ReturnMessage
<1> QED
  BY <1>1, <1>2, <1>3, <1>4, <1>5, <1>6, <1>7, <1>8, <1>9, <1>10, <1>11,
     <1>12, <1>13, <1>14 DEF Next, SendStep, GetStep

-----------------------------------------------------------------------------
(* Order and hand-over.  Messages of a thread are numbered as it sends     *)
(* them: what is on the queues has a number below that of the message the  *)
(* thread is still trying to send, and so do the messages that failed.     *)
Placed ==
    \A i \in 1..Len(Whole) :
        /\ Whole[i][2] <= sends[Whole[i][1]]
        /\ pc[Whole[i][1]] \in Waits => Whole[i][2] < sends[Whole[i][1]]

Counted == \A t \in Threads : pc[t] = "count" => Current(t) \in Elements(Whole)

Failures ==
    \A m \in failed :
        /\ m[2] <= sends[m[1]]
        /\ pc[m[1]] \in Waits => m[2] < sends[m[1]]

FifoInv == InOrder /\ Placed /\ Counted /\ Failures /\ Ownership

(* What a message put at the end adds to the whole. *)
LEMMA WholeAppend ==
    ASSUME NEW w \in Seq(Msgs), NEW m \in Msgs
    PROVE  /\ Append(w, m) \in Seq(Msgs)
           /\ Len(Append(w, m)) = Len(w) + 1 /\ Len(w) \in Nat
           /\ \A i \in 1..(Len(w) + 1) :
                 \/ i \in 1..Len(w) /\ Append(w, m)[i] = w[i]
                 \/ i = Len(w) + 1 /\ Append(w, m)[i] = m
           /\ Elements(Append(w, m)) = Elements(w) \union {m}
<1>1. /\ Append(w, m) \in Seq(Msgs) /\ Len(Append(w, m)) = Len(w) + 1 /\ Len(w) \in Nat
      /\ \A i \in 1..Len(w) : Append(w, m)[i] = w[i]
      /\ Append(w, m)[Len(w) + 1] = m
  BY AppendProperties
<1>2. \A i \in 1..(Len(w) + 1) : i \in 1..Len(w) \/ i = Len(w) + 1
  BY <1>1
<1>3. Elements(Append(w, m)) = Elements(w) \union {m}
  BY <1>1, <1>2 DEF Elements
<1> QED
  BY <1>1, <1>2, <1>3

(* The fields of messages. *)
LEMMA MsgFields ==
    /\ \A m \in Msgs : m[1] \in Threads /\ m[2] \in Nat /\ m = <<m[1], m[2]>>
    /\ \A t \in Threads : Current(t)[1] = t /\ Current(t)[2] = sends[t]
BY DEF Msgs, Current

(* Nothing changes but where the threads are. *)
LEMMA FifoMove ==
    ASSUME TypeInv, FifoInv, Whole' = Whole, UNCHANGED <<sends, ok, failed>>,
           \A t \in Threads : (pc[t] \in Waits <=> pc'[t] \in Waits) /\ (pc[t] = "count" <=> pc'[t] = "count")
    PROVE  FifoInv'
<1>1. Whole \in Seq(Msgs) /\ failed \subseteq Msgs
  BY SeqTypes DEF TypeInv, TypeOK
<1>2. \A i \in 1..Len(Whole) : Whole[i][1] \in Threads
  BY <1>1, MsgFields, ElementOfSeq
<1>3. Elements(Whole)' = Elements(Whole)
  BY DEF Elements
<1>4. \A t \in Threads : Current(t)' = Current(t)
  BY DEF Current
<1>5. InOrder'
  BY DEF FifoInv, InOrder
<1>6. Placed'
  BY <1>2 DEF FifoInv, Placed
<1>7. Counted'
  BY <1>3, <1>4 DEF FifoInv, Counted
<1>8. Failures'
  BY <1>1, MsgFields DEF FifoInv, Failures
<1>9. Ownership'
  BY <1>3 DEF FifoInv, Ownership
<1> QED
  BY <1>5, <1>6, <1>7, <1>8, <1>9 DEF FifoInv

LEMMA FifoBegins ==
    ASSUME TypeInv, FifoInv, NEW t \in Threads, Begins(t), Whole' = Whole
    PROVE  FifoInv'
<1>1. Whole \in Seq(Msgs) /\ failed \subseteq Msgs /\ ok \subseteq Msgs
  BY SeqTypes DEF TypeInv, TypeOK
<1>2. \A i \in 1..Len(Whole) : Whole[i] \in Msgs
  BY <1>1, ElementOfSeq
<1>3. Elements(Whole)' = Elements(Whole)
  BY DEF Elements
<1>4. /\ pc \in [Threads -> {"idle"} \union SendPCs \union GetPCs]
      /\ sends \in [Threads -> 0..MaxSends] /\ MaxSends \in Nat
      /\ pc[t] = "idle" /\ pc' = [pc EXCEPT ![t] = "lock"]
      /\ sends' = [sends EXCEPT ![t] = @ + 1] /\ UNCHANGED <<ok, failed>>
  BY QueueAssumption DEF TypeInv, TypeOK, Begins, Moves
<1>5. InOrder'
  BY DEF FifoInv, InOrder
<1>6. \A m \in Msgs :
        m[2] <= sends[m[1]] /\ (pc[m[1]] \in Waits => m[2] < sends[m[1]])
          => m[2] <= sends'[m[1]] /\ (pc'[m[1]] \in Waits => m[2] < sends'[m[1]])
  BY <1>4, MsgFields
<1>7. Placed'
  BY <1>2, <1>6 DEF FifoInv, Placed
<1>8. Failures'
  BY <1>1, <1>4, <1>6 DEF FifoInv, Failures
<1>9. Counted'
  BY <1>3, <1>4 DEF FifoInv, Counted, Current
<1>10. Ownership'
  BY <1>3, <1>4 DEF FifoInv, Ownership
<1> QED
  BY <1>5, <1>7, <1>8, <1>9, <1>10 DEF FifoInv

LEMMA FifoAccepted ==
    ASSUME TypeInv, FifoInv, NEW t \in Threads, Accepted(t),
           Whole' = Append(Whole, Current(t))
    PROVE  FifoInv'
<1>1. Whole \in Seq(Msgs) /\ failed \subseteq Msgs /\ ok \subseteq Msgs
  BY SeqTypes DEF TypeInv, TypeOK
<1>2. \A i \in 1..Len(Whole) : Whole[i] \in Msgs
  BY <1>1, ElementOfSeq
<1>3. pc[t] \in Waits /\ Current(t) \in Msgs
  BY CurrentType DEF Accepted, Moves, Waits, TypeInv, Started, SendPCs
<1>4. /\ Whole' \in Seq(Msgs) /\ Len(Whole') = Len(Whole) + 1 /\ Len(Whole) \in Nat
      /\ \A i \in 1..(Len(Whole) + 1) :
            \/ i \in 1..Len(Whole) /\ Whole'[i] = Whole[i]
            \/ i = Len(Whole) + 1 /\ Whole'[i] = Current(t)
  <2>1. /\ Append(Whole, Current(t)) \in Seq(Msgs)
        /\ Len(Append(Whole, Current(t))) = Len(Whole) + 1 /\ Len(Whole) \in Nat
        /\ \A i \in 1..(Len(Whole) + 1) :
              \/ i \in 1..Len(Whole) /\ Append(Whole, Current(t))[i] = Whole[i]
              \/ i = Len(Whole) + 1 /\ Append(Whole, Current(t))[i] = Current(t)
    BY <1>1, <1>3, WholeAppend
  <2> QED
    BY <2>1
<1>5. Elements(Whole)' = Elements(Whole) \union {Current(t)}
  <2>1. Elements(Append(Whole, Current(t))) = Elements(Whole) \union {Current(t)}
    BY <1>1, <1>3, WholeAppend
  <2> QED
    BY <2>1 DEF Elements
<1>6. /\ pc \in [Threads -> {"idle"} \union SendPCs \union GetPCs]
      /\ sends \in [Threads -> 0..MaxSends] /\ MaxSends \in Nat
      /\ UNCHANGED <<sends, failed>>
      /\ \/ pc' = [pc EXCEPT ![t] = "idle"] /\ ok' = ok \union {Current(t)}
         \/ pc' = [pc EXCEPT ![t] = "count"] /\ ok' = ok
  BY QueueAssumption DEF TypeInv, TypeOK, Accepted, Moves
<1>7. pc'[t] \notin Waits /\ \A u \in Threads : u # t => pc'[u] = pc[u]
  BY <1>6 DEF Waits
<1>8. \A i \in 1..Len(Whole) : Whole[i][1] = t => Whole[i][2] < sends[t]
  BY <1>3 DEF FifoInv, Placed
<1>9. InOrder'
  <2> SUFFICES ASSUME NEW i \in 1..Len(Whole'), NEW j \in 1..Len(Whole'),
                      i < j, Whole'[i][1] = Whole'[j][1]
               PROVE  Whole'[i][2] < Whole'[j][2]
    BY DEF InOrder
  <2>1. i \in 1..Len(Whole) /\ Whole'[i] = Whole[i]
    BY <1>4
  <2>2. CASE j \in 1..Len(Whole) /\ Whole'[j] = Whole[j]
    BY <2>1, <2>2 DEF FifoInv, InOrder
  <2>3. CASE Whole'[j] = Current(t)
    BY <2>1, <2>3, <1>8, MsgFields
  <2> QED
    BY <2>2, <2>3, <1>4
<1>10. Placed'
  <2> SUFFICES ASSUME NEW i \in 1..Len(Whole')
               PROVE  /\ Whole'[i][2] <= sends'[Whole'[i][1]]
                      /\ pc'[Whole'[i][1]] \in Waits => Whole'[i][2] < sends'[Whole'[i][1]]
    BY DEF Placed
  <2>1. CASE i \in 1..Len(Whole) /\ Whole'[i] = Whole[i]
    <3>1. Whole[i][1] \in Threads
      BY <2>1, <1>2, MsgFields
    <3> QED
      BY <2>1, <3>1, <1>6, <1>7 DEF FifoInv, Placed
  <2>2. CASE Whole'[i] = Current(t)
    BY <2>2, <1>6, <1>7, MsgFields
  <2> QED
    BY <2>1, <2>2, <1>4
<1>11. Counted'
  BY <1>5, <1>6 DEF FifoInv, Counted, Current
<1>12. Failures'
  <2> SUFFICES ASSUME NEW m \in failed
               PROVE  m[2] <= sends[m[1]] /\ (pc'[m[1]] \in Waits => m[2] < sends[m[1]])
    BY <1>6 DEF Failures
  <2>1. m[1] \in Threads
    BY <1>1, MsgFields
  <2> QED
    BY <2>1, <1>7 DEF FifoInv, Failures
<1>13. Ownership'
  <2>1. Current(t) \notin failed
    <3>1. Current(t)[1] = t /\ Current(t)[2] = sends[t] /\ sends[t] \in Nat
      BY <1>6, MsgFields
    <3> QED
      BY <3>1, <1>3 DEF FifoInv, Failures
  <2> QED
    BY <2>1, <1>5, <1>6 DEF FifoInv, Ownership
<1> QED
  BY <1>9, <1>10, <1>11, <1>12, <1>13 DEF FifoInv

LEMMA FifoReturns ==
    ASSUME TypeInv, FifoInv, NEW t \in Threads, Succeeds(t) \/ Fails(t), Whole' = Whole
    PROVE  FifoInv'
<1>1. Whole \in Seq(Msgs) /\ failed \subseteq Msgs /\ ok \subseteq Msgs
  BY SeqTypes DEF TypeInv, TypeOK
<1>2. \A i \in 1..Len(Whole) : Whole[i] \in Msgs
  BY <1>1, ElementOfSeq
<1>3. Elements(Whole)' = Elements(Whole)
  BY DEF Elements
<1>4. /\ pc \in [Threads -> {"idle"} \union SendPCs \union GetPCs]
      /\ sends \in [Threads -> 0..MaxSends] /\ MaxSends \in Nat
      /\ pc[t] \in SendPCs /\ pc' = [pc EXCEPT ![t] = "idle"] /\ sends' = sends
  BY QueueAssumption DEF TypeInv, TypeOK, Succeeds, Fails, Moves, Waits, SendPCs
<1>5. pc'[t] \notin Waits \union {"count"} /\ \A u \in Threads : u # t => pc'[u] = pc[u]
  BY <1>4 DEF Waits
<1>6. Current(t) \in Msgs
  BY <1>4, CurrentType DEF TypeInv, Started
<1>7. Current(t)[1] = t /\ Current(t)[2] = sends[t] /\ sends[t] \in Nat
  BY <1>4, MsgFields
<1>8. InOrder'
  BY DEF FifoInv, InOrder
<1>9. Placed'
  <2> SUFFICES ASSUME NEW i \in 1..Len(Whole)
               PROVE  /\ Whole[i][2] <= sends[Whole[i][1]]
                      /\ pc'[Whole[i][1]] \in Waits => Whole[i][2] < sends[Whole[i][1]]
    BY <1>4 DEF Placed
  <2>1. Whole[i][1] \in Threads
    BY <1>2, MsgFields
  <2> QED
    BY <2>1, <1>5 DEF FifoInv, Placed
<1>10. Counted'
  BY <1>3, <1>4, <1>5 DEF FifoInv, Counted, Current
<1>11. Failures'
  <2> SUFFICES ASSUME NEW m \in failed'
               PROVE  m[2] <= sends[m[1]] /\ (pc'[m[1]] \in Waits => m[2] < sends[m[1]])
    BY <1>4 DEF Failures
  <2>1. CASE m \in failed
    <3>1. m[1] \in Threads
      BY <2>1, <1>1, MsgFields
    <3> QED
      BY <2>1, <3>1, <1>5 DEF FifoInv, Failures
  <2>2. CASE m = Current(t)
    BY <2>2, <1>5, <1>7
  <2> QED
    BY <2>1, <2>2 DEF Succeeds, Fails
<1>12. Ownership'
  <2>1. CASE Succeeds(t)
    <3>1. Current(t) \in Elements(Whole)
      BY <2>1 DEF FifoInv, Counted, Succeeds, Moves
    <3> QED
      BY <2>1, <3>1, <1>3 DEF FifoInv, Ownership, Succeeds
  <2>2. CASE Fails(t)
    <3>1. \A i \in 1..Len(Whole) : Whole[i] # Current(t)
      BY <2>2, <1>7 DEF FifoInv, Placed, Fails, Moves
    <3>2. Current(t) \notin Elements(Whole)
      BY <3>1 DEF Elements
    <3> QED
      BY <2>2, <3>2, <1>3 DEF FifoInv, Ownership, Fails
  <2> QED
    BY <2>1, <2>2
<1> QED
  BY <1>8, <1>9, <1>10, <1>11, <1>12 DEF FifoInv

(* What the steps do to the whole. *)
LEMMA WholeStep ==
    ASSUME TypeInv, TypeInv'
    PROVE  /\ UNCHANGED <<Queue, Got>> => Whole' = Whole
           /\ Takes => Whole' = Whole
           /\ \A t \in Threads : Accepted(t) => Whole' = Append(Whole, Current(t))
<1>1. /\ Queue \in Seq(Msgs) /\ Got \in Seq(Msgs) /\ Whole = Got \o Queue
  BY SeqTypes DEF TypeInv
<1>2. Whole' = Got' \o Queue'
  <2>1. /\ sys' \in Seq(Msgs) /\ ext' \in Seq(Msgs)
        /\ held' \in Seq(Msgs) /\ delivered' \in Seq(Msgs)
    BY DEF TypeInv, TypeOK
  <2>2. (delivered' \o held') \in Seq(Msgs)
    BY <2>1, ConcatType
  <2>3. ((delivered' \o held') \o sys') \o ext' = (delivered' \o held') \o (sys' \o ext')
    <3> DEFINE got == delivered' \o held'
    <3>1. got \in Seq(Msgs)
      BY <2>2
    <3> HIDE DEF got
    <3>2. (got \o sys') \o ext' = got \o (sys' \o ext')
      BY <3>1, <2>1, ConcatAssociative, SMTT(20)
    <3> QED
      BY <3>2 DEF got
  <2> QED
    BY <2>3 DEF Whole, Got, Queue
<1>3. Takes => Whole' = Whole
  BY <1>1, <1>2, MoveConcat DEF Takes
<1>4. ASSUME NEW t \in Threads, Accepted(t) PROVE Whole' = Append(Whole, Current(t))
  <2>1. Current(t) \in Msgs
    BY <1>4, CurrentType DEF Accepted, Moves, Waits, TypeInv, Started, SendPCs
  <2> QED
    BY <2>1, <1>1, <1>2, <1>4, AppendConcat DEF Accepted
<1> QED
  BY <1>1, <1>2, <1>3, <1>4

LEMMA FifoStep ==
    ASSUME TypeInv, TypeInv', HeldInCall, Room, FifoInv, [Next]_vars
    PROVE  FifoInv'
<1>t. pc \in [Threads -> {"idle"} \union SendPCs \union GetPCs] /\ Owner \in Threads
  BY QueueAssumption DEF TypeInv, TypeOK
<1>1. ASSUME NEW t \in Threads, Begins(t) PROVE FifoInv'
  BY <1>1, WholeStep, FifoBegins DEF Begins
<1>2. ASSUME NEW t \in Threads, Accepted(t) PROVE FifoInv'
  BY <1>2, WholeStep, FifoAccepted
<1>3. ASSUME NEW t \in Threads, Succeeds(t) \/ Fails(t) PROVE FifoInv'
  BY <1>3, WholeStep, FifoReturns DEF Succeeds, Fails
<1>4. ASSUME NEW t \in Threads, GoesOn(t) PROVE FifoInv'
  <2>1. \A u \in Threads : (pc[u] \in Waits <=> pc'[u] \in Waits) /\ (pc[u] = "count" <=> pc'[u] = "count")
    BY <1>4, <1>t DEF GoesOn, Moves, Waits
  <2> QED
    BY <1>4, <2>1, WholeStep, FifoMove DEF GoesOn
<1>5. CASE Takes \/ ReadsOn
  <2>1. \A u \in Threads : (pc[u] \in Waits <=> pc'[u] \in Waits) /\ (pc[u] = "count" <=> pc'[u] = "count")
    BY <1>5, <1>t DEF Takes, ReadsOn, ReaderMoves, Moves, Waits, GetPCs
  <2> QED
    BY <1>5, <2>1, WholeStep, FifoMove DEF Takes, ReadsOn, ReaderMoves
<1>6. CASE Nothing
  BY <1>6, WholeStep, FifoMove DEF Nothing
<1> QED
  BY <1>1, <1>2, <1>3, <1>4, <1>5, <1>6, EachStep

LEMMA FifoHolds == Spec => [](TypeInv /\ HeldInCall /\ Room /\ FifoInv)
<1>1. Init => HeldInCall /\ Room /\ FifoInv
  <2> SUFFICES ASSUME Init PROVE HeldInCall /\ Room /\ FifoInv
    OBVIOUS
  <2>1. Whole = <<>>
    <3>1. <<>> \o <<>> = <<>>
      BY ConcatEmptySeq, EmptySeq
    <3> QED
      BY <3>1 DEF Init, Whole
  <2>2. Len(<<>>) = 0
    OBVIOUS
  <2>3. FifoInv
    BY <2>1, <2>2 DEF Init, FifoInv, InOrder, Placed, Counted, Failures, Ownership
  <2> QED
    BY <2>2, <2>3, QueueAssumption DEF Init, HeldInCall, Room
<1>2. TypeInv /\ TypeInv' /\ HeldInCall /\ Room /\ FifoInv /\ [Next]_vars
        => HeldInCall' /\ Room' /\ FifoInv'
  BY RoomStep, FifoStep
<1> QED
  BY <1>1, <1>2, TypeInvHolds, PTL DEF Spec

(* Messages of one sender are returned by cprGetMessage() in the order of  *)
(* its cprSendMessage() calls, whichever queue each went through and       *)
(* whatever failed (InOrder).                                              *)
THEOREM OrderCorrect == Spec => []InOrder
BY FifoHolds, PTL DEF FifoInv

(* The result of cprSendMessage() says who owns the buffer (Ownership).    *)
THEOREM HandOver == Spec => []Ownership
BY FifoHolds, PTL DEF FifoInv

(* cprSendMessage() and cprGetMessage() implement Put and Get of MsgFifo,  *)
(* and everything else they do is a stutter (IsFifo).                      *)
THEOREM FifoImplemented == Spec => IsFifo
<1>1. Init => Fifo!Init
  <2>1. <<>> \o <<>> = <<>>
    BY ConcatEmptySeq, EmptySeq
  <2> QED
    BY <2>1 DEF Init, Fifo!Init
<1>2. TypeInv /\ HeldInCall /\ Room /\ FifoInv /\ [Next]_vars
        => [Fifo!Next]_<<sys \o ext, delivered \o held>>
  <2> SUFFICES ASSUME TypeInv, HeldInCall, Room, FifoInv, [Next]_vars
               PROVE  Fifo!Next \/ UNCHANGED <<sys \o ext, delivered \o held>>
    OBVIOUS
  <2>1. CASE Takes
    BY <2>1 DEF Takes, Queue, Got, Fifo!Next, Fifo!Get
  <2>2. ASSUME NEW t \in Threads, Accepted(t) PROVE Fifo!Next
    <3>1. pc[t] \in Waits /\ Current(t) \in Msgs
      BY <2>2, CurrentType DEF Accepted, Moves, Waits, TypeInv, Started, SendPCs
    <3>2. sys \in Seq(Msgs) /\ ext \in Seq(Msgs) /\ delivered \in Seq(Msgs) /\ held \in Seq(Msgs)
          /\ Queue \in Seq(Msgs) /\ Got \in Seq(Msgs)
          /\ Whole = Got \o Queue /\ sends[t] \in Nat
      <4>1. TypeOK /\ sends[t] \in Nat
        BY QueueAssumption DEF TypeInv, TypeOK
      <4> QED
        BY <4>1, SeqTypes
    <3>3. Len(Queue) < SysCap + MaxExt
      BY <2>2 DEF Accepted
    <3>4. /\ Len(Whole) = Len(Got) + Len(Queue)
          /\ \A i \in 1..(Len(Got) + Len(Queue)) :
                Whole[i] = IF i <= Len(Got) THEN Got[i] ELSE Queue[i - Len(Got)]
          /\ Len(Got) \in Nat /\ Len(Queue) \in Nat
      BY <3>2, ConcatProperties
    <3>5. \A i \in 1..Len(Whole) : Whole[i] # Current(t)
      <4>1. Current(t)[1] = t /\ Current(t)[2] = sends[t]
        BY MsgFields
      <4>2. \A i \in 1..Len(Whole) : Whole[i][1] = t => Whole[i][2] < sends[t]
        BY <3>1 DEF FifoInv, Placed
      <4> QED
        BY <4>1, <4>2, <3>2, SMTT(20)
    <3>6. \A i \in 1..Len(Got) : Got[i] # Current(t)
      BY <3>4, <3>5
    <3>7. \A i \in 1..Len(Queue) : Queue[i] # Current(t)
      <4> SUFFICES ASSUME NEW i \in 1..Len(Queue) PROVE Queue[i] # Current(t)
        OBVIOUS
      <4>1. i + Len(Got) \in 1..Len(Whole) /\ ~(i + Len(Got) <= Len(Got))
            /\ i + Len(Got) - Len(Got) = i
        BY <3>4
      <4> QED
        BY <4>1, <3>4, <3>5
    <3>8. Fifo!Put(Current(t))
      BY <2>2, <3>3, <3>6, <3>7 DEF Fifo!Put, Accepted, Queue, Got
    <3> QED
      BY <3>1, <3>8 DEF Fifo!Next
  <2>3. UNCHANGED <<Queue, Got>> => UNCHANGED <<sys \o ext, delivered \o held>>
    BY DEF Queue, Got
  <2> QED
    BY <2>1, <2>2, <2>3, EachStep DEF Begins, Succeeds, Fails, GoesOn, ReadsOn, Nothing
<1> QED
  BY <1>1, <1>2, FifoHolds, PTL DEF Spec, IsFifo, Fifo!Safety
=============================================================================
