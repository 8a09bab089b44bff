---------------------------- MODULE RegMgrProofs ----------------------------
(***************************************************************************)
(* Theorems about RegMgr, for any number of call managers, any answers and *)
(* any number of messages under way.                                       *)
(***************************************************************************)
EXTENDS RegMgr, SequenceTheorems, WellFoundedInduction, TLAPS

LineStates == {"IDLE", "REGISTERING", "REGISTERED", "UNREGISTERING"}
SlotStates == {"NONE", "IDLE", "UNREGISTERING", "IN_FALLBACK", "TOKEN_WAIT"}
Ccb == [st : LineStates \cup SlotStates, entry : Entry, reg : BOOLEAN, trx : BOOLEAN,
        retx : 0 .. MaxRetx]
AppEvents == {"FAILOVER_IND", "FALLBACK_IND", "REGISTERED", "ALL_FAIL", "CREATED", "CLOSED"}
RegStates == {"IDLE", "REGISTERING", "UNREGISTERING", "NO_STANDBY", "NO_CC"}

(***************************************************************************)
(* A message names a block of the kind that its handler is for: only the   *)
(* timers of fallback blocks can name one that was freed.                  *)
(***************************************************************************)
OfLine == {"REG_REQ", "TMR_ACK", "TMR_EXPIRE", "MSG_EXPIRED"}
OfSlot == {"WAIT", "CLEANUP"}
OfPointer == {"RETRY_EXPIRED", "WAIT_EXPIRED"}
OfAny == {"CANCEL", "RETRY", "KEEPALIVE", "ALLFAIL_EXPIRED", "FAILOVER_START", "FAILOVER_COMPLETE",
          "FALLBACK_START", "FALLBACK_WAITED", "FALLBACK_COMPLETE"}
TargetsOf(cmd) ==
    IF cmd \in OfLine THEN {Line, Backup}
    ELSE IF cmd \in OfSlot THEN Slots
    ELSE IF cmd \in OfPointer THEN Slots \cup {Freed}
    ELSE Idx
Message == [cmd : OfLine \cup OfSlot \cup OfPointer \cup OfAny, idx : Idx \cup {Freed}, ccm : Entry]
GoodMessage == {m \in Message : m.idx \in TargetsOf(m.cmd)}

SipRecord ==
    [act : Entry, stb : Entry, newStb : Entry, ccb : [Idx -> Ccb], list : BOOLEAN,
     avail : SUBSET Slots, tmr : SUBSET Timers, monitor : BOOLEAN, foEntry : Entry,
     foStarted : BOOLEAN, prime : BOOLEAN, fbEntry : Entry, fbCcb : Slots \cup {Freed},
     isResp : BOOLEAN, rstate : RegStates, up : BOOLEAN, q : Seq(GoodMessage),
     appq : Seq(AppEvents)]

(***************************************************************************)
(* The blocks: the line and the backup have always one, in a state of      *)
(* their own; a fallback block never registers; the block that the phone   *)
(* falls back to exists; every number is free or belongs to a block.       *)
(***************************************************************************)
Blocks(s) ==
    /\ s.list => s.avail = Slots \ Monitored(s)
    /\ \A i \in {Line, Backup} : s.ccb[i].st \in LineStates
    /\ \A i \in Slots : s.ccb[i].st \in SlotStates
    /\ s.fbCcb \in Slots => s.ccb[s.fbCcb].st # "NONE"
Good(s) == s \in SipRecord /\ Blocks(s)

(* A block that a handler may work on. *)
Live(s, i) == i \in Idx /\ s.ccb[i].st # "NONE"

(* Nothing of the blocks' bookkeeping differs. *)
SameBlocks(s, t) ==
    /\ t.avail = s.avail /\ t.list = s.list /\ t.fbCcb = s.fbCcb
    /\ \A i \in Idx : t.ccb[i].st = s.ccb[i].st

LEMMA Numbers ==
    /\ MaxCcm \in Nat /\ MaxCcm >= 2 /\ MaxRetx \in Nat
    /\ Line = -1 /\ Backup = 0 /\ None = -1 /\ Freed = -2
    /\ Slots = 1 .. MaxCcm - 1 /\ Ccms = 0 .. MaxCcm - 1 /\ Entry = Ccms \cup {None}
    /\ Idx = {Line, Backup} \cup Slots
    /\ Line \notin Slots /\ Backup \notin Slots /\ Freed \notin Idx /\ Line # Backup
    /\ Line \in Idx /\ Backup \in Idx /\ Slots \subseteq Idx /\ None \in Entry
BY RegMgrAssumption DEF Line, Backup, None, Freed, Slots, Ccms, Entry, Idx

LEMMA SameGood ==
    ASSUME NEW s, Good(s), NEW t \in SipRecord, SameBlocks(s, t)
    PROVE  Good(t) /\ \A i : Live(t, i) <=> Live(s, i)
<1>1. Monitored(t) = Monitored(s)
  BY Numbers DEF Monitored, SameBlocks
<1>2. /\ \A i \in {Line, Backup} : t.ccb[i].st = s.ccb[i].st
      /\ \A i \in Slots : t.ccb[i].st = s.ccb[i].st
  BY Numbers DEF SameBlocks
<1>3. Blocks(t)
  BY <1>1, <1>2 DEF Blocks, SameBlocks, Good
<1>4. \A i : Live(t, i) <=> Live(s, i)
  BY DEF Live, SameBlocks
<1> QED
  BY <1>3, <1>4 DEF Good

(* One block changes. *)
LEMMA BlockGood ==
    ASSUME NEW s, Good(s), NEW i \in Idx, NEW b \in Ccb,
           i \in {Line, Backup} => b.st \in LineStates,
           i \in Slots => b.st \in SlotStates \ {"NONE"} /\ s.ccb[i].st # "NONE"
    PROVE  /\ Good([s EXCEPT !.ccb[i] = b])
           /\ \A k : Live([s EXCEPT !.ccb[i] = b], k) <=> Live(s, k)
<1> DEFINE t == [s EXCEPT !.ccb[i] = b]
<1>1. s \in SipRecord /\ Blocks(s) /\ s.ccb \in [Idx -> Ccb]
  BY DEF Good, SipRecord
<1>2. t \in SipRecord
  BY <1>1 DEF SipRecord
<1>3. /\ t.ccb = [s.ccb EXCEPT ![i] = b] /\ t.avail = s.avail /\ t.list = s.list
      /\ t.fbCcb = s.fbCcb
  BY <1>1 DEF SipRecord
<1>4. /\ t.ccb[i] = b
      /\ \A k \in Idx : k # i => t.ccb[k] = s.ccb[k]
  BY <1>1, <1>3
<1> HIDE DEF t
<1>5. Monitored(t) = Monitored(s)
  BY <1>4, Numbers DEF Monitored
<1>6. Blocks(t)
  <2>1. \A k \in {Line, Backup} : t.ccb[k].st \in LineStates
    BY <1>1, <1>4, Numbers DEF Blocks
  <2>2. \A k \in Slots : t.ccb[k].st \in SlotStates
    BY <1>1, <1>4, Numbers DEF Blocks
  <2>3. t.fbCcb \in Slots => t.ccb[t.fbCcb].st # "NONE"
    BY <1>1, <1>3, <1>4, Numbers DEF Blocks
  <2> QED
    BY <1>1, <1>3, <1>5, <2>1, <2>2, <2>3 DEF Blocks
<1>7. ASSUME NEW k PROVE Live(t, k) <=> Live(s, k)
  BY <1>1, <1>4, Numbers DEF Live, Blocks, LineStates
<1> QED
  BY <1>2, <1>6, <1>7 DEF Good, t

(***************************************************************************)
(* What every procedure but those that free a block does: the record is    *)
(* good again, and no block is lost.                                       *)
(***************************************************************************)
Keeps(s, t) == Good(t) /\ \A i : Live(s, i) => Live(t, i)

LEMMA KeepsSame ==
    ASSUME NEW s, Good(s), NEW t \in SipRecord, SameBlocks(s, t) PROVE Keeps(s, t)
BY SameGood DEF Keeps

LEMMA KeepsBlock ==
    ASSUME NEW s, Good(s), NEW i \in Idx, NEW b \in Ccb,
           i \in {Line, Backup} => b.st \in LineStates,
           i \in Slots => b.st \in SlotStates \ {"NONE"} /\ s.ccb[i].st # "NONE"
    PROVE  Keeps(s, [s EXCEPT !.ccb[i] = b])
BY BlockGood DEF Keeps

LEMMA KeepsOn ==
    ASSUME NEW s, NEW t, NEW u, Keeps(s, t), Keeps(t, u) PROVE Keeps(s, u)
BY DEF Keeps

(* The line and the backup have always a block. *)
LEMMA LineLive ==
    ASSUME NEW s, Good(s) PROVE Live(s, Line) /\ Live(s, Backup)
BY Numbers DEF Good, Blocks, Live, LineStates

LEMMA LiveBlock ==
    ASSUME NEW s, Good(s), NEW i, Live(s, i)
    PROVE  /\ i \in Idx /\ s.ccb[i] \in Ccb /\ s.ccb[i].entry \in Entry
           /\ i \in {Line, Backup} => s.ccb[i].st \in LineStates
           /\ i \in Slots => s.ccb[i].st \in SlotStates \ {"NONE"}
BY DEF Good, SipRecord, Ccb, Live, Blocks

LEMMA StartKeeps ==
    ASSUME NEW s, Good(s), NEW kind, NEW i, <<kind, i>> \in Timers PROVE Keeps(s, Start(s, kind, i))
<1>1. Start(s, kind, i) \in SipRecord
  BY DEF Good, SipRecord, Start
<1>2. SameBlocks(s, Start(s, kind, i))
  BY DEF Good, SipRecord, Start, SameBlocks
<1> QED
  BY <1>1, <1>2, KeepsSame

LEMMA StopKeeps ==
    ASSUME NEW s, Good(s), NEW kind, NEW i PROVE Keeps(s, Stop(s, kind, i))
<1>1. Stop(s, kind, i) \in SipRecord
  BY DEF Good, SipRecord, Stop
<1>2. SameBlocks(s, Stop(s, kind, i))
  BY DEF Good, SipRecord, Stop, SameBlocks
<1> QED
  BY <1>1, <1>2, KeepsSame

(* The timers of the line and the backup, and those of fallback blocks. *)
LEMMA TimerKinds ==
    /\ \A i \in {Line, Backup}, kind \in {"ack", "expires", "msg"} : <<kind, i>> \in Timers
    /\ \A i \in Slots, kind \in {"retry", "wait"} : <<kind, i>> \in Timers
    /\ <<"keepalive", Backup>> \in Timers /\ <<"allfail", Line>> \in Timers
BY DEF Timers

LEMMA AckKeeps ==
    ASSUME NEW s, Good(s), NEW i PROVE Keeps(s, StopAck(s, i)) /\ Keeps(s, StartAck(s, i))
<1>1. <<"ack", AckTimerOf(i)>> \in Timers
  BY TimerKinds DEF AckTimerOf
<1> QED
  BY <1>1, StartKeeps, StopKeeps DEF StopAck, StartAck

LEMMA PostKeeps ==
    ASSUME NEW s, Good(s), NEW m \in GoodMessage PROVE Keeps(s, Post(s, m))
<1>1. s.q \in Seq(GoodMessage)
  BY DEF Good, SipRecord
<1>2. Append(s.q, m) \in Seq(GoodMessage)
  BY <1>1
<1>3. Post(s, m) \in SipRecord
  BY <1>2 DEF Good, SipRecord, Post
<1>4. SameBlocks(s, Post(s, m))
  BY DEF Good, SipRecord, Post, SameBlocks
<1> QED
  BY <1>3, <1>4, KeepsSame

LEMMA PostAppKeeps ==
    ASSUME NEW s, Good(s), NEW ev \in AppEvents PROVE Keeps(s, PostApp(s, ev))
<1>1. s.appq \in Seq(AppEvents)
  BY DEF Good, SipRecord
<1>2. Append(s.appq, ev) \in Seq(AppEvents)
  BY <1>1
<1>3. PostApp(s, ev) \in SipRecord
  BY <1>2 DEF Good, SipRecord, PostApp
<1>4. SameBlocks(s, PostApp(s, ev))
  BY DEF Good, SipRecord, PostApp, SameBlocks
<1> QED
  BY <1>3, <1>4, KeepsSame

LEMMA MessageGood ==
    ASSUME NEW cmd \in OfLine \cup OfSlot \cup OfPointer \cup OfAny, NEW i \in TargetsOf(cmd),
           NEW ccm \in Entry
    PROVE  Msg(cmd, i, ccm) \in GoodMessage
<1>1. TargetsOf(cmd) \subseteq Idx \cup {Freed}
  BY Numbers DEF TargetsOf
<1>2. Msg(cmd, i, ccm) \in Message /\ Msg(cmd, i, ccm).idx = i /\ Msg(cmd, i, ccm).cmd = cmd
  BY <1>1 DEF Msg, Message
<1> QED
  BY <1>2 DEF GoodMessage

LEMMA Targets ==
    /\ TargetsOf("REG_REQ") = {Line, Backup} /\ TargetsOf("TMR_ACK") = {Line, Backup}
    /\ TargetsOf("TMR_EXPIRE") = {Line, Backup} /\ TargetsOf("MSG_EXPIRED") = {Line, Backup}
    /\ TargetsOf("WAIT") = Slots /\ TargetsOf("CLEANUP") = Slots
    /\ TargetsOf("RETRY_EXPIRED") = Slots \cup {Freed} /\ TargetsOf("WAIT_EXPIRED") = Slots \cup {Freed}
    /\ TargetsOf("CANCEL") = Idx /\ TargetsOf("RETRY") = Idx
BY DEF TargetsOf, OfLine, OfSlot, OfPointer

LEMMA SendKeeps ==
    ASSUME NEW s, Good(s), NEW cmd \in OfLine \cup OfSlot \cup OfPointer \cup OfAny,
           NEW i \in Idx, i \in TargetsOf(cmd)
    PROVE  Keeps(s, Send(s, cmd, i))
<1>1. s.ccb[i].entry \in Entry
  BY DEF Good, SipRecord, Ccb
<1>2. Msg(cmd, i, s.ccb[i].entry) \in GoodMessage
  BY <1>1, MessageGood
<1>3. Keeps(s, s)
  BY DEF Keeps
<1> QED
  BY <1>2, <1>3, PostKeeps DEF Send

(* Changes to a block that leave its state alone. *)
LEMMA FieldsKeep ==
    ASSUME NEW s, Good(s), NEW i, Live(s, i)
    PROVE  /\ \A n \in 0 .. MaxRetx : Keeps(s, [s EXCEPT !.ccb[i].retx = n])
           /\ \A b \in BOOLEAN : Keeps(s, [s EXCEPT !.ccb[i].reg = b])
           /\ \A b \in BOOLEAN : Keeps(s, [s EXCEPT !.ccb[i].trx = b])
           /\ \A b \in BOOLEAN, n \in 0 .. MaxRetx :
                 Keeps(s, [s EXCEPT !.ccb[i].trx = b, !.ccb[i].retx = n])
<1> DEFINE r == s.ccb[i]
<1>1. /\ i \in Idx /\ r \in Ccb /\ s.ccb \in [Idx -> Ccb]
      /\ i \in {Line, Backup} => r.st \in LineStates
      /\ i \in Slots => r.st \in SlotStates \ {"NONE"}
  BY LiveBlock DEF Good, SipRecord
<1>2. ASSUME NEW b \in Ccb, b.st = r.st PROVE Keeps(s, [s EXCEPT !.ccb[i] = b])
  BY <1>1, <1>2, KeepsBlock
<1>3. ASSUME NEW n \in 0 .. MaxRetx PROVE Keeps(s, [s EXCEPT !.ccb[i].retx = n])
  <2>1. [r EXCEPT !.retx = n] \in Ccb /\ [r EXCEPT !.retx = n].st = r.st
    BY <1>1 DEF Ccb
  <2> QED
    BY <1>2, <2>1
<1>4. ASSUME NEW b \in BOOLEAN PROVE Keeps(s, [s EXCEPT !.ccb[i].reg = b])
  <2>1. [r EXCEPT !.reg = b] \in Ccb /\ [r EXCEPT !.reg = b].st = r.st
    BY <1>1 DEF Ccb
  <2> QED
    BY <1>2, <2>1
<1>5. ASSUME NEW b \in BOOLEAN PROVE Keeps(s, [s EXCEPT !.ccb[i].trx = b])
  <2>1. [r EXCEPT !.trx = b] \in Ccb /\ [r EXCEPT !.trx = b].st = r.st
    BY <1>1 DEF Ccb
  <2> QED
    BY <1>2, <2>1
<1>6. ASSUME NEW b \in BOOLEAN, NEW n \in 0 .. MaxRetx
      PROVE  Keeps(s, [s EXCEPT !.ccb[i].trx = b, !.ccb[i].retx = n])
  <2> DEFINE v == [[r EXCEPT !.trx = b] EXCEPT !.retx = n]
  <2>1. v \in Ccb /\ v.st = r.st
    BY <1>1 DEF Ccb
  <2>2. [s EXCEPT !.ccb[i].trx = b, !.ccb[i].retx = n] = [s EXCEPT !.ccb[i] = v]
    BY <1>1 DEF Good, SipRecord
  <2> HIDE DEF v
  <2> QED
    BY <1>2, <2>1, <2>2
<1> QED
  BY <1>3, <1>4, <1>5, <1>6

LEMMA EntryKeeps ==
    ASSUME NEW s, Good(s), NEW i, Live(s, i), NEW c \in Entry
    PROVE  Keeps(s, [s EXCEPT !.ccb[i].entry = c])
<1> DEFINE b == [s.ccb[i] EXCEPT !.entry = c]
<1>1. /\ i \in Idx /\ s.ccb[i] \in Ccb /\ s.ccb \in [Idx -> Ccb]
      /\ i \in {Line, Backup} => s.ccb[i].st \in LineStates
      /\ i \in Slots => s.ccb[i].st \in SlotStates \ {"NONE"}
  BY LiveBlock DEF Good, SipRecord
<1>2. b \in Ccb /\ b.st = s.ccb[i].st
  BY <1>1 DEF Ccb
<1>3. [s EXCEPT !.ccb[i].entry = c] = [s EXCEPT !.ccb[i] = b]
  OBVIOUS
<1> HIDE DEF b
<1> QED
  BY <1>1, <1>2, <1>3, KeepsBlock

(* A change of state. *)
LEMMA PutKeeps ==
    ASSUME NEW s, Good(s), NEW i, Live(s, i), NEW st,
           i \in {Line, Backup} => st \in LineStates,
           i \in Slots => st \in SlotStates \ {"NONE"}
    PROVE  Keeps(s, Put(s, i, st))
<1> DEFINE b == [s.ccb[i] EXCEPT !.st = st]
<1>1. i \in Idx /\ s.ccb[i] \in Ccb /\ s.ccb \in [Idx -> Ccb]
  BY LiveBlock DEF Good, SipRecord
<1>2. st \in LineStates \cup SlotStates
  BY <1>1, Numbers
<1>3. b \in Ccb /\ b.st = st
  BY <1>1, <1>2 DEF Ccb
<1>4. Put(s, i, st) = [s EXCEPT !.ccb[i] = b]
  BY DEF Put
<1>5. i \in Slots => s.ccb[i].st # "NONE"
  BY DEF Live
<1> HIDE DEF b
<1> QED
  BY <1>1, <1>3, <1>4, <1>5, KeepsBlock


(* The fields that do not describe a block. *)
LEMMA ScalarsKeep ==
    ASSUME NEW s, Good(s)
    PROVE  /\ \A c \in Entry : /\ Keeps(s, [s EXCEPT !.act = c])
                               /\ Keeps(s, [s EXCEPT !.stb = c])
                               /\ Keeps(s, [s EXCEPT !.newStb = c])
                               /\ Keeps(s, [s EXCEPT !.fbEntry = c])
           /\ \A b \in BOOLEAN : /\ Keeps(s, [s EXCEPT !.monitor = b])
                                 /\ Keeps(s, [s EXCEPT !.foStarted = b])
                                 /\ Keeps(s, [s EXCEPT !.prime = b])
           /\ \A r \in RegStates : Keeps(s, SetRegState(s, r))
           /\ Keeps(s, Undefined(s))
<1>1. s \in SipRecord
  BY DEF Good
<1>2. ASSUME NEW c \in Entry
      PROVE  /\ Keeps(s, [s EXCEPT !.act = c]) /\ Keeps(s, [s EXCEPT !.stb = c])
             /\ Keeps(s, [s EXCEPT !.newStb = c]) /\ Keeps(s, [s EXCEPT !.fbEntry = c])
  <2>1. /\ [s EXCEPT !.act = c] \in SipRecord /\ SameBlocks(s, [s EXCEPT !.act = c])
        /\ [s EXCEPT !.stb = c] \in SipRecord /\ SameBlocks(s, [s EXCEPT !.stb = c])
    BY <1>1 DEF SipRecord, SameBlocks
  <2>2. /\ [s EXCEPT !.newStb = c] \in SipRecord /\ SameBlocks(s, [s EXCEPT !.newStb = c])
        /\ [s EXCEPT !.fbEntry = c] \in SipRecord /\ SameBlocks(s, [s EXCEPT !.fbEntry = c])
    BY <1>1 DEF SipRecord, SameBlocks
  <2> QED
    BY <2>1, <2>2, KeepsSame
<1>3. ASSUME NEW b \in BOOLEAN
      PROVE  /\ Keeps(s, [s EXCEPT !.monitor = b]) /\ Keeps(s, [s EXCEPT !.foStarted = b])
             /\ Keeps(s, [s EXCEPT !.prime = b])
  <2>1. /\ [s EXCEPT !.monitor = b] \in SipRecord /\ SameBlocks(s, [s EXCEPT !.monitor = b])
        /\ [s EXCEPT !.foStarted = b] \in SipRecord /\ SameBlocks(s, [s EXCEPT !.foStarted = b])
        /\ [s EXCEPT !.prime = b] \in SipRecord /\ SameBlocks(s, [s EXCEPT !.prime = b])
    BY <1>1 DEF SipRecord, SameBlocks
  <2> QED
    BY <2>1, KeepsSame
<1>4. ASSUME NEW r \in RegStates PROVE Keeps(s, SetRegState(s, r))
  <2>1. SetRegState(s, r) \in SipRecord /\ SameBlocks(s, SetRegState(s, r))
    BY <1>1 DEF SipRecord, SameBlocks, SetRegState
  <2> QED
    BY <2>1, KeepsSame
<1>5. Keeps(s, Undefined(s))
  <2>1. Undefined(s) \in SipRecord /\ SameBlocks(s, Undefined(s))
    BY <1>1 DEF SipRecord, SameBlocks, Undefined
  <2> QED
    BY <2>1, KeepsSame
<1> QED
  BY <1>2, <1>3, <1>4, <1>5

LEMMA KeepsSelf == ASSUME NEW s, Good(s) PROVE Keeps(s, s)
BY DEF Keeps

LEMMA CallCleanupKeeps ==
    ASSUME NEW s, Good(s), NEW i, Live(s, i) PROVE Keeps(s, CallCleanup(s, i))
<1> DEFINE b == [NewCcb("IDLE", IF i = Line THEN s.act ELSE s.stb) EXCEPT !.retx = s.ccb[i].retx]
<1>1. i \in Idx /\ s.ccb[i] \in Ccb /\ s.ccb[i].st # "NONE" /\ s.act \in Entry /\ s.stb \in Entry
  BY LiveBlock DEF Good, SipRecord, Live
<1>2. b \in Ccb /\ b.st = "IDLE"
  <2>1. NewCcb("IDLE", IF i = Line THEN s.act ELSE s.stb) \in Ccb
    BY <1>1, Numbers DEF NewCcb, Ccb, LineStates
  <2> QED
    BY <1>1, <2>1 DEF Ccb, NewCcb
<1>3. CallCleanup(s, i) = [s EXCEPT !.ccb[i] = b]
  BY DEF CallCleanup
<1> HIDE DEF b
<1> QED
  BY <1>1, <1>2, <1>3, KeepsBlock DEF LineStates, SlotStates

LEMMA RegisterCleanupKeeps ==
    ASSUME NEW s, Good(s), NEW i, Live(s, i), NEW start \in BOOLEAN,
           start => i \in {Line, Backup}
    PROVE  Keeps(s, RegisterCleanup(s, i, start))
<1> DEFINE s0 == [s EXCEPT !.ccb[i].reg = FALSE]
           s1 == StopAck(s0, i)
           s2 == IF start /\ s.ccb[i].st # "UNREGISTERING" THEN Start(s1, "expires", i) ELSE s1
           s3 == IF AllUnregistered(s2) THEN SetRegState(s2, "IDLE") ELSE s2
<1>1. Keeps(s, s0)
  BY FieldsKeep
<1> HIDE DEF s0
<1>2. Keeps(s0, s1)
  BY <1>1, AckKeeps DEF Keeps
<1> HIDE DEF s1
<1>3. Keeps(s1, s2)
  <2>1. Good(s1)
    BY <1>2 DEF Keeps
  <2>2. CASE start /\ s.ccb[i].st # "UNREGISTERING"
    BY <2>1, <2>2, TimerKinds, StartKeeps
  <2>3. CASE ~(start /\ s.ccb[i].st # "UNREGISTERING")
    BY <2>1, <2>3, KeepsSelf
  <2> QED
    BY <2>2, <2>3
<1> HIDE DEF s2
<1>4. Keeps(s2, s3)
  <2>1. Good(s2)
    BY <1>3 DEF Keeps
  <2> QED
    BY <2>1, ScalarsKeep, KeepsSelf DEF RegStates
<1> HIDE DEF s3
<1>5. Keeps(s, s3)
  BY <1>1, <1>2, <1>3, <1>4 DEF Keeps
<1>6. Keeps(s3, CallCleanup(s3, i))
  BY <1>5, CallCleanupKeeps DEF Keeps
<1>7. RegisterCleanup(s, i, start) = CallCleanup(s3, i)
  BY DEF RegisterCleanup, s3, s2, s1, s0
<1> QED
  BY <1>5, <1>6, <1>7, KeepsOn

LEMMA SendOrCleanupKeeps ==
    ASSUME NEW s, Good(s), NEW cmd \in {"REG_REQ", "CANCEL", "RETRY"}, NEW i \in {Line, Backup},
           NEW start \in BOOLEAN
    PROVE  Keeps(s, SendOrCleanup(s, cmd, i, start))
<1>1. i \in Idx /\ Live(s, i)
  BY LineLive, Numbers
<1>2. i \in TargetsOf(cmd)
  BY <1>1, Targets
<1>3. cmd \in OfLine \cup OfSlot \cup OfPointer \cup OfAny
  BY DEF OfLine, OfAny
<1> QED
  BY <1>1, <1>2, <1>3, SendKeeps, RegisterCleanupKeeps DEF SendOrCleanup

LEMMA SetupNewActiveKeeps ==
    ASSUME NEW s, Good(s), NEW c \in Entry PROVE Keeps(s, SetupNewActive(s, c))
<1> DEFINE s1 == Stop(s, "expires", Line)
           s2 == StopAck(s1, Line)
           s3 == CallCleanup(s2, Line)
           s4 == [s3 EXCEPT !.ccb[Line].entry = c]
<1>1. Keeps(s, s1)
  BY StopKeeps
<1> HIDE DEF s1
<1>2. Keeps(s1, s2)
  BY <1>1, AckKeeps DEF Keeps
<1> HIDE DEF s2
<1>3. Keeps(s2, s3)
  BY <1>2, LineLive, CallCleanupKeeps DEF Keeps
<1> HIDE DEF s3
<1>4. Keeps(s3, s4)
  BY <1>3, LineLive, EntryKeeps DEF Keeps
<1> HIDE DEF s4
<1>5. Keeps(s4, [s4 EXCEPT !.act = c])
  BY <1>4, ScalarsKeep DEF Keeps
<1>6. SetupNewActive(s, c) = [s4 EXCEPT !.act = c]
  BY DEF SetupNewActive, s1, s2, s3, s4
<1> QED
  BY <1>1, <1>2, <1>3, <1>4, <1>5, <1>6 DEF Keeps

LEMMA SetupNewStandbyKeeps ==
    ASSUME NEW s, Good(s), NEW c \in Entry PROVE Keeps(s, SetupNewStandby(s, c))
<1> DEFINE s1 == RegisterCleanup(s, Backup, FALSE)
           s2 == [s1 EXCEPT !.ccb[Backup].st = "UNREGISTERING"]
           s3 == [s2 EXCEPT !.ccb[Backup].entry = c]
<1>1. Keeps(s, s1)
  BY LineLive, RegisterCleanupKeeps
<1> HIDE DEF s1
<1>2. Keeps(s1, s2)
  <2>1. s2 = Put(s1, Backup, "UNREGISTERING")
    BY DEF Put
  <2> QED
    BY <1>1, <2>1, LineLive, PutKeeps, Numbers DEF Keeps, LineStates
<1> HIDE DEF s2
<1>3. Keeps(s2, s3)
  BY <1>2, LineLive, EntryKeeps DEF Keeps
<1> HIDE DEF s3
<1>4. Keeps(s3, [s3 EXCEPT !.stb = c])
  BY <1>3, ScalarsKeep DEF Keeps
<1>5. SetupNewStandby(s, c) = [s3 EXCEPT !.stb = c]
  BY DEF SetupNewStandby, s1, s2, s3
<1> QED
  BY <1>1, <1>2, <1>3, <1>4, <1>5 DEF Keeps

LEMMA SetupStandbyAgainKeeps ==
    ASSUME NEW s, Good(s) PROVE Keeps(s, SetupStandbyAgain(s))
<1>1. s.stb \in Entry
  BY DEF Good, SipRecord
<1> QED
  BY <1>1, SetupNewStandbyKeeps, KeepsSelf DEF SetupStandbyAgain

LEMMA SendRegisterKeeps ==
    ASSUME NEW s, Good(s), NEW i, Live(s, i) PROVE Keeps(s, SendRegister(s, i))
<1> DEFINE s1 == [s EXCEPT !.ccb[i].trx = TRUE, !.ccb[i].retx = 0]
<1>1. Keeps(s, s1)
  <2>1. 0 \in 0 .. MaxRetx
    BY Numbers
  <2>2. \A b \in BOOLEAN, n \in 0 .. MaxRetx :
           Keeps(s, [s EXCEPT !.ccb[i].trx = b, !.ccb[i].retx = n])
    BY FieldsKeep
  <2> QED
    BY <2>1, <2>2
<1>2. i \in Idx
  BY DEF Live
<1>3. SendRegister(s, i) = IF i \in Slots THEN s1 ELSE Start(s1, "msg", i)
  BY DEF SendRegister
<1> HIDE DEF s1
<1>4. i \notin Slots => Keeps(s1, Start(s1, "msg", i))
  BY <1>1, <1>2, TimerKinds, StartKeeps, Numbers DEF Keeps
<1> QED
  BY <1>1, <1>3, <1>4 DEF Keeps

(***************************************************************************)
(* Freeing and creating fallback blocks                                    *)
(***************************************************************************)
LEMMA CleanGood ==
    ASSUME NEW s, Good(s), NEW I, I \subseteq Slots
    PROVE  /\ Good(CleanFallbackCcb(s, I)) /\ Monitored(CleanFallbackCcb(s, I)) = Monitored(s) \ I
<1> DEFINE none == NewCcb("NONE", None)
           ccb == [i \in DOMAIN s.ccb |-> IF i \in I THEN none ELSE s.ccb[i]]
           q == [n \in DOMAIN s.q |->
                   IF s.q[n].cmd \in {"RETRY_EXPIRED", "WAIT_EXPIRED"} /\ s.q[n].idx \in I
                   THEN [s.q[n] EXCEPT !.idx = Freed] ELSE s.q[n]]
           t == CleanFallbackCcb(s, I)
<1>1. s \in SipRecord /\ Blocks(s) /\ s.ccb \in [Idx -> Ccb] /\ s.q \in Seq(GoodMessage)
  BY DEF Good, SipRecord
<1>2. none \in Ccb /\ none.st = "NONE"
  BY Numbers DEF NewCcb, Ccb, SlotStates
<1> HIDE DEF none
<1>3. /\ ccb \in [Idx -> Ccb]
      /\ \A i \in Idx \ I : ccb[i] = s.ccb[i]
      /\ \A i \in Idx : i \in I => ccb[i].st = "NONE"
  BY <1>1, <1>2
<1>4. q \in Seq(GoodMessage)
  <2>1. ASSUME NEW m \in GoodMessage, m.cmd \in {"RETRY_EXPIRED", "WAIT_EXPIRED"}
        PROVE  [m EXCEPT !.idx = Freed] \in GoodMessage
    <3>1. m \in Message /\ [m EXCEPT !.idx = Freed] \in Message
      BY DEF GoodMessage, Message
    <3>2. Freed \in TargetsOf(m.cmd)
      BY <2>1, Targets
    <3> QED
      BY <3>1, <3>2 DEF GoodMessage, Message
  <2>2. Len(s.q) \in Nat /\ DOMAIN s.q = 1 .. Len(s.q) /\ \A n \in 1 .. Len(s.q) : s.q[n] \in GoodMessage
    BY <1>1
  <2>3. q \in [1 .. Len(s.q) -> GoodMessage]
    BY <2>1, <2>2
  <2> QED
    BY <2>2, <2>3, SeqDef
<1>5. /\ t = [s EXCEPT !.avail = s.avail \cup I, !.tmr = s.tmr \ ({"retry", "wait"} \X I),
                       !.ccb = ccb, !.fbCcb = IF s.fbCcb \in I THEN Freed ELSE s.fbCcb, !.q = q]
  BY DEF CleanFallbackCcb, none
<1> HIDE DEF ccb, q, t
<1>6. t \in SipRecord
  BY <1>1, <1>3, <1>4, <1>5 DEF SipRecord
<1>7. /\ t.avail = s.avail \cup I /\ t.list = s.list /\ t.ccb = ccb
      /\ t.fbCcb = IF s.fbCcb \in I THEN Freed ELSE s.fbCcb
  BY <1>1, <1>5 DEF SipRecord
<1>8. Monitored(t) = Monitored(s) \ I
  BY <1>3, <1>7, Numbers DEF Monitored
<1>9. Blocks(t)
  <2>1. t.list => t.avail = Slots \ Monitored(t)
    BY <1>1, <1>7, <1>8 DEF Blocks
  <2>2. \A i \in {Line, Backup} : t.ccb[i].st \in LineStates
    BY <1>1, <1>3, <1>7, Numbers DEF Blocks
  <2>3. \A i \in Slots : t.ccb[i].st \in SlotStates
    BY <1>1, <1>3, <1>7, Numbers DEF Blocks, SlotStates
  <2>4. t.fbCcb \in Slots => t.ccb[t.fbCcb].st # "NONE"
    BY <1>1, <1>3, <1>7, Numbers DEF Blocks
  <2> QED
    BY <2>1, <2>2, <2>3, <2>4 DEF Blocks
<1> QED
  BY <1>6, <1>8, <1>9 DEF Good, t

LEMMA FreeGood ==
    ASSUME NEW s, Good(s), NEW i
    PROVE  Good(FreeFallbackCcb(s, i)) /\ Good(FreeFallbackCcbList(s))
<1>1. {i} \cap Monitored(s) \subseteq Slots /\ Monitored(s) \subseteq Slots
  BY DEF Monitored
<1>2. Good(FreeFallbackCcb(s, i))
  BY <1>1, CleanGood DEF FreeFallbackCcb
<1> DEFINE t == CleanFallbackCcb(s, Monitored(s))
<1>3. Good(t)
  BY <1>1, CleanGood
<1>4. FreeFallbackCcbList(s) = [t EXCEPT !.list = FALSE]
  BY DEF FreeFallbackCcbList
<1> HIDE DEF t
<1>5. t \in SipRecord /\ Blocks(t)
  BY <1>3 DEF Good
<1> DEFINE u == [t EXCEPT !.list = FALSE]
<1>6. u \in SipRecord /\ u.ccb = t.ccb /\ u.list = FALSE /\ u.fbCcb = t.fbCcb
  BY <1>5 DEF SipRecord
<1> HIDE DEF u
<1>7. Blocks(u)
  BY <1>5, <1>6 DEF Blocks
<1> QED
  BY <1>2, <1>4, <1>6, <1>7 DEF Good, u

LEMMA LeastNumber ==
    ASSUME NEW S \in SUBSET Nat, S # {}
    PROVE  \E m \in S : \A k \in S : m <= k
<1> DEFINE R == OpToRel(<, Nat)
<1>1. IsWellFoundedOn(R, Nat)
  BY NatLessThanWellFounded
<1>2. \A x, y \in Nat : <<x, y>> \in R <=> x < y
  BY DEF OpToRel
<1> HIDE DEF R
<1>3. PICK m \in S : \A y \in S : <<y, m>> \notin R
  BY <1>1, WFMin
<1>4. ASSUME NEW k \in S PROVE m <= k
  <2>1. m \in Nat /\ k \in Nat
    OBVIOUS
  <2>2. ~(k < m)
    BY <1>2, <1>3, <2>1
  <2> QED
    BY <2>1, <2>2
<1> QED
  BY <1>4

LEMMA CreateKeeps ==
    ASSUME NEW s, Good(s), NEW c \in Entry PROVE Keeps(s, CreateFallbackCcb(s, c))
<1>1. CASE FallbackCcbOf(s, c) # {} \/ s.avail = {}
  BY <1>1, KeepsSelf DEF CreateFallbackCcb
<1>2. CASE ~(FallbackCcbOf(s, c) # {} \/ s.avail = {})
  <2> DEFINE i == CHOOSE n \in s.avail : \A k \in s.avail : n <= k
             t == [s EXCEPT !.avail = s.avail \ {i},
                            !.ccb[i] = IF s.list THEN NewCcb(PreFallback, c) ELSE s.ccb[i]]
  <2>1. s \in SipRecord /\ Blocks(s) /\ s.avail \subseteq Slots /\ s.ccb \in [Idx -> Ccb]
    BY DEF Good, SipRecord
  <2>2. i \in s.avail
    <3>1. s.avail \subseteq Nat /\ s.avail # {}
      BY <1>2, <2>1, Numbers
    <3>2. \E n \in s.avail : \A k \in s.avail : n <= k
      BY <3>1, LeastNumber
    <3> QED
      BY <3>2
  <2>3. CreateFallbackCcb(s, c) = t
    BY <1>2 DEF CreateFallbackCcb
  <2> HIDE DEF i
  <2>4. i \in Slots /\ i \in Idx
    BY <2>1, <2>2, Numbers
  <2> DEFINE b == IF s.list THEN NewCcb(PreFallback, c) ELSE s.ccb[i]
  <2>5. b \in Ccb /\ (s.list => b.st = PreFallback) /\ (~s.list => b = s.ccb[i])
    <3>1. s.ccb[i] \in Ccb /\ 0 \in 0 .. MaxRetx
      BY <2>1, <2>4, Numbers
    <3>2. NewCcb(PreFallback, c) \in Ccb /\ NewCcb(PreFallback, c).st = PreFallback
      BY <3>1 DEF NewCcb, Ccb, PreFallback, LineStates
    <3> QED
      BY <3>1, <3>2
  <2> HIDE DEF b
  <2>6. /\ t \in SipRecord /\ t.avail = s.avail \ {i} /\ t.list = s.list /\ t.fbCcb = s.fbCcb
        /\ t.ccb[i] = b /\ \A k \in Idx \ {i} : t.ccb[k] = s.ccb[k]
    <3>1. t = [s EXCEPT !.avail = s.avail \ {i}, !.ccb[i] = b]
      BY DEF b
    <3>2. [s.ccb EXCEPT ![i] = b] \in [Idx -> Ccb]
      BY <2>1, <2>5
    <3>3. t = [s EXCEPT !.avail = s.avail \ {i}, !.ccb = [s.ccb EXCEPT ![i] = b]]
      BY <3>1
    <3> HIDE DEF t
    <3>4. t \in SipRecord
      BY <2>1, <3>2, <3>3 DEF SipRecord
    <3>5. /\ t.avail = s.avail \ {i} /\ t.list = s.list /\ t.fbCcb = s.fbCcb
          /\ t.ccb = [s.ccb EXCEPT ![i] = b]
      BY <2>1, <3>3 DEF SipRecord
    <3> QED
      BY <2>1, <2>4, <3>4, <3>5
  <2> HIDE DEF t
  <2>7. s.list => s.ccb[i].st = "NONE" /\ Monitored(t) = Monitored(s) \cup {i}
    <3>1. s.list => s.ccb[i].st = "NONE"
      BY <2>1, <2>2, <2>4 DEF Blocks, Monitored
    <3>2. s.list => t.ccb[i].st # "NONE"
      BY <2>5, <2>6 DEF PreFallback
    <3> QED
      BY <2>4, <2>6, <3>1, <3>2, Numbers DEF Monitored
  <2>8. Blocks(t)
    <3>1. t.list => t.avail = Slots \ Monitored(t)
      BY <2>1, <2>6, <2>7 DEF Blocks
    <3>2. \A k \in {Line, Backup} : t.ccb[k].st \in LineStates
      BY <2>1, <2>4, <2>6, Numbers DEF Blocks
    <3>3. \A k \in Slots : t.ccb[k].st \in SlotStates
      BY <2>1, <2>4, <2>5, <2>6, Numbers DEF Blocks, PreFallback, SlotStates
    <3>4. t.fbCcb \in Slots => t.ccb[t.fbCcb].st # "NONE"
      BY <2>1, <2>4, <2>5, <2>6, Numbers DEF Blocks, PreFallback
    <3> QED
      BY <3>1, <3>2, <3>3, <3>4 DEF Blocks
  <2>9. ASSUME NEW k, Live(s, k) PROVE Live(t, k)
    BY <2>5, <2>6, <2>9 DEF Live, PreFallback
  <2> QED
    BY <2>3, <2>6, <2>8, <2>9 DEF Keeps, Good
<1> QED
  BY <1>1, <1>2

LEMMA TriggerKeeps ==
    ASSUME NEW s, Good(s) PROVE Keeps(s, TriggerFallbackMonitor(s))
<1> DEFINE New == {i \in Monitored(s) : s.ccb[i].st = PreFallback}
           ccb == [i \in DOMAIN s.ccb |->
                     IF i \in New THEN [s.ccb[i] EXCEPT !.st = "IN_FALLBACK", !.trx = TRUE, !.retx = 0]
                     ELSE s.ccb[i]]
           t == TriggerFallbackMonitor(s)
<1>1. s \in SipRecord /\ Blocks(s) /\ s.ccb \in [Idx -> Ccb] /\ New \subseteq Slots /\ s.tmr \subseteq Timers
  BY DEF Good, SipRecord, Monitored
<1>2. t = [s EXCEPT !.ccb = ccb, !.tmr = s.tmr \cup ({"retry"} \X New)]
  BY DEF TriggerFallbackMonitor
<1>3. s.tmr \cup ({"retry"} \X New) \subseteq Timers
  BY <1>1 DEF Timers
<1>4. \A i \in New : s.ccb[i].st # "NONE"
  BY DEF Monitored
<1> HIDE DEF New
<1>5. /\ ccb \in [Idx -> Ccb]
      /\ \A i \in Idx \ New : ccb[i] = s.ccb[i]
      /\ \A i \in New : ccb[i].st = "IN_FALLBACK"
  <2>1. ASSUME NEW b \in Ccb
        PROVE  /\ [b EXCEPT !.st = "IN_FALLBACK", !.trx = TRUE, !.retx = 0] \in Ccb
               /\ [b EXCEPT !.st = "IN_FALLBACK", !.trx = TRUE, !.retx = 0].st = "IN_FALLBACK"
    <3>1. 0 \in 0 .. MaxRetx /\ "IN_FALLBACK" \in LineStates \cup SlotStates
      BY Numbers DEF SlotStates
    <3> QED
      BY <3>1 DEF Ccb
  <2> QED
    BY <1>1, <2>1, Numbers
<1> HIDE DEF ccb, t
<1>6. t \in SipRecord /\ t.ccb = ccb /\ t.avail = s.avail /\ t.list = s.list /\ t.fbCcb = s.fbCcb
  BY <1>1, <1>2, <1>3, <1>5 DEF SipRecord
<1>7. Monitored(t) = Monitored(s)
  BY <1>1, <1>4, <1>5, <1>6, Numbers DEF Monitored
<1>8. Blocks(t)
  <2>1. \A k \in {Line, Backup} : t.ccb[k].st \in LineStates
    BY <1>1, <1>5, <1>6, Numbers DEF Blocks
  <2>2. \A k \in Slots : t.ccb[k].st \in SlotStates
    BY <1>1, <1>5, <1>6, Numbers DEF Blocks, SlotStates
  <2>3. t.fbCcb \in Slots => t.ccb[t.fbCcb].st # "NONE"
    BY <1>1, <1>5, <1>6, Numbers DEF Blocks
  <2> QED
    BY <1>1, <1>6, <1>7, <2>1, <2>2, <2>3 DEF Blocks
<1>9. ASSUME NEW k, Live(s, k) PROVE Live(t, k)
  BY <1>5, <1>6, <1>9 DEF Live
<1> QED
  BY <1>6, <1>8, <1>9 DEF Keeps, Good, t

(***************************************************************************)
(* The next call manager                                                   *)
(***************************************************************************)
LEMMA NextAfterEntry == \A c : NextAfter(c) \in Entry
BY Numbers DEF NextAfter

LEMMA NoStandbyKeeps == ASSUME NEW s, Good(s) PROVE Keeps(s, NoStandby(s))
<1> DEFINE s1 == SetRegState(s, "NO_STANDBY")
           s2 == CallCleanup(s1, Backup)
           s3 == Stop(s2, "expires", Backup)
<1>1. Keeps(s, s1)
  BY ScalarsKeep DEF RegStates
<1> HIDE DEF s1
<1>2. Keeps(s1, s2)
  BY <1>1, LineLive, CallCleanupKeeps DEF Keeps
<1> HIDE DEF s2
<1>3. Keeps(s2, s3)
  BY <1>2, StopKeeps DEF Keeps
<1> HIDE DEF s3
<1>4. Keeps(s3, StopAck(s3, Backup))
  BY <1>3, AckKeeps DEF Keeps
<1>5. NoStandby(s) = StopAck(s3, Backup)
  BY DEF NoStandby, s1, s2, s3
<1> QED
  BY <1>1, <1>2, <1>3, <1>4, <1>5 DEF Keeps

LEMMA NextActiveKeeps ==
    ASSUME NEW s, Good(s), NEW i \in Idx PROVE Keeps(s, NextActive(s, i))
<1> DEFINE s1 == CreateFallbackCcb(s, s.ccb[i].entry)
           a == [s1 EXCEPT !.act = s1.stb]
           n == IF s1.stb = None THEN None ELSE NextAfter(s1.stb)
           s2 == [a EXCEPT !.stb = n]
<1>1. s.ccb[i].entry \in Entry
  BY DEF Good, SipRecord, Ccb
<1>2. Keeps(s, s1)
  BY <1>1, CreateKeeps
<1>3. NextActive(s, i) = IF s.ccb[i].entry = None THEN s
                         ELSE IF s1.stb = None THEN SetRegState(s2, "NO_CC")
                         ELSE IF s2.stb = None THEN NoStandby(s2) ELSE s2
  BY DEF NextActive
<1> HIDE DEF s1
<1>4. Good(s1) /\ s1.stb \in Entry /\ n \in Entry
  BY <1>2, NextAfterEntry, Numbers DEF Keeps, Good, SipRecord
<1> HIDE DEF n
<1>5. Keeps(s1, a)
  BY <1>4, ScalarsKeep
<1> HIDE DEF a
<1>6. Keeps(a, s2)
  BY <1>4, <1>5, ScalarsKeep DEF Keeps
<1> HIDE DEF s2
<1>7. Keeps(s, s2) /\ Good(s2)
  BY <1>2, <1>5, <1>6 DEF Keeps
<1>8. Keeps(s2, SetRegState(s2, "NO_CC")) /\ Keeps(s2, NoStandby(s2))
  BY <1>7, ScalarsKeep, NoStandbyKeeps DEF RegStates
<1>9. Keeps(s, SetRegState(s2, "NO_CC")) /\ Keeps(s, NoStandby(s2))
  BY <1>7, <1>8, KeepsOn
<1> QED
  BY <1>3, <1>7, <1>9, KeepsSelf

LEMMA NextStandbyKeeps ==
    ASSUME NEW s, Good(s) PROVE Keeps(s, NextStandby(s))
<1> DEFINE c == s.ccb[Backup].entry
           s1 == CreateFallbackCcb(s, c)
           n == NextAfter(c)
           s2 == NoStandby(s1)
           s3 == SetupNewStandby(s1, n)
<1>1. c \in Entry /\ n \in Entry
  BY NextAfterEntry, Numbers DEF Good, SipRecord, Ccb
<1>2. Keeps(s, s1)
  BY <1>1, CreateKeeps
<1>3. NextStandby(s) = IF c = None THEN [s EXCEPT !.stb = None]
                       ELSE IF n = None THEN [s2 EXCEPT !.stb = None]
                       ELSE Send(s3, "CANCEL", Backup)
  BY DEF NextStandby
<1> HIDE DEF s1, c, n
<1>4. Keeps(s, [s EXCEPT !.stb = None])
  BY ScalarsKeep, Numbers
<1>5. Keeps(s1, s2) /\ Keeps(s1, s3)
  BY <1>1, <1>2, NoStandbyKeeps, SetupNewStandbyKeeps DEF Keeps
<1> HIDE DEF s2, s3
<1>6. Keeps(s2, [s2 EXCEPT !.stb = None])
  BY <1>5, ScalarsKeep, Numbers DEF Keeps
<1>7. Keeps(s3, Send(s3, "CANCEL", Backup))
  BY <1>5, SendKeeps, Targets, Numbers DEF Keeps, OfAny
<1>8. Keeps(s, [s2 EXCEPT !.stb = None]) /\ Keeps(s, Send(s3, "CANCEL", Backup))
  BY <1>2, <1>5, <1>6, <1>7, KeepsOn
<1> QED
  BY <1>3, <1>4, <1>8

LEMMA RegAllFailGood ==
    ASSUME NEW s, Good(s) PROVE Good(RegAllFail(s))
<1> DEFINE s1 == FreeFallbackCcbList(s)
<1>1. Good(s1)
  BY FreeGood
<1> HIDE DEF s1
<1>2. Good(PostApp(s1, "ALL_FAIL")) /\ Good(Start(s1, "allfail", Line))
  BY <1>1, PostAppKeeps, StartKeeps, TimerKinds DEF Keeps, AppEvents
<1>3. RegAllFail(s) = IF call THEN PostApp(s1, "ALL_FAIL") ELSE Start(s1, "allfail", Line)
  BY DEF RegAllFail, s1
<1> QED
  BY <1>2, <1>3

LEMMA FailoverKeeps ==
    ASSUME NEW s, Good(s), NEW i PROVE Keeps(s, Failover(s, i))
<1> DEFINE s1 == Stop(s, "expires", i)
           s2 == StopAck(s1, i)
           s3 == Stop(s2, "msg", i)
           s4 == [s3 EXCEPT !.foEntry = s.act, !.foStarted = TRUE, !.prime = FALSE, !.fbEntry = None]
           s5 == PostApp(s4, "FAILOVER_IND")
<1>1. Keeps(s, s1)
  BY StopKeeps
<1>2. Failover(s, i) = SetupStandbyAgain(s5)
  BY DEF Failover
<1> HIDE DEF s1
<1>3. Keeps(s1, s2)
  BY <1>1, AckKeeps DEF Keeps
<1> HIDE DEF s2
<1>4. Keeps(s2, s3)
  BY <1>3, StopKeeps DEF Keeps
<1> HIDE DEF s3
<1>5. Keeps(s3, s4)
  <2>1. Good(s3) /\ s3 \in SipRecord /\ s.act \in Entry /\ None \in Entry
    BY <1>4, Numbers DEF Keeps, Good, SipRecord
  <2>2. s4 \in SipRecord /\ SameBlocks(s3, s4)
    BY <2>1 DEF SipRecord, SameBlocks
  <2> HIDE DEF s4
  <2> QED
    BY <2>1, <2>2, KeepsSame
<1> HIDE DEF s4
<1>6. Keeps(s4, s5)
  BY <1>5, PostAppKeeps DEF Keeps, AppEvents
<1> HIDE DEF s5
<1>7. Keeps(s5, SetupStandbyAgain(s5))
  BY <1>6, SetupStandbyAgainKeeps DEF Keeps
<1> QED
  BY <1>1, <1>2, <1>3, <1>4, <1>5, <1>6, <1>7 DEF Keeps

(***************************************************************************)
(* The event handlers                                                      *)
(***************************************************************************)
LEMMA EvTmrAckRetryGood ==
    ASSUME NEW s, Good(s), NEW i, Live(s, i) PROVE Good(EvTmrAckRetry(s, i))
<1> DEFINE s0 == [s EXCEPT !.ccb[i].retx = 0]
           c == s.ccb[i]
<1>1. /\ i \in Idx /\ c \in Ccb /\ c.entry \in Entry
      /\ i \in {Line, Backup} => c.st \in LineStates
      /\ i \in Slots => c.st \in SlotStates \ {"NONE"}
  BY LiveBlock
<1>2. Keeps(s, s0)
  <2>1. 0 \in 0 .. MaxRetx
    BY Numbers
  <2> QED
    BY <2>1, FieldsKeep
<1>3. s0.ccb[i].st = c.st
  BY <1>1 DEF Good, SipRecord, Ccb
<1> HIDE DEF s0
<1>4. Good(s0) /\ Live(s0, i)
  BY <1>2 DEF Keeps
<1>5. CASE c.st \in {"REGISTERED", "REGISTERING"} /\ c.entry # s.act
  BY <1>4, <1>5 DEF EvTmrAckRetry, s0
<1>6. CASE c.st \in {"REGISTERED", "REGISTERING"} /\ c.entry = s.act
  <2> DEFINE s1 == NextActive(s0, i)
  <2>1. EvTmrAckRetry(s, i) = IF s1.act = None THEN RegAllFail(s1) ELSE Failover(s1, i)
    BY <1>6 DEF EvTmrAckRetry, s0
  <2>2. Good(s1)
    BY <1>1, <1>4, NextActiveKeeps DEF Keeps
  <2> HIDE DEF s1
  <2> QED
    BY <2>1, <2>2, RegAllFailGood, FailoverKeeps DEF Keeps
<1>7. CASE c.st = "UNREGISTERING" /\ i = Backup
  <2> DEFINE s1 == StopAck(s0, i)
             s2 == Stop(s1, "msg", i)
             s3 == NextStandby(s2)
  <2>1. EvTmrAckRetry(s, i) = TriggerFallbackMonitor(s3)
    BY <1>7 DEF EvTmrAckRetry, s0
  <2>2. Good(s1)
    BY <1>4, AckKeeps DEF Keeps
  <2> HIDE DEF s1
  <2>3. Good(s2)
    BY <2>2, StopKeeps DEF Keeps
  <2> HIDE DEF s2
  <2>4. Good(s3)
    BY <2>3, NextStandbyKeeps DEF Keeps
  <2> HIDE DEF s3
  <2> QED
    BY <2>1, <2>4, TriggerKeeps DEF Keeps
<1>8. CASE c.st = "UNREGISTERING" /\ i # Backup
  <2> DEFINE s1 == IF AllUnregistered(s0) THEN SetRegState(s0, "IDLE") ELSE s0
  <2>1. EvTmrAckRetry(s, i) = CallCleanup(s1, i)
    BY <1>8 DEF EvTmrAckRetry, s0
  <2>2. Keeps(s0, s1)
    BY <1>4, ScalarsKeep, KeepsSelf DEF RegStates
  <2> HIDE DEF s1
  <2> QED
    BY <1>4, <2>1, <2>2, CallCleanupKeeps DEF Keeps
<1>9. CASE c.st \in {"IN_FALLBACK", "TOKEN_WAIT"}
  <2> DEFINE s1 == Put(s0, i, "IN_FALLBACK")
             s2 == SendRegister(s1, i)
  <2>1. EvTmrAckRetry(s, i) = IF s.stb # None /\ s.stb < c.entry THEN FreeFallbackCcb(s0, i)
                              ELSE Start(s2, "retry", i)
    BY <1>9 DEF EvTmrAckRetry, s0
  <2>2. i \in Slots
    BY <1>1, <1>9, Numbers DEF LineStates
  <2>3. Keeps(s0, s1)
    BY <1>4, <2>2, PutKeeps, Numbers DEF SlotStates
  <2> HIDE DEF s1
  <2>4. Keeps(s1, s2)
    BY <1>4, <2>3, SendRegisterKeeps DEF Keeps
  <2> HIDE DEF s2
  <2>5. Good(Start(s2, "retry", i))
    BY <2>2, <2>4, StartKeeps, TimerKinds DEF Keeps
  <2> QED
    BY <1>4, <2>1, <2>5, FreeGood
<1>10. CASE c.st \notin {"REGISTERED", "REGISTERING", "UNREGISTERING", "IN_FALLBACK", "TOKEN_WAIT"}
  BY <1>4, <1>10 DEF EvTmrAckRetry, s0
<1> QED
  BY <1>5, <1>6, <1>7, <1>8, <1>9, <1>10

LEMMA EvRegmgrDefaultGood ==
    ASSUME NEW s, Good(s), NEW i \in Slots, Live(s, i) PROVE Good(EvRegmgrDefault(s, i))
<1>1. Keeps(s, Put(s, i, "IN_FALLBACK"))
  BY PutKeeps, Numbers DEF SlotStates
<1> QED
  BY <1>1, EvTmrAckRetryGood DEF Keeps, EvRegmgrDefault

(* The part that a registration and its cancellation share. *)
LEMMA EvRegGood ==
    ASSUME NEW s, Good(s), NEW i, Live(s, i)
    PROVE  /\ i \in {Line, Backup} => Good(EvRegReq(s, i))
           /\ Good(EvRegCancel(s, i))
<1> DEFINE s1 == StartAck(s, i)
           s2 == Stop(s1, "expires", i)
           s3 == SendRegister(s2, i)
<1>1. /\ EvRegReq(s, i) = Put(s3, i, "REGISTERING")
      /\ EvRegCancel(s, i) = Put(s3, i, "UNREGISTERING")
  BY DEF EvRegReq, EvRegCancel
<1>2. Keeps(s, s1)
  BY AckKeeps
<1> HIDE DEF s1
<1>3. Keeps(s1, s2)
  BY <1>2, StopKeeps DEF Keeps
<1> HIDE DEF s2
<1>4. Keeps(s2, s3)
  BY <1>2, <1>3, SendRegisterKeeps DEF Keeps
<1> HIDE DEF s3
<1>5. Good(s3) /\ Live(s3, i)
  BY <1>2, <1>3, <1>4 DEF Keeps
<1>6. Good(Put(s3, i, "UNREGISTERING"))
  BY <1>5, PutKeeps DEF Keeps, SlotStates, LineStates
<1>7. i \in {Line, Backup} => Good(Put(s3, i, "REGISTERING"))
  BY <1>5, PutKeeps, Numbers DEF Keeps, SlotStates, LineStates
<1> QED
  BY <1>1, <1>6, <1>7

LEMMA EvIdleCancelGood ==
    ASSUME NEW s, Good(s), NEW i, Live(s, i) PROVE Good(EvIdleCancel(s, i))
<1> DEFINE s1 == Stop(s, "expires", i)
<1>1. Keeps(s, s1)
  BY StopKeeps
<1>2. EvIdleCancel(s, i) = RegisterCleanup(s1, i, FALSE)
  BY DEF EvIdleCancel
<1> HIDE DEF s1
<1> QED
  BY <1>1, <1>2, RegisterCleanupKeeps DEF Keeps

LEMMA EvTmrExpireGood ==
    ASSUME NEW s, Good(s), NEW i \in {Line, Backup} PROVE Good(EvTmrExpire(s, i))
<1> DEFINE s1 == CallCleanup(s, i)
<1>1. Good(s1)
  BY LineLive, CallCleanupKeeps DEF Keeps
<1>2. EvTmrExpire(s, i) = IF s.foStarted /\ i # Line THEN s ELSE SendOrCleanup(s1, "REG_REQ", i, TRUE)
  BY DEF EvTmrExpire
<1> HIDE DEF s1
<1> QED
  BY <1>1, <1>2, SendOrCleanupKeeps DEF Keeps

LEMMA EvTmrRetryGood ==
    ASSUME NEW s, Good(s), NEW i \in {Line, Backup} PROVE Good(EvTmrRetry(s, i))
<1>1. Live(s, i) /\ s.ccb[i].retx \in 0 .. MaxRetx /\ i \in Idx
  BY LineLive, LiveBlock, Numbers DEF Ccb
<1>2. CASE s.ccb[i].retx >= MaxRetx
  BY <1>1, <1>2, EvTmrAckRetryGood DEF EvTmrRetry
<1>3. CASE ~(s.ccb[i].retx >= MaxRetx) /\ s.ccb[i].st = "REGISTERED"
  BY <1>3 DEF EvTmrRetry
<1>4. CASE ~(s.ccb[i].retx >= MaxRetx) /\ s.ccb[i].st # "REGISTERED"
  <2> DEFINE n == s.ccb[i].retx + 1
             s1 == [s EXCEPT !.ccb[i].retx = n]
  <2>1. n \in 0 .. MaxRetx
    BY <1>1, <1>4, Numbers
  <2>2. EvTmrRetry(s, i) = Start(s1, "msg", i)
    BY <1>4 DEF EvTmrRetry
  <2> HIDE DEF n
  <2>3. Good(s1)
    BY <1>1, <2>1, FieldsKeep DEF Keeps
  <2> HIDE DEF s1
  <2> QED
    BY <2>2, <2>3, StartKeeps, TimerKinds DEF Keeps
<1> QED
  BY <1>2, <1>3, <1>4

LEMMA SendCancelKeeps ==
    ASSUME NEW s, Good(s), NEW i \in Idx PROVE Keeps(s, Send(s, "CANCEL", i))
BY SendKeeps, Targets DEF OfAny

(* Timers that are started for the line and the backup. *)
LEMMA ExpiresKeeps ==
    ASSUME NEW s, Good(s)
    PROVE  /\ \A i \in {Line, Backup} : Keeps(s, Start(s, "expires", i))
           /\ \A i \in Slots : Keeps(s, Start(s, "retry", i)) /\ Keeps(s, Start(s, "wait", i))
           /\ Keeps(s, Start(s, "keepalive", Backup))
BY StartKeeps, TimerKinds

LEMMA Ev2xxGood ==
    ASSUME NEW s, Good(s), NEW i \in {Line, Backup} PROVE Good(Ev2xx(s, i))
<1> DEFINE a == [s EXCEPT !.ccb[i].reg = TRUE]
           b == Put(a, i, "REGISTERED")
           s1 == StopAck(b, i)
           p == IF i = Backup THEN s1 ELSE PostApp(s1, "REGISTERED")
           s2 == Start(p, "expires", i)
           s3 == [s2 EXCEPT !.monitor = FALSE]
           s4 == Put(s3, Backup, "UNREGISTERING")
           s5 == Send(s4, "CANCEL", Backup)
<1>1. Ev2xx(s, i) = IF ~(s.ccb[i].entry = s.act /\ s.monitor) THEN s2
                    ELSE IF s.stb = None THEN s3 ELSE Start(s5, "expires", Backup)
  BY DEF Ev2xx, Put
<1>2. Good(a)
  BY LineLive, FieldsKeep DEF Keeps
<1> HIDE DEF a
<1>3. Good(b)
  BY <1>2, LineLive, PutKeeps, Numbers DEF Keeps, LineStates
<1> HIDE DEF b
<1>4. Good(s1)
  BY <1>3, AckKeeps DEF Keeps
<1> HIDE DEF s1
<1>5. Good(p)
  BY <1>4, PostAppKeeps DEF Keeps, AppEvents
<1> HIDE DEF p
<1>6. Good(s2)
  BY <1>5, ExpiresKeeps DEF Keeps
<1> HIDE DEF s2
<1>7. Good(s3)
  BY <1>6, ScalarsKeep DEF Keeps
<1> HIDE DEF s3
<1>8. Good(s4)
  BY <1>7, LineLive, PutKeeps, Numbers DEF Keeps, LineStates
<1> HIDE DEF s4
<1>9. Good(s5)
  BY <1>8, SendCancelKeeps, Numbers DEF Keeps
<1> HIDE DEF s5
<1>10. Good(Start(s5, "expires", Backup))
  BY <1>9, ExpiresKeeps DEF Keeps
<1> QED
  BY <1>1, <1>6, <1>7, <1>10

LEMMA Ev2xxTooShortGood ==
    ASSUME NEW s, Good(s), NEW i \in {Line, Backup} PROVE Good(Ev2xxTooShort(s, i))
<1> DEFINE s1 == StopAck(s, i)
           s2 == Put(s1, i, "UNREGISTERING")
           s3 == SendOrCleanup(s2, "CANCEL", i, FALSE)
<1>1. Ev2xxTooShort(s, i) = Start(s3, "expires", i)
  BY DEF Ev2xxTooShort
<1>2. Good(s1)
  BY AckKeeps DEF Keeps
<1> HIDE DEF s1
<1>3. Good(s2)
  BY <1>2, LineLive, PutKeeps, Numbers DEF Keeps, LineStates
<1> HIDE DEF s2
<1>4. Good(s3)
  BY <1>3, SendOrCleanupKeeps DEF Keeps
<1> HIDE DEF s3
<1> QED
  BY <1>1, <1>4, ExpiresKeeps DEF Keeps

LEMMA ReplaceStandbyGood ==
    ASSUME NEW s, Good(s) PROVE Good(ReplaceStandby(s))
<1> DEFINE s1 == SetupNewStandby(s, s.newStb)
           s2 == CleanFallbackCcb(s1, FallbackCcbOf(s1, s.newStb))
           s3 == Send(s2, "CANCEL", Backup)
<1>1. ReplaceStandby(s) = [s3 EXCEPT !.newStb = None]
  BY DEF ReplaceStandby
<1>2. Good(s1)
  <2>1. s.newStb \in Entry
    BY DEF Good, SipRecord
  <2> QED
    BY <2>1, SetupNewStandbyKeeps DEF Keeps
<1> HIDE DEF s1
<1>3. Good(s2)
  BY <1>2, CleanGood DEF FallbackCcbOf, Monitored
<1> HIDE DEF s2
<1>4. Good(s3)
  BY <1>3, SendCancelKeeps, Numbers DEF Keeps
<1> HIDE DEF s3
<1>5. \A c \in Entry : Keeps(s3, [s3 EXCEPT !.newStb = c])
  BY <1>4, ScalarsKeep
<1>6. None \in Entry
  BY Numbers
<1>7. Keeps(s3, [s3 EXCEPT !.newStb = None])
  BY <1>5, <1>6
<1> QED
  BY <1>1, <1>7 DEF Keeps

LEMMA EvUnreg2xxGood ==
    ASSUME NEW s, Good(s), NEW i, Live(s, i) PROVE Good(EvUnreg2xx(s, i))
<1> DEFINE s0 == [s EXCEPT !.ccb[i].reg = FALSE]
           s1 == StopAck(s0, i)
           r == IF s.newStb = None THEN s1 ELSE ReplaceStandby(s1)
           s2 == Put(s1, i, "IDLE")
<1>1. EvUnreg2xx(s, i) = IF i = Backup THEN Start(r, "keepalive", Backup)
                         ELSE IF AllUnregistered(s2) THEN SetRegState(s2, "IDLE") ELSE s2
  BY DEF EvUnreg2xx
<1>2. Keeps(s, s0)
  BY FieldsKeep
<1> HIDE DEF s0
<1>3. Good(s1) /\ Live(s1, i)
  BY <1>2, AckKeeps DEF Keeps
<1> HIDE DEF s1
<1>4. Good(r)
  BY <1>3, ReplaceStandbyGood
<1> HIDE DEF r
<1>5. Good(Start(r, "keepalive", Backup))
  BY <1>4, ExpiresKeeps DEF Keeps
<1>6. Good(s2)
  BY <1>3, PutKeeps DEF Keeps, LineStates, SlotStates
<1> HIDE DEF s2
<1>7. Good(SetRegState(s2, "IDLE"))
  BY <1>6, ScalarsKeep DEF Keeps, RegStates
<1> QED
  BY <1>1, <1>5, <1>6, <1>7

LEMMA EvRefusedGood ==
    ASSUME NEW s, Good(s), NEW i \in Idx
    PROVE  Good(EvRetryAfter(s, i)) /\ Good(EvFailureResponse(s, i))
<1>1. Good(StopAck(s, i))
  BY AckKeeps DEF Keeps
<1>2. Good(EvRetryAfter(s, i))
  BY <1>1, ExpiresKeeps, Numbers DEF EvRetryAfter, Keeps
<1>3. Good(EvFailureResponse(s, i))
  BY RegAllFailGood, ExpiresKeeps DEF EvFailureResponse, Keeps
<1> QED
  BY <1>2, <1>3

LEMMA EvKeepaliveExpireGood ==
    ASSUME NEW s, Good(s), NEW i \in Idx PROVE Good(EvKeepaliveExpire(s, i))
<1>1. Good(Stop(s, "keepalive", Backup))
  BY StopKeeps DEF Keeps
<1> QED
  BY <1>1, SendCancelKeeps DEF EvKeepaliveExpire, Keeps

LEMMA RegisterLineKeeps ==
    ASSUME NEW s, Good(s) PROVE Keeps(s, RegisterLine(s))
<1> DEFINE s1 == SetRegState(s, "REGISTERING")
           s2 == SetupStandbyAgain(s1)
           s3 == CallCleanup(s2, Line)
<1>1. RegisterLine(s) = SendOrCleanup(s3, "REG_REQ", Line, TRUE)
  BY DEF RegisterLine
<1>2. Keeps(s, s1)
  BY ScalarsKeep DEF RegStates
<1> HIDE DEF s1
<1>3. Keeps(s1, s2)
  BY <1>2, SetupStandbyAgainKeeps DEF Keeps
<1> HIDE DEF s2
<1>4. Keeps(s2, s3)
  BY <1>3, LineLive, CallCleanupKeeps DEF Keeps
<1> HIDE DEF s3
<1>5. Keeps(s3, SendOrCleanup(s3, "REG_REQ", Line, TRUE))
  BY <1>4, SendOrCleanupKeeps DEF Keeps
<1> QED
  BY <1>1, <1>2, <1>3, <1>4, <1>5 DEF Keeps

LEMMA RegisterLinesKeep ==
    ASSUME NEW s, Good(s), NEW primeOnly
    PROVE  Keeps(s, RegisterLines(s, primeOnly)) /\ Keeps(s, RegisterAllLines(s))
<1> DEFINE s1 == IF ~primeOnly /\ s.ccb[Line].reg THEN PostApp(s, "REGISTERED") ELSE s
           c == CallCleanup(s, Backup)
<1>1. /\ RegisterLines(s, primeOnly) = IF s.prime /\ ~primeOnly THEN s1 ELSE RegisterLine(s1)
      /\ RegisterAllLines(s) = RegisterLine(c)
  BY DEF RegisterLines, RegisterAllLines
<1>2. Keeps(s, s1)
  BY PostAppKeeps, KeepsSelf DEF AppEvents
<1> HIDE DEF s1
<1>3. Keeps(s1, RegisterLine(s1))
  BY <1>2, RegisterLineKeeps DEF Keeps
<1>4. Keeps(s, c)
  BY LineLive, CallCleanupKeeps
<1> HIDE DEF c
<1>5. Keeps(c, RegisterLine(c))
  BY <1>4, RegisterLineKeeps DEF Keeps
<1>6. Keeps(s, RegisterLine(s1)) /\ Keeps(s, RegisterLine(c))
  BY <1>2, <1>3, <1>4, <1>5, KeepsOn
<1> QED
  BY <1>1, <1>2, <1>6

LEMMA RegisterCancelKeeps ==
    ASSUME NEW s, Good(s) PROVE Keeps(s, RegisterCancel(s))
<1> DEFINE s1 == SetRegState(s, "UNREGISTERING")
           s2 == Stop(s1, "expires", Line)
           s3 == StopAck(s2, Line)
<1>1. RegisterCancel(s) = IF s.rstate = "IDLE" THEN s ELSE SendOrCleanup(s3, "CANCEL", Line, FALSE)
  BY DEF RegisterCancel
<1>2. Keeps(s, s1)
  BY ScalarsKeep DEF RegStates
<1> HIDE DEF s1
<1>3. Keeps(s1, s2)
  BY <1>2, StopKeeps DEF Keeps
<1> HIDE DEF s2
<1>4. Keeps(s2, s3)
  BY <1>3, AckKeeps DEF Keeps
<1> HIDE DEF s3
<1>5. Keeps(s3, SendOrCleanup(s3, "CANCEL", Line, FALSE))
  BY <1>4, SendOrCleanupKeeps DEF Keeps
<1>6. Keeps(s, SendOrCleanup(s3, "CANCEL", Line, FALSE))
  BY <1>2, <1>3, <1>4, <1>5 DEF Keeps
<1> QED
  BY <1>1, <1>6, KeepsSelf

(***************************************************************************)
(* A failed call manager answers                                           *)
(***************************************************************************)
LEMMA SendReferKeeps ==
    ASSUME NEW s, Good(s), NEW i, Live(s, i) PROVE Keeps(s, SendRefer(s, i))
BY FieldsKeep DEF SendRefer

LEMMA CheckAndTransitionGood ==
    ASSUME NEW s, Good(s), NEW i \in Slots, Live(s, i) PROVE Good(CheckAndTransition(s, i))
<1> DEFINE c == s.ccb[i].entry
           p == Put(s, i, "TOKEN_WAIT")
           r == SendRefer(p, i)
           n == IF s.newStb = None \/ s.newStb > c THEN c ELSE s.newStb
           m == [s EXCEPT !.newStb = n]
           t1 == SetupNewStandby(s, c)
           t2 == FreeFallbackCcb(t1, i)
<1>1. s.act \in Entry /\ c \in Entry /\ s.newStb \in Entry
  BY LiveBlock DEF Good, SipRecord
<1>2. s.act \in Int /\ c \in Int /\ None \in Int
  BY <1>1, Numbers
<1>3. CASE s.act = None
  <2>1. CheckAndTransition(s, i) = Undefined(s)
    BY <1>3 DEF CheckAndTransition
  <2> QED
    BY <2>1, ScalarsKeep DEF Keeps
<1>4. CASE s.act # None /\ s.act > c
  <2>1. CheckAndTransition(s, i) = IF ~call /\ s.fbEntry = None THEN Start(r, "retry", i)
                                   ELSE Start(s, "retry", i)
    BY <1>2, <1>4 DEF CheckAndTransition
  <2>2. Keeps(s, p)
    BY PutKeeps, Numbers DEF SlotStates
  <2> HIDE DEF p
  <2>3. Keeps(p, r)
    BY <2>2, SendReferKeeps DEF Keeps
  <2> HIDE DEF r
  <2> QED
    BY <2>1, <2>2, <2>3, ExpiresKeeps DEF Keeps
<1>5. CASE s.act # None /\ s.act = c
  BY <1>2, <1>5 DEF CheckAndTransition
<1>6. CASE s.act # None /\ s.act < c
  <2>1. CheckAndTransition(s, i) = IF s.stb # None /\ s.stb < c THEN FreeFallbackCcb(s, i)
                                   ELSE IF s.stb # None /\ s.ccb[Backup].trx THEN m
                                   ELSE Send(t2, "CANCEL", Backup)
    BY <1>2, <1>6 DEF CheckAndTransition
  <2>2. Good(m)
    <3>1. n \in Entry
      BY <1>1
    <3> HIDE DEF n
    <3> QED
      BY <3>1, ScalarsKeep DEF Keeps
  <2> HIDE DEF m
  <2>3. Good(t1)
    BY <1>1, SetupNewStandbyKeeps DEF Keeps
  <2> HIDE DEF t1
  <2>4. Good(t2)
    BY <2>3, FreeGood
  <2> HIDE DEF t2
  <2>5. Good(Send(t2, "CANCEL", Backup))
    BY <2>4, SendCancelKeeps, Numbers DEF Keeps
  <2> QED
    BY <2>1, <2>2, <2>5, FreeGood
<1> QED
  BY <1>2, <1>3, <1>4, <1>5, <1>6

LEMMA InFallbackGood ==
    ASSUME NEW s, Good(s), NEW i \in Slots, Live(s, i)
    PROVE  Good(EvInFallback2xx(s, i)) /\ Good(EvFallbackRetry(s, i))
<1> DEFINE s1 == StopAck(s, i)
           s2 == Stop(s1, "retry", i)
<1>1. EvInFallback2xx(s, i) = CheckAndTransition(s2, i) /\ EvFallbackRetry(s, i) = Start(s1, "retry", i)
  BY DEF EvInFallback2xx, EvFallbackRetry
<1>2. Keeps(s, s1)
  BY AckKeeps
<1> HIDE DEF s1
<1>3. Keeps(s1, s2)
  BY <1>2, StopKeeps DEF Keeps
<1> HIDE DEF s2
<1>4. Good(CheckAndTransition(s2, i))
  BY <1>2, <1>3, CheckAndTransitionGood DEF Keeps
<1>5. Good(Start(s1, "retry", i))
  BY <1>2, ExpiresKeeps DEF Keeps
<1> QED
  BY <1>1, <1>4, <1>5

(* The token: the block that the phone falls back to is remembered. *)
LEMMA TokenGood ==
    ASSUME NEW s, Good(s), NEW i \in Slots, Live(s, i), NEW busy
    PROVE  /\ Good(EvTokenWait2xx(s, i)) /\ Good(EvTokenWaitRefused(s, i, busy))
           /\ Good(EvTokenWaitTmrWait(s, i))
<1> DEFINE s0 == StopAck(s, i)
           s1 == Stop(s0, "wait", i)
           f == [s1 EXCEPT !.fbEntry = s.ccb[i].entry, !.isResp = FALSE, !.fbCcb = i]
           p == Put(s1, i, "IN_FALLBACK")
           r == SendRefer(s, i)
<1>1. /\ EvTokenWait2xx(s, i) = IF s.fbEntry = None THEN PostApp(f, "FALLBACK_IND")
                                ELSE Start(p, "retry", i)
      /\ EvTokenWaitRefused(s, i, busy) = IF busy THEN Start(s1, "wait", i) ELSE Start(p, "retry", i)
      /\ EvTokenWaitTmrWait(s, i) = Start(r, "retry", i)
  BY DEF EvTokenWait2xx, EvTokenWaitRefused, EvTokenWaitTmrWait
<1>2. Keeps(s, s0)
  BY AckKeeps
<1> HIDE DEF s0
<1>3. Keeps(s0, s1)
  BY <1>2, StopKeeps DEF Keeps
<1> HIDE DEF s1
<1>4. Good(s1) /\ Live(s1, i)
  BY <1>2, <1>3 DEF Keeps
<1>5. Good(f)
  <2>1. s1 \in SipRecord /\ Blocks(s1) /\ s.ccb[i].entry \in Entry
    BY <1>4, LiveBlock DEF Good
  <2>2. f \in SipRecord /\ f.avail = s1.avail /\ f.list = s1.list /\ f.ccb = s1.ccb /\ f.fbCcb = i
    BY <2>1 DEF SipRecord
  <2> HIDE DEF f
  <2>3. Monitored(f) = Monitored(s1)
    BY <2>2 DEF Monitored
  <2>4. Blocks(f)
    BY <1>4, <2>1, <2>2, <2>3 DEF Blocks, Live
  <2> QED
    BY <2>2, <2>4 DEF Good
<1> HIDE DEF f
<1>6. Good(PostApp(f, "FALLBACK_IND"))
  BY <1>5, PostAppKeeps DEF Keeps, AppEvents
<1>7. Good(p)
  BY <1>4, PutKeeps, Numbers DEF Keeps, SlotStates
<1> HIDE DEF p
<1>8. Good(r)
  BY SendReferKeeps DEF Keeps
<1> HIDE DEF r
<1>9. Good(Start(p, "retry", i)) /\ Good(Start(s1, "wait", i)) /\ Good(Start(r, "retry", i))
  BY <1>4, <1>7, <1>8, ExpiresKeeps DEF Keeps
<1> QED
  BY <1>1, <1>6, <1>9

LEMMA EvCleanupGood ==
    ASSUME NEW s, Good(s), NEW i \in Idx PROVE Good(EvCleanup(s, i))
<1> DEFINE old == s.ccb[Line].entry
           s0 == SetupNewActive(s, s.ccb[i].entry)
           s1 == FreeFallbackCcb(s0, i)
           a == RegisterAllLines(s1)
           b == RegisterLines(s1, TRUE)
           s2 == IF s.isResp THEN [a EXCEPT !.fbEntry = None] ELSE [b EXCEPT !.prime = TRUE]
           s3 == IF old = None THEN s2 ELSE SetupNewStandby(s2, old)
<1>1. EvCleanup(s, i) = Send(s3, "CANCEL", Backup)
  BY DEF EvCleanup
<1>2. old \in Entry /\ s.ccb[i].entry \in Entry
  BY Numbers DEF Good, SipRecord, Ccb
<1>3. Good(s0)
  BY <1>2, SetupNewActiveKeeps DEF Keeps
<1> HIDE DEF s0
<1>4. Good(s1)
  BY <1>3, FreeGood
<1> HIDE DEF s1
<1>5. Good(a) /\ Good(b)
  BY <1>4, RegisterLinesKeep DEF Keeps
<1> HIDE DEF a, b
<1>6. Good(s2)
  <2>1. None \in Entry
    BY Numbers
  <2>2. Keeps(a, [a EXCEPT !.fbEntry = None])
    BY <1>5, <2>1, ScalarsKeep
  <2>3. Keeps(b, [b EXCEPT !.prime = TRUE])
    BY <1>5, ScalarsKeep
  <2> QED
    BY <2>2, <2>3 DEF Keeps
<1> HIDE DEF s2
<1>7. Good(s3)
  BY <1>2, <1>6, SetupNewStandbyKeeps DEF Keeps
<1> HIDE DEF s3
<1> QED
  BY <1>1, <1>7, SendCancelKeeps, Numbers DEF Keeps

(***************************************************************************)
(* The state machine: an event for a block, in the state that the block is *)
(* in, whatever that is.                                                   *)
(***************************************************************************)
LEMMA BlockKind ==
    ASSUME NEW s, Good(s), NEW i \in Idx
    PROVE  /\ s.ccb[i].st # "NONE" => Live(s, i)
           /\ s.ccb[i].st \in {"IN_FALLBACK", "TOKEN_WAIT"} => i \in Slots
           /\ s.ccb[i].st \in {"REGISTERING", "REGISTERED"} => i \in {Line, Backup}
BY Numbers DEF Live, Good, Blocks, LineStates, SlotStates

LEMMA OnCancelGood ==
    ASSUME NEW s, Good(s), NEW i \in Idx PROVE Good(OnCancel(s, i))
<1>1. CASE St(s, i) = "IDLE"
  BY <1>1, BlockKind, EvIdleCancelGood DEF OnCancel, St
<1>2. CASE St(s, i) \in {"REGISTERING", "REGISTERED", "UNREGISTERING"}
  BY <1>2, BlockKind, EvRegGood DEF OnCancel, St
<1>3. CASE St(s, i) = "IN_FALLBACK"
  BY <1>3, BlockKind, SendRegisterKeeps DEF OnCancel, St, Keeps
<1>4. CASE St(s, i) = "TOKEN_WAIT"
  BY <1>4, BlockKind, EvRegmgrDefaultGood DEF OnCancel, St
<1>5. CASE St(s, i) \notin {"IDLE", "REGISTERING", "REGISTERED", "UNREGISTERING", "IN_FALLBACK", "TOKEN_WAIT"}
  BY <1>5 DEF OnCancel
<1> QED
  BY <1>1, <1>2, <1>3, <1>4, <1>5

LEMMA OnTimerGood ==
    ASSUME NEW s, Good(s)
    PROVE  /\ \A i \in Idx : Good(OnTmrAck(s, i)) /\ Good(OnTmrWait(s, i)) /\ Good(OnTmrRetry(s, i))
           /\ \A i \in {Line, Backup} : Good(OnTmrExpire(s, i))
           /\ \A i \in Slots : Good(OnCleanup(s, i))
<1>1. ASSUME NEW i \in Idx PROVE Good(OnTmrAck(s, i))
  BY BlockKind, EvTmrAckRetryGood DEF OnTmrAck, St
<1>2. ASSUME NEW i \in Idx PROVE Good(OnTmrWait(s, i))
  <2>1. CASE St(s, i) = "UNREGISTERING"
    BY <2>1, EvKeepaliveExpireGood DEF OnTmrWait
  <2>2. CASE St(s, i) = "IN_FALLBACK"
    BY <2>2, BlockKind, EvRegmgrDefaultGood DEF OnTmrWait, St
  <2>3. CASE St(s, i) = "TOKEN_WAIT"
    BY <2>3, BlockKind, TokenGood DEF OnTmrWait, St
  <2>4. CASE St(s, i) \notin {"UNREGISTERING", "IN_FALLBACK", "TOKEN_WAIT"}
    BY <2>4 DEF OnTmrWait
  <2> QED
    BY <2>1, <2>2, <2>3, <2>4
<1>3. ASSUME NEW i \in Idx PROVE Good(OnTmrRetry(s, i))
  <2>1. CASE St(s, i) \in {"REGISTERING", "REGISTERED", "UNREGISTERING"}
    <3>1. Good(Undefined(s))
      BY ScalarsKeep DEF Keeps
    <3>2. i \notin Slots => Good(EvTmrRetry(s, i))
      BY EvTmrRetryGood, Numbers
    <3> QED
      BY <2>1, <3>1, <3>2 DEF OnTmrRetry
  <2>2. CASE St(s, i) \in {"IN_FALLBACK", "TOKEN_WAIT"}
    BY <2>2, BlockKind, EvTmrAckRetryGood DEF OnTmrRetry, St
  <2>3. CASE St(s, i) \notin {"REGISTERING", "REGISTERED", "UNREGISTERING", "IN_FALLBACK", "TOKEN_WAIT"}
    BY <2>3 DEF OnTmrRetry
  <2> QED
    BY <2>1, <2>2, <2>3
<1>4. ASSUME NEW i \in {Line, Backup} PROVE Good(OnTmrExpire(s, i))
  BY EvTmrExpireGood DEF OnTmrExpire
<1>5. ASSUME NEW i \in Slots PROVE Good(OnCleanup(s, i))
  <2>1. i \in Idx
    BY Numbers
  <2> QED
    BY <2>1, BlockKind, EvCleanupGood, EvRegmgrDefaultGood DEF OnCleanup, St
<1> QED
  BY <1>1, <1>2, <1>3, <1>4, <1>5

LEMMA OnFinalGood ==
    ASSUME NEW s, Good(s), NEW i \in Idx, NEW rsp PROVE Good(OnFinal(s, i, rsp))
<1> DEFINE ok == rsp \in {"200", "200min"}
<1>1. CASE St(s, i) = "REGISTERING"
  BY <1>1, BlockKind, Ev2xxGood, Ev2xxTooShortGood, EvRefusedGood DEF OnFinal, St
<1>2. CASE St(s, i) = "UNREGISTERING"
  BY <1>2, BlockKind, EvUnreg2xxGood, EvRefusedGood DEF OnFinal, St
<1>3. CASE St(s, i) = "IN_FALLBACK"
  BY <1>3, BlockKind, InFallbackGood DEF OnFinal, St
<1>4. CASE St(s, i) = "TOKEN_WAIT"
  <2>1. i \in Slots /\ Live(s, i)
    BY <1>4, BlockKind DEF St
  <2>2. /\ Good(EvTokenWait2xx(s, i)) /\ Good(EvTokenWaitRefused(s, i, rsp = "retry"))
        /\ Good(EvRegmgrDefault(s, i))
    BY <2>1, TokenGood, EvRegmgrDefaultGood
  <2> QED
    BY <1>4, <2>2 DEF OnFinal
<1>5. CASE St(s, i) \notin {"REGISTERING", "UNREGISTERING", "IN_FALLBACK", "TOKEN_WAIT"}
  BY <1>5 DEF OnFinal
<1> QED
  BY <1>1, <1>2, <1>3, <1>4, <1>5

(***************************************************************************)
(* The steps                                                               *)
(***************************************************************************)
AppRecord == [ins : BOOLEAN, mode : {"NONE", "FAILOVER", "FALLBACK", "NO_CUCM"},
              pres : BOOLEAN, sess : BOOLEAN]

(* The inductive invariant. *)
Inv == Good(sip) /\ app \in AppRecord /\ call \in BOOLEAN

LEMMA TakenKeeps ==
    ASSUME NEW s, Good(s)
    PROVE  /\ s.q # <<>> =>
                /\ Keeps(s, [s EXCEPT !.q = Tail(s.q)]) /\ Head(s.q) \in GoodMessage
                /\ [s EXCEPT !.q = Tail(s.q)].ccb = s.ccb
           /\ s.appq # <<>> => Keeps(s, [s EXCEPT !.appq = Tail(s.appq)])
<1>1. s \in SipRecord /\ s.q \in Seq(GoodMessage) /\ s.appq \in Seq(AppEvents)
  BY DEF Good, SipRecord
<1>2. ASSUME s.q # <<>> PROVE Keeps(s, [s EXCEPT !.q = Tail(s.q)]) /\ Head(s.q) \in GoodMessage
  <2> DEFINE t == [s EXCEPT !.q = Tail(s.q)]
  <2>1. Tail(s.q) \in Seq(GoodMessage) /\ Head(s.q) \in GoodMessage
    BY <1>1, <1>2
  <2>2. t \in SipRecord /\ SameBlocks(s, t)
    BY <1>1, <2>1 DEF SipRecord, SameBlocks
  <2> QED
    BY <2>1, <2>2, KeepsSame
<1>3. ASSUME s.appq # <<>> PROVE Keeps(s, [s EXCEPT !.appq = Tail(s.appq)])
  <2> DEFINE t == [s EXCEPT !.appq = Tail(s.appq)]
  <2>1. Tail(s.appq) \in Seq(AppEvents)
    BY <1>1, <1>3
  <2>2. t \in SipRecord /\ SameBlocks(s, t)
    BY <1>1, <2>1 DEF SipRecord, SameBlocks
  <2> QED
    BY <2>2, KeepsSame
<1>4. [s EXCEPT !.q = Tail(s.q)].ccb = s.ccb
  BY <1>1 DEF SipRecord
<1> QED
  BY <1>2, <1>3, <1>4

(* What a thread finds when it takes a message. *)
LEMMA Taking ==
    ASSUME Inv, NEW cmd, Take(cmd)
    PROVE  /\ Keeps(sip, Rest) /\ Good(Rest) /\ Rest.ccb = sip.ccb
           /\ Target \in TargetsOf(cmd) /\ Target \in Idx \cup {Freed}
<1>1. Good(sip) /\ sip.q # <<>> /\ Head(sip.q).cmd = cmd
  BY DEF Inv, Take
<1>2. Keeps(sip, Rest) /\ Rest.ccb = sip.ccb /\ Head(sip.q) \in GoodMessage
  BY <1>1, TakenKeeps DEF Rest
<1> QED
  BY <1>1, <1>2 DEF Keeps, GoodMessage, Message, Target

LEMMA SipMessageGood ==
    ASSUME Inv,
           RegReq \/ RegCancel \/ RegCleanup \/ TmrAck \/ TmrExpire \/ TmrWait \/ StandbyKeepalive
             \/ TmrRetry \/ MsgExpired \/ AllFailExpired
    PROVE  Good(sip') /\ UNCHANGED <<app, call>>
<1>1. CASE RegReq
  <2>1. Good(Rest) /\ Target \in {Line, Backup}
    BY <1>1, Taking, Targets DEF RegReq
  <2> DEFINE s1 == CallCleanup(Rest, Target)
  <2>2. Keeps(Rest, s1) /\ Live(Rest, Target)
    BY <2>1, LineLive, CallCleanupKeeps
  <2>3. sip' \in {Rest, EvRegReq(s1, Target)} /\ UNCHANGED <<app, call>>
    BY <1>1 DEF RegReq, Becomes
  <2> HIDE DEF s1
  <2>4. Good(EvRegReq(s1, Target))
    BY <2>1, <2>2, EvRegGood DEF Keeps
  <2> QED
    BY <2>1, <2>3, <2>4
<1>2. CASE RegCancel
  BY <1>2, Taking, Targets, OnCancelGood DEF RegCancel, Becomes
<1>3. CASE RegCleanup
  BY <1>3, Taking, Targets, OnTimerGood DEF RegCleanup, Becomes
<1>4. CASE TmrAck
  BY <1>4, Taking, Targets, OnTimerGood, Numbers DEF TmrAck, Becomes
<1>5. CASE TmrExpire
  BY <1>5, Taking, Targets, OnTimerGood DEF TmrExpire, Becomes
<1>6. CASE TmrWait
  BY <1>6, Taking, Targets, OnTimerGood, Numbers DEF TmrWait, Becomes
<1>7. CASE StandbyKeepalive
  BY <1>7, Taking, OnTimerGood, Numbers DEF StandbyKeepalive, Becomes
<1>8. CASE TmrRetry
  <2>1. Good(Rest) /\ Target \in Idx
    BY <1>8, Taking, Targets DEF TmrRetry
  <2>2. sip' \in {Rest, OnTmrRetry(Rest, Target)} /\ UNCHANGED <<app, call>>
    BY <1>8 DEF TmrRetry, Becomes
  <2> QED
    BY <2>1, <2>2, OnTimerGood
<1>9. CASE MsgExpired
  <2>1. Good(Rest) /\ Target \in {Line, Backup}
    BY <1>9, Taking, Targets DEF MsgExpired
  <2> QED
    BY <1>9, <2>1, SendOrCleanupKeeps DEF MsgExpired, Becomes, Keeps
<1>10. CASE AllFailExpired
  <2>1. Good(Rest)
    BY <1>10, Taking DEF AllFailExpired
  <2> QED
    BY <1>10, <2>1, PostAppKeeps DEF AllFailExpired, Becomes, Keeps, AppEvents
<1> QED
  BY <1>1, <1>2, <1>3, <1>4, <1>5, <1>6, <1>7, <1>8, <1>9, <1>10

(* The messages with a pointer to a fallback block. *)
LEMMA PointerGood ==
    ASSUME Inv, RetryExpired \/ WaitExpired \/ PhoneIdle \/ PhoneIdleWaited
    PROVE  Good(sip') /\ UNCHANGED <<app, call>>
<1>1. ASSUME NEW i \in Slots \cup {Freed}, NEW s, Good(Rest), i \in Slots => Good(s), Dereference(i, s)
      PROVE  Good(sip') /\ UNCHANGED <<app, call>>
  <2>1. Good(Undefined(Rest))
    BY <1>1, ScalarsKeep DEF Keeps
  <2> QED
    BY <1>1, <2>1, Numbers DEF Dereference, Becomes
<1>2. CASE RetryExpired
  <2>1. Good(Rest) /\ Target \in Slots \cup {Freed}
    BY <1>2, Taking, Targets DEF RetryExpired
  <2>2. Target \in Slots => Good(Send(Rest, "RETRY", Target))
    BY <2>1, SendKeeps, Targets, Numbers DEF Keeps, OfAny
  <2> QED
    BY <1>1, <1>2, <2>1, <2>2 DEF RetryExpired
<1>3. CASE WaitExpired
  <2> DEFINE s1 == Stop(Rest, "wait", Target)
  <2>1. Good(Rest) /\ Target \in Slots \cup {Freed}
    BY <1>3, Taking, Targets DEF WaitExpired
  <2>2. Good(s1) /\ Dereference(Target, Send(s1, "WAIT", Target))
    BY <1>3, <2>1, StopKeeps DEF Keeps, WaitExpired
  <2> HIDE DEF s1
  <2>3. Target \in Slots => Good(Send(s1, "WAIT", Target))
    BY <2>2, SendKeeps, Targets, Numbers DEF Keeps, OfSlot
  <2> QED
    BY <1>1, <2>1, <2>2, <2>3
<1>4. sip.fbCcb \in Slots \cup {Freed} /\ (sip.fbCcb \in Slots => Live(sip, sip.fbCcb))
  BY Numbers DEF Inv, Good, SipRecord, Blocks, Live
<1>5. CASE PhoneIdle
  <2> DEFINE s1 == RegisterCancel(Rest)
  <2>1. Good(Rest)
    BY <1>5, Taking DEF PhoneIdle
  <2>2. Good(s1) /\ Dereference(sip.fbCcb, Send(s1, "CLEANUP", sip.fbCcb))
    BY <1>5, <2>1, RegisterCancelKeeps DEF Keeps, PhoneIdle
  <2> HIDE DEF s1
  <2>3. sip.fbCcb \in Slots => Good(Send(s1, "CLEANUP", sip.fbCcb))
    BY <2>2, SendKeeps, Targets, Numbers DEF Keeps, OfSlot
  <2> QED
    BY <1>1, <1>4, <2>1, <2>2, <2>3
<1>6. CASE PhoneIdleWaited
  <2> DEFINE s1 == [Rest EXCEPT !.fbEntry = None]
             s2 == SendRefer(s1, sip.fbCcb)
             s3 == Put(s2, sip.fbCcb, "TOKEN_WAIT")
  <2>1. Good(Rest) /\ Keeps(sip, Rest) /\ Dereference(sip.fbCcb, s3)
    BY <1>6, Taking DEF PhoneIdleWaited
  <2>2. Keeps(Rest, s1)
    <3>1. None \in Entry
      BY Numbers
    <3> QED
      BY <2>1, <3>1, ScalarsKeep
  <2> HIDE DEF s1
  <2>3. ASSUME sip.fbCcb \in Slots PROVE Good(s3)
    <3>1. Good(s1) /\ Live(s1, sip.fbCcb)
      BY <1>4, <2>1, <2>2, <2>3 DEF Keeps
    <3>2. Keeps(s1, s2)
      BY <3>1, SendReferKeeps
    <3> HIDE DEF s2
    <3>3. Keeps(s2, Put(s2, sip.fbCcb, "TOKEN_WAIT"))
      BY <2>3, <3>1, <3>2, PutKeeps, Numbers DEF Keeps, SlotStates
    <3> QED
      BY <3>3 DEF Keeps
  <2> HIDE DEF s3
  <2> QED
    BY <1>1, <1>4, <2>1, <2>3
<1> QED
  BY <1>2, <1>3, <1>5, <1>6

(* The answers of the application to the end of a failover or a fallback. *)
LEMMA AnswerGood ==
    ASSUME Inv, FailoverRspStart \/ FailoverRspComplete \/ FallbackRsp
    PROVE  Good(sip') /\ UNCHANGED <<app, call>>
<1>1. sip.foEntry \in Entry /\ None \in Entry
  BY Numbers DEF Inv, Good, SipRecord
<1>2. CASE FailoverRspStart
  <2> DEFINE s1 == SetupNewActive(Rest, sip.foEntry)
             s2 == RegisterLines(s1, TRUE)
  <2>1. Good(Rest) /\ sip' = [s2 EXCEPT !.prime = TRUE] /\ UNCHANGED <<app, call>>
    BY <1>2, Taking DEF FailoverRspStart, Becomes
  <2>2. Good(s1)
    BY <1>1, <2>1, SetupNewActiveKeeps DEF Keeps
  <2> HIDE DEF s1
  <2>3. Good(s2)
    BY <2>2, RegisterLinesKeep DEF Keeps
  <2> HIDE DEF s2
  <2> QED
    BY <2>1, <2>3, ScalarsKeep DEF Keeps
<1>3. CASE FailoverRspComplete
  <2> DEFINE s1 == [Rest EXCEPT !.foStarted = FALSE]
             s2 == RegisterLines(s1, FALSE)
             s3 == TriggerFallbackMonitor(s2)
  <2>1. Good(Rest) /\ sip' = [s3 EXCEPT !.prime = FALSE] /\ UNCHANGED <<app, call>>
    BY <1>3, Taking DEF FailoverRspComplete, Becomes
  <2>2. Good(s1)
    BY <2>1, ScalarsKeep DEF Keeps
  <2> HIDE DEF s1
  <2>3. Good(s2)
    BY <2>2, RegisterLinesKeep DEF Keeps
  <2> HIDE DEF s2
  <2>4. Good(s3)
    BY <2>3, TriggerKeeps DEF Keeps
  <2> HIDE DEF s3
  <2> QED
    BY <2>1, <2>4, ScalarsKeep DEF Keeps
<1>4. CASE FallbackRsp
  <2> DEFINE a == RegisterLines(Rest, FALSE)
             s1 == IF sip.fbEntry = None THEN Rest ELSE [a EXCEPT !.fbEntry = None]
             u == [s1 EXCEPT !.isResp = TRUE, !.prime = FALSE]
  <2>1. Good(Rest) /\ sip' = u /\ UNCHANGED <<app, call>>
    BY <1>4, Taking DEF FallbackRsp, Becomes
  <2>2. Good(a)
    BY <2>1, RegisterLinesKeep DEF Keeps
  <2> HIDE DEF a
  <2>3. Good(s1)
    <3>1. Keeps(a, [a EXCEPT !.fbEntry = None])
      BY <1>1, <2>2, ScalarsKeep
    <3> QED
      BY <2>1, <3>1 DEF Keeps
  <2> HIDE DEF s1
  <2>4. u \in SipRecord /\ SameBlocks(s1, u)
    BY <2>3 DEF Good, SipRecord, SameBlocks
  <2> HIDE DEF u
  <2> QED
    BY <2>1, <2>3, <2>4, KeepsSame DEF Keeps
<1> QED
  BY <1>2, <1>3, <1>4

LEMMA SipStepGood == ASSUME Inv, SipStep PROVE Inv'
<1>1. Good(sip') /\ UNCHANGED <<app, call>>
  BY SipMessageGood, PointerGood, AnswerGood DEF SipStep
<1> QED
  BY <1>1 DEF Inv

(* The application: what it answers names no block. *)
LEMMA AppStepGood == ASSUME Inv, AppStep PROVE Inv'
<1> DEFINE Answers == {"FAILOVER_START", "FAILOVER_COMPLETE", "FALLBACK_START", "FALLBACK_WAITED",
                       "FALLBACK_COMPLETE"}
<1>1. ASSUME NEW ev, AppTake(ev) PROVE Good(Taken) /\ \A cmd \in Answers : Good(Answer(cmd))
  <2>1. Good(Taken)
    BY <1>1, TakenKeeps DEF AppTake, Taken, Keeps, Inv
  <2>2. ASSUME NEW cmd \in Answers PROVE Good(Answer(cmd))
    <3>1. Line \in TargetsOf(cmd) /\ cmd \in OfAny /\ None \in Entry
      BY Numbers DEF TargetsOf, OfLine, OfSlot, OfPointer, OfAny
    <3>2. Msg(cmd, Line, None) \in GoodMessage
      BY <3>1, MessageGood
    <3> QED
      BY <2>1, <3>2, PostKeeps DEF Answer, Keeps
  <2> QED
    BY <2>1, <2>2
<1>2. app \in AppRecord /\ call \in BOOLEAN
  BY DEF Inv
<1>3. \A s : \A a \in AppRecord : Good(s) /\ AppBecomes(a, s) => Inv'
  BY <1>2 DEF AppBecomes, Inv
<1>4. ASSUME NEW connected \in BOOLEAN, AppFailoverInd(connected) PROVE Inv'
  <2>1. Good(Taken) /\ Good(Answer("FAILOVER_START"))
    BY <1>1, <1>4 DEF AppFailoverInd
  <2>2. \A keep \in BOOLEAN : [app EXCEPT !.ins = FALSE, !.mode = "FAILOVER", !.pres = @ \/ keep] \in AppRecord
    BY <1>2 DEF AppRecord
  <2>3. (app.sess /\ connected) \in BOOLEAN
    OBVIOUS
  <2> QED
    BY <1>3, <1>4, <2>1, <2>2, <2>3 DEF AppFailoverInd
<1>5. ASSUME NEW connected \in BOOLEAN, AppRegAllFail(connected) PROVE Inv'
  <2>1. Good(Taken)
    BY <1>1, <1>5 DEF AppRegAllFail
  <2>2. [app EXCEPT !.ins = FALSE, !.mode = "NO_CUCM", !.pres = app.sess /\ connected] \in AppRecord
    BY <1>2 DEF AppRecord
  <2> QED
    BY <1>3, <1>5, <2>1, <2>2 DEF AppRegAllFail
<1>6. CASE AppFallbackInd
  <2>1. Good(Taken) /\ Good(Answer("FALLBACK_START"))
    BY <1>1, <1>6 DEF AppFallbackInd
  <2>2. [app EXCEPT !.mode = "FALLBACK", !.ins = @ /\ app.sess] \in AppRecord
    BY <1>2 DEF AppRecord
  <2> QED
    BY <1>3, <1>6, <2>1, <2>2 DEF AppFallbackInd
<1>7. CASE AppRegistered
  <2>1. Good(Taken) /\ Good(Answer("FAILOVER_COMPLETE")) /\ Good(Answer("FALLBACK_COMPLETE"))
    BY <1>1, <1>7 DEF AppRegistered
  <2> DEFINE a == [app EXCEPT !.ins = TRUE, !.mode = "NONE"]
             s == CASE app.mode = "FAILOVER" -> Answer("FAILOVER_COMPLETE")
                    [] app.mode = "FALLBACK" -> Answer("FALLBACK_COMPLETE")
                    [] OTHER -> Taken
  <2>2. a \in AppRecord
    BY <1>2 DEF AppRecord
  <2>3. Good(s)
    BY <2>1
  <2>4. AppBecomes(app, Taken) \/ AppBecomes(a, s)
    BY <1>7 DEF AppRegistered
  <2> HIDE DEF a, s
  <2> QED
    BY <1>2, <1>3, <2>1, <2>2, <2>3, <2>4
<1>8. CASE AppSessionCreated
  <2>1. Good(Taken)
    BY <1>1, <1>8 DEF AppSessionCreated
  <2>2. [app EXCEPT !.sess = TRUE] \in AppRecord
    BY <1>2 DEF AppRecord
  <2> QED
    BY <1>3, <1>8, <2>1, <2>2 DEF AppSessionCreated
<1>9. CASE AppSessionClosed
  <2>1. Good(Taken) /\ Good(Answer("FAILOVER_START")) /\ Good(Answer("FALLBACK_WAITED"))
    BY <1>1, <1>9 DEF AppSessionClosed
  <2> DEFINE a == [app EXCEPT !.sess = FALSE, !.pres = FALSE, !.ins = FALSE]
             b == [app EXCEPT !.sess = FALSE]
             s == CASE app.mode = "FAILOVER" -> Answer("FAILOVER_START")
                    [] app.mode = "FALLBACK" -> Answer("FALLBACK_WAITED")
                    [] OTHER -> Taken
  <2>2. a \in AppRecord /\ b \in AppRecord
    BY <1>2 DEF AppRecord
  <2>3. Good(s)
    BY <2>1
  <2>4. AppBecomes(a, s) \/ AppBecomes(b, Taken)
    BY <1>9 DEF AppSessionClosed
  <2> HIDE DEF a, b, s
  <2> QED
    BY <1>3, <2>1, <2>2, <2>3, <2>4
<1> QED
  BY <1>4, <1>5, <1>6, <1>7, <1>8, <1>9 DEF AppStep

LEMMA ExpireGood == ASSUME Inv, NEW t \in Timers, Expire(t) PROVE Inv'
<1> DEFINE cmd == ExpiryOf[t[1]]
           s1 == Stop(sip, t[1], t[2])
<1>1. /\ t[2] \in TargetsOf(cmd) /\ cmd \in OfLine \cup OfSlot \cup OfPointer \cup OfAny
      /\ None \in Entry
  <2>1. CASE t \in {"ack", "expires", "msg"} \X {Line, Backup}
    BY <2>1, Numbers, Targets DEF ExpiryOf, OfLine
  <2>2. CASE t \in {"retry", "wait"} \X Slots
    BY <2>2, Numbers, Targets DEF ExpiryOf, OfPointer
  <2>3. CASE t \in {<<"keepalive", Backup>>, <<"allfail", Line>>}
    <3>1. cmd \in {"KEEPALIVE", "ALLFAIL_EXPIRED"} /\ t[2] \in Idx
      BY <2>3, Numbers DEF ExpiryOf
    <3>2. cmd \in OfAny /\ TargetsOf(cmd) = Idx
      BY <3>1 DEF OfAny, TargetsOf, OfLine, OfSlot, OfPointer
    <3> QED
      BY <3>1, <3>2, Numbers
  <2> QED
    BY <2>1, <2>2, <2>3 DEF Timers
<1>2. Good(s1)
  BY StopKeeps DEF Inv, Keeps
<1>3. Msg(cmd, t[2], None) \in GoodMessage
  BY <1>1, MessageGood
<1>4. sip' = Post(s1, Msg(cmd, t[2], None)) /\ UNCHANGED <<app, call>>
  BY DEF Expire
<1> HIDE DEF cmd, s1
<1>5. Good(sip')
  BY <1>2, <1>3, <1>4, PostKeeps DEF Keeps
<1> QED
  BY <1>4, <1>5 DEF Inv

LEMMA ReceiveGood == ASSUME Inv, NEW i \in Idx, NEW rsp, Receive(i, rsp) PROVE Inv'
<1> DEFINE s1 == Stop(sip, "msg", i)
           s2 == [s1 EXCEPT !.ccb[i].trx = FALSE]
<1>1. sip' = (IF rsp = "100" THEN s1 ELSE OnFinal(s2, i, rsp)) /\ UNCHANGED <<app, call>>
  BY DEF Receive
<1>2. Good(s1)
  BY StopKeeps DEF Inv, Keeps
<1> HIDE DEF s1
<1>3. Good(s2)
  <2>1. s1 \in SipRecord /\ s1.ccb \in [Idx -> Ccb]
    BY <1>2 DEF Good, SipRecord
  <2>2. [s1.ccb[i] EXCEPT !.trx = FALSE] \in Ccb /\ [s1.ccb[i] EXCEPT !.trx = FALSE].st = s1.ccb[i].st
    BY <2>1 DEF Ccb
  <2> DEFINE b == [s1.ccb[i] EXCEPT !.trx = FALSE]
  <2> HIDE DEF b
  <2>3. s2 = [s1 EXCEPT !.ccb = [s1.ccb EXCEPT ![i] = b]]
    BY DEF b
  <2>4. [s1.ccb EXCEPT ![i] = b] \in [Idx -> Ccb] /\ \A k \in Idx : [s1.ccb EXCEPT ![i] = b][k].st = s1.ccb[k].st
    BY <2>1, <2>2 DEF b
  <2> HIDE DEF s2
  <2>5. s2 \in SipRecord /\ SameBlocks(s1, s2)
    BY <2>1, <2>3, <2>4 DEF SipRecord, SameBlocks
  <2> QED
    BY <1>2, <2>5, KeepsSame DEF Keeps
<1> HIDE DEF s2
<1>4. Good(sip')
  BY <1>1, <1>2, <1>3, OnFinalGood
<1> QED
  BY <1>1, <1>4 DEF Inv

(* What initialization makes of the record, before the line registers. *)
AtStart ==
    [act |-> 0, stb |-> 1, newStb |-> None,
     ccb |-> [i \in Idx |-> IF i \in Slots THEN NewCcb("NONE", None)
                            ELSE NewCcb("IDLE", IF i = Line THEN 0 ELSE 1)],
     list |-> TRUE, avail |-> Slots, tmr |-> {}, monitor |-> TRUE,
     foEntry |-> None, foStarted |-> FALSE, prime |-> FALSE,
     fbEntry |-> None, fbCcb |-> Freed, isResp |-> FALSE,
     rstate |-> "IDLE", up |-> TRUE, q |-> <<>>, appq |-> <<>>]

LEMMA AtStartGood == Good(AtStart) /\ (Init => sip = RegisterAllLines(AtStart))
<1> DEFINE ccb == [i \in Idx |-> IF i \in Slots THEN NewCcb("NONE", None)
                                 ELSE NewCcb("IDLE", IF i = Line THEN 0 ELSE 1)]
<1>1. Init => sip = RegisterAllLines(AtStart)
  BY DEF Init, AtStart
<1>2. 0 \in Entry /\ 1 \in Entry /\ None \in Entry /\ 0 \in 0 .. MaxRetx
  BY Numbers
<1>3. /\ ccb \in [Idx -> Ccb] /\ \A i \in Slots : ccb[i].st = "NONE"
      /\ \A i \in {Line, Backup} : ccb[i].st = "IDLE"
  <2>1. /\ NewCcb("NONE", None) \in Ccb /\ NewCcb("IDLE", 0) \in Ccb /\ NewCcb("IDLE", 1) \in Ccb
        /\ NewCcb("NONE", None).st = "NONE"
        /\ NewCcb("IDLE", 0).st = "IDLE" /\ NewCcb("IDLE", 1).st = "IDLE"
    BY <1>2 DEF NewCcb, Ccb, LineStates, SlotStates
  <2> QED
    BY <2>1, Numbers
<1>4. /\ AtStart.ccb = ccb /\ AtStart.list = TRUE /\ AtStart.avail = Slots
      /\ AtStart.fbCcb = Freed
  BY DEF AtStart
<1>5. AtStart \in SipRecord
  <2> HIDE DEF ccb
  <2> QED
    BY <1>2, <1>3, <1>4 DEF SipRecord, RegStates, AtStart
<1> HIDE DEF ccb
<1>6. Monitored(AtStart) = {}
  BY <1>3, <1>4 DEF Monitored
<1>7. Blocks(AtStart)
  BY <1>3, <1>4, <1>6, Numbers DEF Blocks, LineStates, SlotStates
<1> QED
  BY <1>1, <1>5, <1>7 DEF Good

LEMMA InitGood == Init => Inv
<1> SUFFICES ASSUME Init PROVE Inv
  OBVIOUS
<1>1. sip = RegisterAllLines(AtStart) /\ Good(AtStart)
  BY AtStartGood
<1>2. Good(sip)
  BY <1>1, RegisterLinesKeep DEF Keeps
<1>3. app \in AppRecord /\ call \in BOOLEAN
  BY DEF Init, AppRecord
<1> QED
  BY <1>2, <1>3 DEF Inv

LEMMA NextGood == Inv /\ [Next]_vars => Inv'
<1> SUFFICES ASSUME Inv, [Next]_vars PROVE Inv'
  OBVIOUS
<1>1. CASE SipStep
  BY <1>1, SipStepGood
<1>2. CASE AppStep
  BY <1>2, AppStepGood
<1>3. ASSUME NEW t \in Timers, Expire(t) PROVE Inv'
  BY <1>3, ExpireGood
<1>4. ASSUME NEW i \in Idx, NEW rsp \in Responses, Receive(i, rsp) PROVE Inv'
  BY <1>4, ReceiveGood
<1>5. CASE CallStarts \/ CallEnds
  <2>1. Good(PostApp(sip, "CREATED")) /\ Good(PostApp(sip, "CLOSED"))
    BY PostAppKeeps DEF Inv, Keeps, AppEvents
  <2> QED
    BY <1>5, <2>1 DEF CallStarts, CallEnds, Inv
<1>6. CASE Down \/ UNCHANGED vars
  BY <1>6 DEF Down, vars, Inv
<1> QED
  BY <1>1, <1>2, <1>3, <1>4, <1>5, <1>6 DEF Next

(* The invariant holds the types and the bookkeeping of the blocks. *)
LEMMA InvShows == Inv => TypeOK /\ SlotsAccounted
<1> SUFFICES ASSUME Inv PROVE TypeOK /\ SlotsAccounted
  OBVIOUS
<1>1. sip \in SipRecord /\ Blocks(sip) /\ app \in AppRecord /\ call \in BOOLEAN
  BY DEF Inv, Good
<1>2. LineStates \cup SlotStates = {"NONE", "IDLE", "REGISTERING", "REGISTERED", "UNREGISTERING",
                                    "IN_FALLBACK", "TOKEN_WAIT"}
  BY DEF LineStates, SlotStates
<1>3. GoodMessage \subseteq [cmd : Commands, idx : Idx \cup {Freed}, ccm : Entry]
  <2>1. DOMAIN ExpiryOf = {"ack", "expires", "msg", "retry", "wait", "keepalive", "allfail"}
    BY DEF ExpiryOf
  <2>2. {ExpiryOf[k] : k \in DOMAIN ExpiryOf} =
           {"TMR_ACK", "TMR_EXPIRE", "MSG_EXPIRED", "RETRY_EXPIRED", "WAIT_EXPIRED", "KEEPALIVE",
            "ALLFAIL_EXPIRED"}
    BY DEF ExpiryOf
  <2>3. OfLine \cup OfSlot \cup OfPointer \cup OfAny \subseteq Commands
    BY <2>2 DEF OfLine, OfSlot, OfPointer, OfAny, Commands
  <2> QED
    BY <2>3 DEF GoodMessage, Message
<1>4. sip.q \in Seq([cmd : Commands, idx : Idx \cup {Freed}, ccm : Entry])
  <2> DEFINE T == [cmd : Commands, idx : Idx \cup {Freed}, ccm : Entry]
  <2>1. sip.q \in Seq(GoodMessage) /\ GoodMessage \subseteq T
    BY <1>1, <1>3 DEF SipRecord
  <2> HIDE DEF T
  <2>2. sip.q \in Seq(T)
    BY <2>1
  <2> QED
    BY <2>2 DEF T
<1>5. TypeOK
  BY <1>1, <1>2, <1>4 DEF TypeOK, SipRecord, Ccb, RegStates, AppEvents, AppRecord
<1>6. SlotsAccounted
  BY <1>1 DEF Blocks, SlotsAccounted, GivenUp
<1> QED
  BY <1>5, <1>6

(***************************************************************************)
(* The registration manager's data keep their types: no handler gives a    *)
(* block a call manager, a timer or a state that the code has not for it,  *)
(* for any number of call managers and whatever the call managers answer.  *)
(***************************************************************************)
THEOREM TypeCorrect == Spec => []TypeOK
<1>1. Spec => []Inv
  BY InitGood, NextGood, PTL DEF Spec
<1>2. Inv => TypeOK
  BY InvShows
<1> QED
  BY <1>1, <1>2, PTL

(***************************************************************************)
(* sip_regmgr_create_fallback_ccb() and sip_regmgr_clean_fallback_ccb()    *)
(* keep account of the numbers of fallback blocks, until all call managers *)
(* have failed: a number is free, or the block it names is in the list.    *)
(***************************************************************************)
THEOREM SlotsCorrect == Spec => []SlotsAccounted
<1>1. Spec => []Inv
  BY InitGood, NextGood, PTL DEF Spec
<1>2. Inv => SlotsAccounted
  BY InvShows
<1> QED
  BY <1>1, <1>2, PTL

=============================================================================
