------------------------ MODULE RegMgrStandbyProofs ------------------------
(***************************************************************************)
(* Theorems about the standby in RegMgr: the backup block follows the      *)
(* table of active and standby, and a standby that is watched stays so,    *)
(* for any number of call managers and any number of messages under way.   *)
(***************************************************************************)
EXTENDS RegMgrProofs

(* The backup block is never registered, and nothing of Retry-After is     *)
(* under way unless a call manager gives one.                              *)
Plain(m) ==
    /\ ~(m.cmd = "REG_REQ" /\ m.idx = Backup)
    /\ m.cmd \in {"WAIT", "WAIT_EXPIRED"} => "retry" \in Responses
Clean(s) ==
    /\ \A n \in DOMAIN s.q : Plain(s.q[n])
    /\ \A i \in Slots : <<"wait", i>> \in s.tmr => "retry" \in Responses

(* The backup block is set up for the standby. *)
SetUp(s) ==
    IF s.stb = None THEN s.ccb[Backup].st = "IDLE"
    ELSE s.ccb[Backup].st = "UNREGISTERING" /\ s.ccb[Backup].entry = s.stb

Right(s) == SetUp(s) /\ Clean(s)

(***************************************************************************)
(* What a procedure may do that is not about the standby; what a handler   *)
(* may do; and where a handler ends that has dealt with the standby.       *)
(***************************************************************************)
Holds(s, t) ==
    /\ t.stb = s.stb
    /\ Clean(s) => Clean(t)
    /\ SetUp(s) => SetUp(t)
    /\ Watching(s) => Watching(t)

Prompt == Responses \cap {"100", "retry"} = {}
Fine(s, t) ==
    Right(s) => /\ Right(t)
                /\ Prompt /\ s.stb # None /\ t.stb = s.stb /\ Watching(s) => Watching(t)

Settled(t) == Right(t) /\ (t.stb = None \/ Watching(t))

LEMMA HoldsSelf == ASSUME NEW s PROVE Holds(s, s)
BY DEF Holds

LEMMA HoldsOn == ASSUME NEW s, NEW t, NEW u, Holds(s, t), Holds(t, u) PROVE Holds(s, u)
BY DEF Holds

LEMMA HoldsRight == ASSUME NEW s, NEW t, Holds(s, t), Right(s) PROVE Right(t) /\ t.stb = s.stb
BY DEF Holds, Right

LEMMA HoldsFine == ASSUME NEW s, NEW t, Holds(s, t) PROVE Fine(s, t)
BY DEF Holds, Fine, Right

LEMMA HoldsThenFine ==
    ASSUME NEW s, NEW t, NEW u, Holds(s, t), Fine(t, u) PROVE Fine(s, u)
BY DEF Holds, Fine, Right

LEMMA FineThenHolds ==
    ASSUME NEW s, NEW t, NEW u, Fine(s, t), Holds(t, u) PROVE Fine(s, u)
BY DEF Holds, Fine, Right

LEMMA SettledFine == ASSUME NEW s, NEW t, Right(s) => Settled(t) PROVE Fine(s, t)
BY DEF Fine, Settled

LEMMA SettledHolds == ASSUME NEW s, NEW t, Settled(s), Holds(s, t) PROVE Settled(t)
BY DEF Settled, Holds, Right

(* A record with the same queue and backup block, and timers for it. *)
LEMMA SameHolds ==
    ASSUME NEW s, NEW t, t.stb = s.stb, t.q = s.q, t.ccb[Backup].st = s.ccb[Backup].st,
           t.ccb[Backup].entry = s.ccb[Backup].entry,
           \A kind \in {"msg", "keepalive"} : <<kind, Backup>> \in s.tmr => <<kind, Backup>> \in t.tmr,
           \A i \in Slots : <<"wait", i>> \in t.tmr => <<"wait", i>> \in s.tmr
    PROVE  Holds(s, t)
<1>1. Clean(s) => Clean(t)
  BY DEF Clean
<1>2. SetUp(s) => SetUp(t)
  BY DEF SetUp
<1>3. Watching(s) => Watching(t)
  BY DEF Watching
<1> QED
  BY <1>1, <1>2, <1>3 DEF Holds

(* A block other than the backup's changes. *)
LEMMA OtherBlockHolds ==
    ASSUME NEW s, Good(s), NEW i \in Idx, i # Backup, NEW b
    PROVE  Holds(s, [s EXCEPT !.ccb[i] = b])
<1> DEFINE t == [s EXCEPT !.ccb[i] = b]
<1>1. s \in SipRecord /\ s.ccb \in [Idx -> Ccb] /\ Backup \in Idx
  BY Numbers DEF Good, SipRecord
<1>2. t.ccb = [s.ccb EXCEPT ![i] = b] /\ t.stb = s.stb /\ t.q = s.q /\ t.tmr = s.tmr
  BY <1>1 DEF SipRecord
<1>3. t.ccb[Backup] = s.ccb[Backup]
  BY <1>1, <1>2
<1> HIDE DEF t
<1>4. Holds(s, t)
  BY <1>2, <1>3, SameHolds
<1> QED
  BY <1>4 DEF t

(* Changes to any block that leave its state and call manager alone. *)
LEMMA FieldsHold ==
    ASSUME NEW s, Good(s), NEW i \in Idx
    PROVE  /\ \A n : Holds(s, [s EXCEPT !.ccb[i].retx = n])
           /\ \A b : Holds(s, [s EXCEPT !.ccb[i].reg = b])
           /\ \A b : Holds(s, [s EXCEPT !.ccb[i].trx = b])
           /\ \A b, n : Holds(s, [s EXCEPT !.ccb[i].trx = b, !.ccb[i].retx = n])
<1>1. s \in SipRecord /\ s.ccb \in [Idx -> Ccb] /\ Backup \in Idx
  BY Numbers DEF Good, SipRecord
<1>2. ASSUME NEW c, c.st = s.ccb[i].st, c.entry = s.ccb[i].entry
      PROVE  Holds(s, [s EXCEPT !.ccb[i] = c])
  <2> DEFINE t == [s EXCEPT !.ccb[i] = c]
  <2>1. t.ccb = [s.ccb EXCEPT ![i] = c] /\ t.stb = s.stb /\ t.q = s.q /\ t.tmr = s.tmr
    BY <1>1 DEF SipRecord
  <2>2. t.ccb[Backup].st = s.ccb[Backup].st /\ t.ccb[Backup].entry = s.ccb[Backup].entry
    BY <1>1, <1>2, <2>1
  <2> HIDE DEF t
  <2>3. Holds(s, t)
    BY <2>1, <2>2, SameHolds
  <2> QED
    BY <2>3 DEF t
<1>3. s.ccb[i] \in Ccb
  BY <1>1
<1>4. ASSUME NEW n PROVE Holds(s, [s EXCEPT !.ccb[i].retx = n])
  BY <1>2, <1>3 DEF Ccb
<1>5. ASSUME NEW b PROVE Holds(s, [s EXCEPT !.ccb[i].reg = b])
  BY <1>2, <1>3 DEF Ccb
<1>6. ASSUME NEW b PROVE Holds(s, [s EXCEPT !.ccb[i].trx = b])
  BY <1>2, <1>3 DEF Ccb
<1>7. ASSUME NEW b, NEW n PROVE Holds(s, [s EXCEPT !.ccb[i].trx = b, !.ccb[i].retx = n])
  <2> DEFINE v == [[s.ccb[i] EXCEPT !.trx = b] EXCEPT !.retx = n]
  <2>1. v.st = s.ccb[i].st /\ v.entry = s.ccb[i].entry
    BY <1>3 DEF Ccb
  <2>2. [s EXCEPT !.ccb[i].trx = b, !.ccb[i].retx = n] = [s EXCEPT !.ccb[i] = v]
    BY <1>1 DEF SipRecord
  <2> HIDE DEF v
  <2> QED
    BY <1>2, <2>1, <2>2
<1> QED
  BY <1>4, <1>5, <1>6, <1>7

(* The fields that do not describe a block. *)
LEMMA ScalarsHold ==
    ASSUME NEW s, Good(s)
    PROVE  /\ \A c : /\ Holds(s, [s EXCEPT !.act = c]) /\ Holds(s, [s EXCEPT !.newStb = c])
                     /\ Holds(s, [s EXCEPT !.fbEntry = c]) /\ Holds(s, [s EXCEPT !.monitor = c])
                     /\ Holds(s, [s EXCEPT !.foStarted = c]) /\ Holds(s, [s EXCEPT !.prime = c])
                     /\ Holds(s, [s EXCEPT !.list = c]) /\ Holds(s, SetRegState(s, c))
                     /\ Holds(s, PostApp(s, c))
           /\ \A a, b, c, d : Holds(s, [s EXCEPT !.foEntry = a, !.foStarted = b, !.prime = c, !.fbEntry = d])
           /\ \A a, b, c : Holds(s, [s EXCEPT !.fbEntry = a, !.isResp = b, !.fbCcb = c])
           /\ \A a, b : Holds(s, [s EXCEPT !.isResp = a, !.prime = b])
           /\ s.appq # <<>> => Holds(s, [s EXCEPT !.appq = Tail(s.appq)])
           /\ Holds(s, Undefined(s))
<1>1. s \in SipRecord
  BY DEF Good
<1>2. ASSUME NEW t, t.stb = s.stb, t.q = s.q, t.ccb = s.ccb, t.tmr = s.tmr PROVE Holds(s, t)
  BY <1>2, SameHolds
<1>3. ASSUME NEW c
      PROVE  /\ Holds(s, [s EXCEPT !.act = c]) /\ Holds(s, [s EXCEPT !.newStb = c])
             /\ Holds(s, [s EXCEPT !.fbEntry = c]) /\ Holds(s, [s EXCEPT !.monitor = c])
             /\ Holds(s, [s EXCEPT !.foStarted = c]) /\ Holds(s, [s EXCEPT !.prime = c])
             /\ Holds(s, [s EXCEPT !.list = c])
  BY <1>1, <1>2 DEF SipRecord
<1>4. ASSUME NEW c PROVE Holds(s, SetRegState(s, c)) /\ Holds(s, PostApp(s, c))
  BY <1>1, <1>2 DEF SipRecord, SetRegState, PostApp
<1>5. ASSUME NEW a, NEW b, NEW c, NEW d
      PROVE  Holds(s, [s EXCEPT !.foEntry = a, !.foStarted = b, !.prime = c, !.fbEntry = d])
  <2> DEFINE t == [s EXCEPT !.foEntry = a, !.foStarted = b, !.prime = c, !.fbEntry = d]
  <2>1. t.stb = s.stb /\ t.q = s.q /\ t.ccb = s.ccb /\ t.tmr = s.tmr
    BY <1>1 DEF SipRecord
  <2> QED
    BY <1>2, <2>1
<1>6. ASSUME NEW a, NEW b, NEW c
      PROVE  /\ Holds(s, [s EXCEPT !.fbEntry = a, !.isResp = b, !.fbCcb = c])
             /\ Holds(s, [s EXCEPT !.isResp = a, !.prime = b])
  <2> DEFINE t == [s EXCEPT !.fbEntry = a, !.isResp = b, !.fbCcb = c]
             u == [s EXCEPT !.isResp = a, !.prime = b]
  <2>1. t.stb = s.stb /\ t.q = s.q /\ t.ccb = s.ccb /\ t.tmr = s.tmr
    BY <1>1 DEF SipRecord
  <2>2. u.stb = s.stb /\ u.q = s.q /\ u.ccb = s.ccb /\ u.tmr = s.tmr
    BY <1>1 DEF SipRecord
  <2> QED
    BY <1>2, <2>1, <2>2
<1>7. Holds(s, [s EXCEPT !.appq = Tail(s.appq)])
  BY <1>1, <1>2 DEF SipRecord
<1>8. Holds(s, Undefined(s))
  BY <1>1, <1>2 DEF SipRecord, Undefined
<1> QED
  BY <1>3, <1>4, <1>5, <1>6, <1>7, <1>8

(***************************************************************************)
(* Timers and messages                                                     *)
(***************************************************************************)
LEMMA StartHolds ==
    ASSUME NEW s, Good(s), NEW kind, NEW i, kind # "wait" PROVE Holds(s, Start(s, kind, i))
<1> DEFINE t == Start(s, kind, i)
<1>1. t.stb = s.stb /\ t.q = s.q /\ t.ccb = s.ccb /\ t.tmr = s.tmr \cup {<<kind, i>>}
  BY DEF Good, SipRecord, Start
<1> HIDE DEF t
<1>2. Holds(s, t)
  BY <1>1, SameHolds
<1> QED
  BY <1>2 DEF t

LEMMA StopHolds ==
    ASSUME NEW s, Good(s), NEW kind, NEW i, i # Backup \/ kind \notin {"msg", "keepalive"}
    PROVE  Holds(s, Stop(s, kind, i))
<1> DEFINE t == Stop(s, kind, i)
<1>1. t.stb = s.stb /\ t.q = s.q /\ t.ccb = s.ccb /\ t.tmr = s.tmr \ {<<kind, i>>}
  BY DEF Good, SipRecord, Stop
<1> HIDE DEF t
<1>2. Holds(s, t)
  BY <1>1, SameHolds
<1> QED
  BY <1>2 DEF t

(* A timer that watches is stopped. *)
LEMMA StopRight ==
    ASSUME NEW s, Good(s), NEW kind, NEW i
    PROVE  /\ Right(s) => Right(Stop(s, kind, i))
           /\ Stop(s, kind, i).stb = s.stb /\ Stop(s, kind, i).ccb = s.ccb
<1> DEFINE t == Stop(s, kind, i)
<1>1. t.stb = s.stb /\ t.q = s.q /\ t.ccb = s.ccb /\ t.tmr = s.tmr \ {<<kind, i>>}
  BY DEF Good, SipRecord, Stop
<1> HIDE DEF t
<1>2. Right(s) => Right(t)
  BY <1>1 DEF Right, SetUp, Clean
<1> QED
  BY <1>1, <1>2 DEF t

LEMMA AckHolds ==
    ASSUME NEW s, Good(s), NEW i PROVE Holds(s, StopAck(s, i)) /\ Holds(s, StartAck(s, i))
BY StartHolds, StopHolds DEF StopAck, StartAck

LEMMA PostHolds ==
    ASSUME NEW s, Good(s), NEW m \in GoodMessage, Plain(m)
    PROVE  Holds(s, Post(s, m)) /\ (Asks(m, s.stb) => Watching(Post(s, m)))
<1> DEFINE t == Post(s, m)
<1>1. /\ t.stb = s.stb /\ t.q = Append(s.q, m) /\ t.ccb = s.ccb /\ t.tmr = s.tmr
      /\ s.q \in Seq(GoodMessage)
  BY DEF Good, SipRecord, Post
<1> HIDE DEF t
<1>2. /\ DOMAIN s.q = 1 .. Len(s.q) /\ DOMAIN t.q = 1 .. Len(s.q) + 1 /\ Len(s.q) \in Nat
      /\ \A n \in 1 .. Len(s.q) : t.q[n] = s.q[n]
      /\ t.q[Len(s.q) + 1] = m
  BY <1>1
<1>3. Clean(s) => Clean(t)
  <2>1. ASSUME Clean(s), NEW n \in DOMAIN t.q PROVE Plain(t.q[n])
    BY <1>2, <2>1 DEF Clean
  <2> QED
    BY <1>1, <2>1 DEF Clean
<1>4. SetUp(s) => SetUp(t)
  BY <1>1 DEF SetUp
<1>5. Watching(s) => Watching(t)
  <2>1. ASSUME NEW n \in DOMAIN s.q PROVE n \in DOMAIN t.q /\ t.q[n] = s.q[n]
    BY <1>2
  <2> QED
    BY <1>1, <2>1 DEF Watching
<1>6. Asks(m, s.stb) => Watching(t)
  <2>1. Len(s.q) + 1 \in DOMAIN t.q
    BY <1>2
  <2> QED
    BY <1>1, <1>2, <2>1 DEF Watching
<1> QED
  BY <1>3, <1>4, <1>5, <1>6, <1>1 DEF Holds, t

(* The messages a handler sends to a block. *)
Sendable == {"CANCEL", "RETRY", "CLEANUP"}

LEMMA SendHolds ==
    ASSUME NEW s, Good(s), NEW cmd \in Sendable \cup {"REG_REQ"}, NEW i \in TargetsOf(cmd), i \in Idx,
           cmd = "REG_REQ" => i # Backup
    PROVE  Holds(s, Send(s, cmd, i))
<1>1. s.ccb[i].entry \in Entry
  BY DEF Good, SipRecord, Ccb
<1>2. Msg(cmd, i, s.ccb[i].entry) \in GoodMessage
  BY <1>1, MessageGood DEF Sendable, OfAny, OfSlot, OfLine
<1>3. Plain(Msg(cmd, i, s.ccb[i].entry))
  BY DEF Plain, Msg, Sendable
<1> QED
  BY <1>2, <1>3, PostHolds, HoldsSelf DEF Send

(* The standby is asked. *)
LEMMA SendCancelSettles ==
    ASSUME NEW s, Good(s), Right(s) PROVE Settled(Send(s, "CANCEL", Backup))
<1> DEFINE m == Msg("CANCEL", Backup, s.ccb[Backup].entry)
<1>1. s.ccb[Backup].entry \in Entry /\ Backup \in TargetsOf("CANCEL") /\ Backup \in Idx
  BY Numbers, Targets DEF Good, SipRecord, Ccb
<1>2. m \in GoodMessage /\ Plain(m) /\ Asks(m, s.stb)
  BY <1>1, MessageGood DEF OfAny, Plain, Asks, Msg
<1>3. Holds(s, Post(s, m)) /\ Watching(Post(s, m))
  BY <1>2, PostHolds
<1>4. CASE CanSend(s, Backup)
  BY <1>3, <1>4, HoldsRight DEF Send, Settled
<1>5. CASE ~CanSend(s, Backup)
  <2>1. s.stb = None
    BY <1>5 DEF CanSend, Right, SetUp
  <2> QED
    BY <1>5, <2>1 DEF Send, Settled
<1> QED
  BY <1>4, <1>5

(***************************************************************************)
(* The line and the backup block                                           *)
(***************************************************************************)
LEMMA PutHolds ==
    ASSUME NEW s, Good(s), NEW i \in Idx, i # Backup, NEW st PROVE Holds(s, Put(s, i, st))
<1> DEFINE b == [s.ccb[i] EXCEPT !.st = st]
<1>1. Put(s, i, st) = [s EXCEPT !.ccb[i] = b]
  BY DEF Put
<1> QED
  BY <1>1, OtherBlockHolds

LEMMA CallCleanupHolds ==
    ASSUME NEW s, Good(s), NEW i \in Idx, i # Backup PROVE Holds(s, CallCleanup(s, i))
BY OtherBlockHolds DEF CallCleanup

(* The backup block is cleaned. *)
LEMMA CallCleanupBackup ==
    ASSUME NEW s, Good(s)
    PROVE  LET t == CallCleanup(s, Backup)
           IN  /\ t.stb = s.stb /\ (Clean(s) => Clean(t)) /\ (Watching(s) => Watching(t))
               /\ t.ccb[Backup].st = "IDLE" /\ t.ccb[Backup].entry = s.stb
<1> DEFINE b == [NewCcb("IDLE", s.stb) EXCEPT !.retx = s.ccb[Backup].retx]
           t == CallCleanup(s, Backup)
<1>1. s \in SipRecord /\ s.ccb \in [Idx -> Ccb] /\ Backup \in Idx /\ Backup # Line
  BY Numbers DEF Good, SipRecord
<1>2. b.st = "IDLE" /\ b.entry = s.stb
  BY DEF NewCcb
<1>3. t = [s EXCEPT !.ccb[Backup] = b]
  BY <1>1 DEF CallCleanup
<1> HIDE DEF b, t
<1>4. t.ccb = [s.ccb EXCEPT ![Backup] = b] /\ t.stb = s.stb /\ t.q = s.q /\ t.tmr = s.tmr
  BY <1>1, <1>3 DEF SipRecord
<1>5. t.ccb[Backup] = b
  BY <1>1, <1>4
<1>6. (Clean(s) => Clean(t)) /\ (Watching(s) => Watching(t))
  BY <1>4 DEF Clean, Watching
<1> QED
  BY <1>2, <1>4, <1>5, <1>6 DEF t

(* ccsip_register_cleanup() up to the cleaning of the block. *)
Unregistered(s, i, start) ==
    LET s1 == StopAck([s EXCEPT !.ccb[i].reg = FALSE], i)
        s2 == IF start /\ s.ccb[i].st # "UNREGISTERING" THEN Start(s1, "expires", i) ELSE s1
    IN  IF AllUnregistered(s2) THEN SetRegState(s2, "IDLE") ELSE s2

LEMMA UnregisteredHolds ==
    ASSUME NEW s, Good(s), NEW i, Live(s, i), NEW start \in BOOLEAN, start => i \in {Line, Backup}
    PROVE  /\ Keeps(s, Unregistered(s, i, start)) /\ Holds(s, Unregistered(s, i, start))
           /\ RegisterCleanup(s, i, start) = CallCleanup(Unregistered(s, i, start), i)
<1> DEFINE s0 == [s EXCEPT !.ccb[i].reg = FALSE]
           s1 == StopAck(s0, i)
           s2 == IF start /\ s.ccb[i].st # "UNREGISTERING" THEN Start(s1, "expires", i) ELSE s1
           s3 == IF AllUnregistered(s2) THEN SetRegState(s2, "IDLE") ELSE s2
<1>1. RegisterCleanup(s, i, start) = CallCleanup(s3, i) /\ Unregistered(s, i, start) = s3
  BY DEF RegisterCleanup, Unregistered
<1>2. Keeps(s, s0) /\ Holds(s, s0)
  BY FieldsKeep, FieldsHold DEF Live
<1> HIDE DEF s0
<1>3. Keeps(s0, s1) /\ Holds(s0, s1)
  BY <1>2, AckKeeps, AckHolds DEF Keeps
<1> HIDE DEF s1
<1>4. Keeps(s1, s2) /\ Holds(s1, s2)
  <2>1. Good(s1)
    BY <1>3 DEF Keeps
  <2>2. CASE start /\ s.ccb[i].st # "UNREGISTERING"
    BY <2>1, <2>2, TimerKinds, StartKeeps, StartHolds
  <2>3. CASE ~(start /\ s.ccb[i].st # "UNREGISTERING")
    BY <2>1, <2>3, KeepsSelf, HoldsSelf
  <2> QED
    BY <2>2, <2>3
<1> HIDE DEF s2
<1>5. Keeps(s2, s3) /\ Holds(s2, s3)
  <2>1. Good(s2)
    BY <1>4 DEF Keeps
  <2> QED
    BY <2>1, ScalarsKeep, ScalarsHold, KeepsSelf, HoldsSelf DEF RegStates
<1> HIDE DEF s3
<1>6. Keeps(s, s3) /\ Holds(s, s3)
  BY <1>2, <1>3, <1>4, <1>5, KeepsOn, HoldsOn
<1> QED
  BY <1>1, <1>6

LEMMA RegisterCleanupHolds ==
    ASSUME NEW s, Good(s), NEW i, Live(s, i), i # Backup, NEW start \in BOOLEAN, start => i = Line
    PROVE  Holds(s, RegisterCleanup(s, i, start))
<1> DEFINE t == Unregistered(s, i, start)
<1>1. Keeps(s, t) /\ Holds(s, t) /\ RegisterCleanup(s, i, start) = CallCleanup(t, i)
  BY UnregisteredHolds
<1> HIDE DEF t
<1> QED
  BY <1>1, CallCleanupHolds, HoldsOn DEF Keeps, Live

LEMMA RegisterCleanupBackup ==
    ASSUME NEW s, Good(s), NEW start \in BOOLEAN
    PROVE  LET t == RegisterCleanup(s, Backup, start)
           IN  /\ t.stb = s.stb /\ (Clean(s) => Clean(t)) /\ (Watching(s) => Watching(t))
               /\ t.ccb[Backup].st = "IDLE" /\ t.ccb[Backup].entry = s.stb
<1> DEFINE t == Unregistered(s, Backup, start)
<1>1. Keeps(s, t) /\ Holds(s, t) /\ RegisterCleanup(s, Backup, start) = CallCleanup(t, Backup)
  BY LineLive, UnregisteredHolds
<1> HIDE DEF t
<1> QED
  BY <1>1, CallCleanupBackup DEF Keeps, Holds

LEMMA SendOrCleanupHolds ==
    ASSUME NEW s, Good(s), NEW cmd \in {"REG_REQ", "CANCEL", "RETRY"}, NEW start \in BOOLEAN
    PROVE  Holds(s, SendOrCleanup(s, cmd, Line, start))
<1>1. Line \in Idx /\ Line # Backup /\ Live(s, Line) /\ Line \in TargetsOf(cmd)
  BY LineLive, Targets, Numbers
<1>2. Holds(s, Send(s, cmd, Line))
  BY <1>1, SendHolds DEF Sendable
<1> QED
  BY <1>1, <1>2, RegisterCleanupHolds DEF SendOrCleanup

LEMMA SetupNewActiveHolds ==
    ASSUME NEW s, Good(s), NEW c \in Entry PROVE Holds(s, SetupNewActive(s, c))
<1> DEFINE s1 == Stop(s, "expires", Line)
           s2 == StopAck(s1, Line)
           s3 == CallCleanup(s2, Line)
           s4 == [s3 EXCEPT !.ccb[Line].entry = c]
<1>1. Line \in Idx /\ Line # Backup
  BY Numbers
<1>2. SetupNewActive(s, c) = [s4 EXCEPT !.act = c]
  BY DEF SetupNewActive
<1>3. Keeps(s, s1) /\ Holds(s, s1)
  BY <1>1, StopKeeps, StopHolds
<1> HIDE DEF s1
<1>4. Keeps(s1, s2) /\ Holds(s1, s2)
  BY <1>3, AckKeeps, AckHolds DEF Keeps
<1> HIDE DEF s2
<1>5. Keeps(s2, s3) /\ Holds(s2, s3)
  BY <1>1, <1>4, LineLive, CallCleanupKeeps, CallCleanupHolds DEF Keeps
<1> HIDE DEF s3
<1>6. Keeps(s3, s4) /\ Holds(s3, s4)
  BY <1>1, <1>5, LineLive, EntryKeeps, OtherBlockHolds DEF Keeps
<1> HIDE DEF s4
<1>7. Holds(s4, [s4 EXCEPT !.act = c])
  BY <1>6, ScalarsHold DEF Keeps
<1> QED
  BY <1>2, <1>3, <1>4, <1>5, <1>6, <1>7, HoldsOn

(* The block is set up for a standby: which one it watched so far does not *)
(* matter, but what is under way to watch the same one is kept.            *)
LEMMA SetupNewStandbySets ==
    ASSUME NEW s, Good(s), NEW c \in Entry, c # None
    PROVE  LET t == SetupNewStandby(s, c)
           IN  /\ t.stb = c /\ SetUp(t) /\ (Clean(s) => Clean(t))
               /\ c = s.stb => Holds(s, t)
<1> DEFINE s1 == RegisterCleanup(s, Backup, FALSE)
           b == [[s1.ccb[Backup] EXCEPT !.st = "UNREGISTERING"] EXCEPT !.entry = c]
           t == SetupNewStandby(s, c)
<1>1. Good(s1)
  BY LineLive, RegisterCleanupKeeps DEF Keeps
<1>2. /\ s1.stb = s.stb /\ (Clean(s) => Clean(s1)) /\ (Watching(s) => Watching(s1))
  BY RegisterCleanupBackup
<1>3. t = [s1 EXCEPT !.ccb[Backup].st = "UNREGISTERING", !.ccb[Backup].entry = c, !.stb = c]
  BY DEF SetupNewStandby
<1> HIDE DEF s1
<1>4. s1 \in SipRecord /\ s1.ccb \in [Idx -> Ccb] /\ Backup \in Idx /\ s1.ccb[Backup] \in Ccb
  BY <1>1, Numbers DEF Good, SipRecord
<1>5. b.st = "UNREGISTERING" /\ b.entry = c
  BY <1>4 DEF Ccb
<1>6. t = [s1 EXCEPT !.ccb = [s1.ccb EXCEPT ![Backup] = b], !.stb = c]
  BY <1>3, <1>4 DEF SipRecord
<1> HIDE DEF b, t
<1>7. t.ccb = [s1.ccb EXCEPT ![Backup] = b] /\ t.stb = c /\ t.q = s1.q /\ t.tmr = s1.tmr
  BY <1>4, <1>6 DEF SipRecord
<1>8. t.ccb[Backup] = b
  BY <1>4, <1>7
<1>9. SetUp(t)
  BY <1>5, <1>7, <1>8 DEF SetUp
<1>10. Clean(s) => Clean(t)
  BY <1>2, <1>7 DEF Clean
<1>11. c = s.stb /\ Watching(s) => Watching(t)
  BY <1>2, <1>7 DEF Watching
<1> QED
  BY <1>7, <1>9, <1>10, <1>11 DEF Holds, t

LEMMA SetupStandbyAgainHolds ==
    ASSUME NEW s, Good(s)
    PROVE  /\ Holds(s, SetupStandbyAgain(s))
           /\ s.stb # None => SetUp(SetupStandbyAgain(s))
<1>1. s.stb \in Entry
  BY DEF Good, SipRecord
<1> QED
  BY <1>1, SetupNewStandbySets, HoldsSelf DEF SetupStandbyAgain

LEMMA SendRegisterHolds ==
    ASSUME NEW s, Good(s), NEW i, Live(s, i)
    PROVE  /\ Holds(s, SendRegister(s, i))
           /\ i = Backup => Watching(SendRegister(s, i))
<1> DEFINE s1 == [s EXCEPT !.ccb[i].trx = TRUE, !.ccb[i].retx = 0]
<1>1. SendRegister(s, i) = IF i \in Slots THEN s1 ELSE Start(s1, "msg", i)
  BY DEF SendRegister
<1>2. Keeps(s, s1)
  <2>1. \A b \in BOOLEAN, n \in 0 .. MaxRetx :
           Keeps(s, [s EXCEPT !.ccb[i].trx = b, !.ccb[i].retx = n])
    BY FieldsKeep
  <2>2. 0 \in 0 .. MaxRetx
    BY Numbers
  <2> QED
    BY <2>1, <2>2
<1>3. Holds(s, s1)
  BY FieldsHold DEF Live
<1> HIDE DEF s1
<1>4. Holds(s1, Start(s1, "msg", i))
  BY <1>2, StartHolds DEF Keeps
<1>5. i = Backup => Watching(Start(s1, "msg", i))
  <2>1. Start(s1, "msg", i).tmr = s1.tmr \cup {<<"msg", i>>}
    BY <1>2 DEF Start, Keeps, Good, SipRecord
  <2> QED
    BY <2>1 DEF Watching
<1> QED
  BY <1>1, <1>3, <1>4, <1>5, HoldsOn, Numbers

(***************************************************************************)
(* Fallback blocks                                                         *)
(***************************************************************************)
LEMMA CleanHolds ==
    ASSUME NEW s, Good(s), NEW I, I \subseteq Slots
    PROVE  Holds(s, CleanFallbackCcb(s, I))
<1> DEFINE ccb == [i \in DOMAIN s.ccb |-> IF i \in I THEN NewCcb("NONE", None) ELSE s.ccb[i]]
           q == [n \in DOMAIN s.q |->
                   IF s.q[n].cmd \in {"RETRY_EXPIRED", "WAIT_EXPIRED"} /\ s.q[n].idx \in I
                   THEN [s.q[n] EXCEPT !.idx = Freed] ELSE s.q[n]]
           t == CleanFallbackCcb(s, I)
<1>1. /\ s \in SipRecord /\ s.ccb \in [Idx -> Ccb] /\ s.q \in Seq(GoodMessage) /\ Backup \in Idx
      /\ Backup \notin Slots /\ Freed # Backup
  BY Numbers DEF Good, SipRecord
<1>2. ccb[Backup] = s.ccb[Backup]
  BY <1>1
<1>3. ASSUME NEW n \in DOMAIN s.q
      PROVE  /\ Plain(s.q[n]) => Plain(q[n])
             /\ Asks(s.q[n], s.stb) => q[n] = s.q[n]
  <2>1. s.q[n] \in Message
    BY <1>1 DEF GoodMessage
  <2>2. CASE s.q[n].cmd \in {"RETRY_EXPIRED", "WAIT_EXPIRED"} /\ s.q[n].idx \in I
    <3>1. q[n] = [s.q[n] EXCEPT !.idx = Freed]
      BY <2>2
    <3>2. q[n].cmd = s.q[n].cmd
      BY <2>1, <3>1 DEF Message
    <3> HIDE DEF q
    <3> QED
      BY <2>2, <3>2 DEF Plain, Asks
  <2>3. CASE ~(s.q[n].cmd \in {"RETRY_EXPIRED", "WAIT_EXPIRED"} /\ s.q[n].idx \in I)
    BY <2>3
  <2> QED
    BY <2>2, <2>3
<1>4. t = [s EXCEPT !.avail = s.avail \cup I, !.tmr = s.tmr \ ({"retry", "wait"} \X I),
                    !.ccb = ccb, !.fbCcb = IF s.fbCcb \in I THEN Freed ELSE s.fbCcb, !.q = q]
  BY DEF CleanFallbackCcb
<1>5. DOMAIN q = DOMAIN s.q
  OBVIOUS
<1> HIDE DEF ccb, q, t
<1>6. t.stb = s.stb /\ t.ccb = ccb /\ t.q = q /\ t.tmr = s.tmr \ ({"retry", "wait"} \X I)
  BY <1>1, <1>4 DEF SipRecord
<1>7. Clean(s) => Clean(t)
  BY <1>3, <1>5, <1>6 DEF Clean
<1>8. SetUp(s) => SetUp(t)
  BY <1>2, <1>6 DEF SetUp
<1>9. Watching(s) => Watching(t)
  BY <1>3, <1>5, <1>6 DEF Watching
<1> QED
  BY <1>6, <1>7, <1>8, <1>9 DEF Holds, t

LEMMA FreeHolds ==
    ASSUME NEW s, Good(s), NEW i
    PROVE  Holds(s, FreeFallbackCcb(s, i)) /\ Holds(s, FreeFallbackCcbList(s))
<1>1. {i} \cap Monitored(s) \subseteq Slots /\ Monitored(s) \subseteq Slots
  BY DEF Monitored
<1> DEFINE t == CleanFallbackCcb(s, Monitored(s))
<1>2. Holds(s, t) /\ Good(t)
  BY <1>1, CleanHolds, CleanGood
<1> HIDE DEF t
<1>3. Holds(t, [t EXCEPT !.list = FALSE])
  BY <1>2, ScalarsHold
<1> QED
  BY <1>1, <1>2, <1>3, CleanHolds, HoldsOn DEF FreeFallbackCcb, FreeFallbackCcbList, t

LEMMA CreateHolds ==
    ASSUME NEW s, Good(s), NEW c PROVE Holds(s, CreateFallbackCcb(s, c))
<1>1. CASE FallbackCcbOf(s, c) # {} \/ s.avail = {}
  BY <1>1, HoldsSelf DEF CreateFallbackCcb
<1>2. CASE ~(FallbackCcbOf(s, c) # {} \/ s.avail = {})
  <2> DEFINE i == CHOOSE n \in s.avail : \A k \in s.avail : n <= k
             b == IF s.list THEN NewCcb(PreFallback, c) ELSE s.ccb[i]
             a == s.avail \ {i}
             t == [s EXCEPT !.avail = a, !.ccb[i] = b]
  <2>1. s \in SipRecord /\ s.avail \subseteq Slots /\ s.ccb \in [Idx -> Ccb]
    BY DEF Good, SipRecord
  <2>2. i \in s.avail
    <3>1. s.avail \subseteq Nat /\ s.avail # {}
      BY <1>2, <2>1, Numbers
    <3>2. \E n \in s.avail : \A k \in s.avail : n <= k
      BY <3>1, LeastNumber
    <3> QED
      BY <3>2
  <2>3. CreateFallbackCcb(s, c) = t
    BY <1>2 DEF CreateFallbackCcb
  <2> HIDE DEF i, b, a
  <2>4. i \in Idx /\ i # Backup /\ Backup \in Idx
    BY <2>1, <2>2, Numbers
  <2>5. t.stb = s.stb /\ t.q = s.q /\ t.tmr = s.tmr /\ t.ccb = [s.ccb EXCEPT ![i] = b]
    BY <2>1 DEF SipRecord
  <2>6. t.ccb[Backup] = s.ccb[Backup]
    BY <2>1, <2>4, <2>5
  <2> HIDE DEF t
  <2> QED
    BY <2>3, <2>5, <2>6, SameHolds
<1> QED
  BY <1>1, <1>2

LEMMA TriggerHolds == ASSUME NEW s, Good(s) PROVE Holds(s, TriggerFallbackMonitor(s))
<1> DEFINE New == {i \in Monitored(s) : s.ccb[i].st = PreFallback}
           ccb == [i \in DOMAIN s.ccb |->
                     IF i \in New THEN [s.ccb[i] EXCEPT !.st = "IN_FALLBACK", !.trx = TRUE, !.retx = 0]
                     ELSE s.ccb[i]]
           t == TriggerFallbackMonitor(s)
<1>1. s \in SipRecord /\ s.ccb \in [Idx -> Ccb] /\ New \subseteq Slots /\ Backup \in Idx /\ Backup \notin Slots
  BY Numbers DEF Good, SipRecord, Monitored
<1>2. t = [s EXCEPT !.ccb = ccb, !.tmr = s.tmr \cup ({"retry"} \X New)]
  BY DEF TriggerFallbackMonitor
<1> HIDE DEF New
<1>3. ccb[Backup] = s.ccb[Backup]
  BY <1>1
<1> HIDE DEF ccb, t
<1>4. t.stb = s.stb /\ t.q = s.q /\ t.ccb = ccb /\ t.tmr = s.tmr \cup ({"retry"} \X New)
  BY <1>1, <1>2 DEF SipRecord
<1>5. Holds(s, t)
  BY <1>3, <1>4, SameHolds
<1> QED
  BY <1>5 DEF t

(***************************************************************************)
(* The next call manager                                                   *)
(***************************************************************************)
LEMMA NextAfterLater ==
    ASSUME NEW c \in Entry, NextAfter(c) # None PROVE NextAfter(c) # c
BY Numbers DEF NextAfter

LEMMA NoStandbySets ==
    ASSUME NEW s, Good(s)
    PROVE  LET t == NoStandby(s)
           IN  t.stb = s.stb /\ t.ccb[Backup].st = "IDLE" /\ (Clean(s) => Clean(t))
<1> DEFINE s1 == SetRegState(s, "NO_STANDBY")
           s2 == CallCleanup(s1, Backup)
           s3 == Stop(s2, "expires", Backup)
           s4 == StopAck(s3, Backup)
<1>1. NoStandby(s) = s4
  BY DEF NoStandby
<1>2. Good(s1) /\ Holds(s, s1)
  BY ScalarsKeep, ScalarsHold DEF Keeps, RegStates
<1> HIDE DEF s1
<1>3. Good(s2) /\ s2.stb = s1.stb /\ s2.ccb[Backup].st = "IDLE" /\ (Clean(s1) => Clean(s2))
  BY <1>2, LineLive, CallCleanupKeeps, CallCleanupBackup DEF Keeps
<1> HIDE DEF s2
<1>4. Good(s3) /\ Holds(s2, s3) /\ s3.ccb = s2.ccb
  BY <1>3, StopKeeps, StopHolds, StopRight DEF Keeps
<1> HIDE DEF s3
<1>5. Holds(s3, s4) /\ s4.ccb = s3.ccb
  BY <1>4, AckHolds, StopRight DEF StopAck
<1> HIDE DEF s4
<1> QED
  BY <1>1, <1>2, <1>3, <1>4, <1>5 DEF Holds

(* A block that is idle is right for no standby at all. *)
LEMMA NoneRight ==
    ASSUME NEW s, Good(s), Clean(s), s.ccb[Backup].st = "IDLE"
    PROVE  Settled([s EXCEPT !.stb = None])
<1> DEFINE t == [s EXCEPT !.stb = None]
<1>1. t.stb = None /\ t.ccb = s.ccb /\ t.q = s.q /\ t.tmr = s.tmr
  BY DEF Good, SipRecord
<1> HIDE DEF t
<1>2. SetUp(t) /\ Clean(t)
  BY <1>1 DEF SetUp, Clean
<1> QED
  BY <1>1, <1>2 DEF Settled, Right, t

(* The standby failed: the next one is asked, or none is left. *)
LEMMA NextStandbySettles ==
    ASSUME NEW s, Good(s), Right(s), s.stb # None PROVE Settled(NextStandby(s))
<1> DEFINE c == s.ccb[Backup].entry
           s1 == CreateFallbackCcb(s, c)
           n == NextAfter(c)
           s2 == NoStandby(s1)
           s3 == SetupNewStandby(s1, n)
<1>1. c \in Entry /\ n \in Entry /\ c # None
  BY NextAfterEntry, Numbers DEF Good, SipRecord, Ccb, Right, SetUp
<1>2. NextStandby(s) = IF n = None THEN [s2 EXCEPT !.stb = None] ELSE Send(s3, "CANCEL", Backup)
  BY <1>1 DEF NextStandby
<1>3. Good(s1) /\ Clean(s1)
  BY <1>1, CreateKeeps, CreateHolds, HoldsRight DEF Keeps, Right
<1> HIDE DEF s1, n, c
<1>4. CASE n = None
  <2>1. Good(s2) /\ s2.ccb[Backup].st = "IDLE" /\ Clean(s2)
    BY <1>3, NoStandbyKeeps, NoStandbySets DEF Keeps
  <2> HIDE DEF s2
  <2> QED
    BY <1>2, <1>4, <2>1, NoneRight
<1>5. CASE n # None
  <2>1. Good(s3) /\ Right(s3)
    BY <1>1, <1>3, <1>5, SetupNewStandbyKeeps, SetupNewStandbySets DEF Keeps, Right
  <2> HIDE DEF s3
  <2> QED
    BY <1>2, <1>5, <2>1, SendCancelSettles
<1> QED
  BY <1>4, <1>5

(* The standby becomes the active one, and another the standby: the block  *)
(* is not yet set up for it.                                               *)
LEMMA NextActiveSets ==
    ASSUME NEW s, Good(s), Right(s), NEW i \in Idx
    PROVE  LET t == NextActive(s, i)
           IN  /\ Clean(t) /\ (SetUp(t) \/ (t.stb # None /\ t.act # None))
               /\ t.stb = s.stb /\ s.stb # None => t = s
<1> DEFINE s1 == CreateFallbackCcb(s, s.ccb[i].entry)
           n == IF s1.stb = None THEN None ELSE NextAfter(s1.stb)
           s2 == [s1 EXCEPT !.act = s1.stb, !.stb = n]
           s3 == NoStandby(s2)
           s4 == SetRegState(s2, "NO_CC")
<1>1. s.ccb[i].entry \in Entry
  BY DEF Good, SipRecord, Ccb
<1>2. Good(s1) /\ Holds(s, s1)
  BY <1>1, CreateKeeps, CreateHolds DEF Keeps
<1>3. NextActive(s, i) = IF s.ccb[i].entry = None THEN s
                         ELSE IF s1.stb = None THEN s4
                         ELSE IF s2.stb = None THEN s3 ELSE s2
  BY DEF NextActive
<1> HIDE DEF s1
<1>4. s1.stb \in Entry /\ n \in Entry /\ (n # None => n # s1.stb) /\ s1 \in SipRecord
  BY <1>2, NextAfterEntry, NextAfterLater, Numbers DEF Good, SipRecord
<1> HIDE DEF n
<1>5. Good(s2)
  <2> DEFINE a == [s1 EXCEPT !.act = s1.stb]
  <2>1. Good(a) /\ s2 = [a EXCEPT !.stb = n]
    BY <1>2, <1>4, ScalarsKeep DEF Keeps
  <2> HIDE DEF a, s2
  <2> QED
    BY <1>4, <2>1, ScalarsKeep DEF Keeps
<1>6. s2.stb = n /\ s2.act = s1.stb /\ s2.q = s1.q /\ s2.ccb = s1.ccb /\ s2.tmr = s1.tmr
  BY <1>4 DEF SipRecord
<1> HIDE DEF s2
<1>7. Right(s1) /\ s1.stb = s.stb
  BY <1>2, HoldsRight
<1>8. Clean(s2)
  BY <1>6, <1>7 DEF Right, Clean
<1>9. CASE s.ccb[i].entry = None
  BY <1>3, <1>9 DEF Right
<1>10. CASE s.ccb[i].entry # None /\ s1.stb = None
  <2>1. n = None
    BY <1>10 DEF n
  <2>2. SetUp(s2)
    BY <1>6, <1>7, <1>10, <2>1 DEF Right, SetUp
  <2>3. Holds(s2, s4)
    BY <1>5, ScalarsHold
  <2> QED
    BY <1>3, <1>7, <1>8, <1>10, <2>2, <2>3 DEF Holds
<1>11. CASE s.ccb[i].entry # None /\ s1.stb # None /\ s2.stb = None
  <2>1. s3.stb = None /\ s3.ccb[Backup].st = "IDLE" /\ Clean(s3)
    BY <1>5, <1>8, <1>11, NoStandbySets
  <2> HIDE DEF s3
  <2>2. SetUp(s3)
    BY <2>1 DEF SetUp
  <2> QED
    BY <1>3, <1>7, <1>11, <2>1, <2>2
<1>12. CASE s.ccb[i].entry # None /\ s1.stb # None /\ s2.stb # None
  BY <1>3, <1>4, <1>6, <1>7, <1>8, <1>12
<1> QED
  BY <1>9, <1>10, <1>11, <1>12

LEMMA RegAllFailHolds == ASSUME NEW s, Good(s) PROVE Holds(s, RegAllFail(s))
<1> DEFINE s1 == FreeFallbackCcbList(s)
<1>1. Good(s1) /\ Holds(s, s1)
  BY FreeGood, FreeHolds
<1>2. RegAllFail(s) = IF call THEN PostApp(s1, "ALL_FAIL") ELSE Start(s1, "allfail", Line)
  BY DEF RegAllFail
<1> HIDE DEF s1
<1>3. Holds(s1, PostApp(s1, "ALL_FAIL")) /\ Holds(s1, Start(s1, "allfail", Line))
  BY <1>1, ScalarsHold, StartHolds
<1> QED
  BY <1>1, <1>2, <1>3, HoldsOn

LEMMA FailoverHolds ==
    ASSUME NEW s, Good(s), NEW i \in Idx, i # Backup
    PROVE  Holds(s, Failover(s, i)) /\ (s.stb # None => SetUp(Failover(s, i)))
<1> DEFINE s1 == Stop(s, "expires", i)
           s2 == StopAck(s1, i)
           s3 == Stop(s2, "msg", i)
           s4 == [s3 EXCEPT !.foEntry = s.act, !.foStarted = TRUE, !.prime = FALSE, !.fbEntry = None]
           s5 == PostApp(s4, "FAILOVER_IND")
<1>1. Failover(s, i) = SetupStandbyAgain(s5)
  BY DEF Failover
<1>2. Good(s1) /\ Holds(s, s1)
  BY StopKeeps, StopHolds DEF Keeps
<1> HIDE DEF s1
<1>3. Good(s2) /\ Holds(s1, s2)
  BY <1>2, AckKeeps, AckHolds DEF Keeps
<1> HIDE DEF s2
<1>4. Good(s3) /\ Holds(s2, s3)
  BY <1>3, StopKeeps, StopHolds DEF Keeps
<1> HIDE DEF s3
<1>5. Good(s4) /\ Holds(s3, s4)
  <2>1. s3 \in SipRecord /\ s.act \in Entry /\ None \in Entry
    BY <1>4, Numbers DEF Good, SipRecord
  <2>2. s4 \in SipRecord /\ SameBlocks(s3, s4)
    BY <2>1 DEF SipRecord, SameBlocks
  <2>3. Holds(s3, s4)
    BY <1>4, ScalarsHold
  <2> HIDE DEF s4
  <2> QED
    BY <1>4, <2>2, <2>3, KeepsSame DEF Keeps
<1> HIDE DEF s4
<1>6. Good(s5) /\ Holds(s4, s5)
  BY <1>5, PostAppKeeps, ScalarsHold DEF Keeps, AppEvents
<1> HIDE DEF s5
<1>7. Holds(s, s5)
  BY <1>2, <1>3, <1>4, <1>5, <1>6, HoldsOn
<1>8. Holds(s5, SetupStandbyAgain(s5)) /\ (s5.stb # None => SetUp(SetupStandbyAgain(s5)))
  BY <1>6, SetupStandbyAgainHolds
<1> QED
  BY <1>1, <1>7, <1>8, HoldsOn DEF Holds

(***************************************************************************)
(* The event handlers                                                      *)
(***************************************************************************)
LEMMA EvTmrAckRetryFine ==
    ASSUME NEW s, Good(s), NEW i, Live(s, i)
    PROVE  /\ Fine(s, EvTmrAckRetry(s, i))
           /\ i = Backup /\ Right(s) => Settled(EvTmrAckRetry(s, i))
<1> DEFINE s0 == [s EXCEPT !.ccb[i].retx = 0]
           c == s.ccb[i]
<1>1. /\ i \in Idx /\ c \in Ccb /\ c.entry \in Entry
      /\ i \in {Line, Backup} => c.st \in LineStates
      /\ i \in Slots => c.st \in SlotStates \ {"NONE"}
  BY LiveBlock
<1>2. Good(s0) /\ Live(s0, i) /\ Holds(s, s0)
  <2>1. 0 \in 0 .. MaxRetx
    BY Numbers
  <2>2. Keeps(s, s0)
    BY <2>1, FieldsKeep
  <2> QED
    BY <1>1, <2>2, FieldsHold DEF Keeps
<1>3. SUFFICES ASSUME Right(s)
               PROVE  /\ Fine(s, EvTmrAckRetry(s, i))
                      /\ i = Backup => Settled(EvTmrAckRetry(s, i))
  BY DEF Fine
<1>4. i = Backup => c.st \in {"IDLE", "UNREGISTERING"} /\ (c.st = "IDLE" => s.stb = None)
  BY <1>3 DEF Right, SetUp
<1>5. Right(s0) /\ s0.stb = s.stb
  BY <1>2, <1>3, HoldsRight
<1>6. CASE c.st \in {"REGISTERED", "REGISTERING"} /\ c.entry # s.act
  BY <1>2, <1>4, <1>6, HoldsFine DEF EvTmrAckRetry
<1>7. CASE c.st \in {"REGISTERED", "REGISTERING"} /\ c.entry = s.act
  <2> DEFINE s1 == NextActive(s0, i)
             t == IF s1.act = None THEN RegAllFail(s1) ELSE Failover(s1, i)
  <2>1. EvTmrAckRetry(s, i) = t /\ i # Backup
    BY <1>4, <1>7 DEF EvTmrAckRetry
  <2>2. Good(s1)
    BY <1>1, <1>2, NextActiveKeeps DEF Keeps
  <2> HIDE DEF s0
  <2>3. /\ Clean(s1) /\ (SetUp(s1) \/ (s1.stb # None /\ s1.act # None))
        /\ s1.stb = s0.stb /\ s0.stb # None => s1 = s0
    BY <1>1, <1>2, <1>5, NextActiveSets
  <2> HIDE DEF s1
  <2>4. Holds(s1, t) /\ Right(t)
    <3>1. CASE s1.act = None
      BY <2>2, <2>3, <3>1, RegAllFailHolds, HoldsRight DEF Right
    <3>2. CASE s1.act # None
      BY <1>1, <2>1, <2>2, <2>3, <3>2, FailoverHolds DEF Right, Holds
    <3> QED
      BY <3>1, <3>2
  <2> HIDE DEF t
  <2>5. s.stb # None /\ t.stb = s.stb /\ Watching(s) => Watching(t)
    BY <1>2, <1>5, <2>3, <2>4 DEF Holds
  <2> QED
    BY <2>1, <2>4, <2>5 DEF Fine
<1>8. CASE c.st = "UNREGISTERING" /\ i = Backup
  <2> DEFINE s1 == StopAck(s0, i)
             s2 == Stop(s1, "msg", i)
             s3 == NextStandby(s2)
  <2>1. EvTmrAckRetry(s, i) = TriggerFallbackMonitor(s3) /\ s.stb # None
    BY <1>3, <1>8 DEF EvTmrAckRetry, Right, SetUp
  <2> HIDE DEF s0
  <2>2. Good(s1) /\ Holds(s0, s1)
    BY <1>2, AckKeeps, AckHolds DEF Keeps
  <2> HIDE DEF s1
  <2>3. Right(s1) /\ s1.stb # None
    BY <1>5, <2>1, <2>2, HoldsRight
  <2>4. Good(s2) /\ Right(s2) /\ s2.stb # None
    BY <2>2, <2>3, StopKeeps, StopRight DEF Keeps
  <2> HIDE DEF s2
  <2>5. Good(s3) /\ Settled(s3)
    BY <2>4, NextStandbyKeeps, NextStandbySettles DEF Keeps
  <2> HIDE DEF s3
  <2>6. Settled(TriggerFallbackMonitor(s3))
    BY <2>5, TriggerHolds, SettledHolds
  <2> QED
    BY <2>1, <2>6, SettledFine
<1>9. CASE c.st = "UNREGISTERING" /\ i # Backup
  <2> DEFINE s1 == IF AllUnregistered(s0) THEN SetRegState(s0, "IDLE") ELSE s0
  <2>1. EvTmrAckRetry(s, i) = CallCleanup(s1, i)
    BY <1>9 DEF EvTmrAckRetry
  <2> HIDE DEF s0
  <2>2. Good(s1) /\ Holds(s0, s1)
    BY <1>2, ScalarsKeep, ScalarsHold, HoldsSelf DEF Keeps, RegStates
  <2> HIDE DEF s1
  <2> QED
    BY <1>1, <1>2, <1>9, <2>1, <2>2, CallCleanupHolds, HoldsOn, HoldsFine
<1>10. CASE c.st \in {"IN_FALLBACK", "TOKEN_WAIT"}
  <2> DEFINE s1 == Put(s0, i, "IN_FALLBACK")
             s2 == SendRegister(s1, i)
             s3 == Start(s2, "retry", i)
  <2>1. EvTmrAckRetry(s, i) = IF s.stb # None /\ s.stb < c.entry THEN FreeFallbackCcb(s0, i) ELSE s3
    BY <1>10 DEF EvTmrAckRetry
  <2>2. i \in Slots /\ i # Backup
    BY <1>1, <1>10, Numbers DEF LineStates
  <2> HIDE DEF s0
  <2>3. Good(s1) /\ Holds(s0, s1) /\ Live(s1, i)
    BY <1>1, <1>2, <2>2, PutKeeps, PutHolds, Numbers DEF SlotStates, Keeps
  <2> HIDE DEF s1
  <2>4. Good(s2) /\ Holds(s1, s2)
    BY <2>3, SendRegisterKeeps, SendRegisterHolds DEF Keeps
  <2> HIDE DEF s2
  <2>5. Holds(s2, s3)
    BY <2>4, StartHolds
  <2>6. Holds(s0, FreeFallbackCcb(s0, i))
    BY <1>2, FreeHolds
  <2>7. Holds(s, EvTmrAckRetry(s, i))
    BY <1>2, <2>1, <2>3, <2>4, <2>5, <2>6, HoldsOn
  <2> QED
    BY <2>2, <2>7, HoldsFine
<1>11. CASE c.st \notin {"REGISTERED", "REGISTERING", "UNREGISTERING", "IN_FALLBACK", "TOKEN_WAIT"}
  <2>1. EvTmrAckRetry(s, i) = s0
    BY <1>11 DEF EvTmrAckRetry
  <2> HIDE DEF s0
  <2>2. i = Backup => s0.stb = None
    BY <1>4, <1>5, <1>11
  <2> QED
    BY <1>2, <1>5, <2>1, <2>2, HoldsFine DEF Settled
<1> QED
  BY <1>6, <1>7, <1>8, <1>9, <1>10, <1>11

LEMMA EvRegmgrDefaultFine ==
    ASSUME NEW s, Good(s), NEW i \in Slots, Live(s, i) PROVE Fine(s, EvRegmgrDefault(s, i))
<1> DEFINE s1 == Put(s, i, "IN_FALLBACK")
<1>1. Keeps(s, s1) /\ Holds(s, s1)
  BY PutKeeps, PutHolds, Numbers DEF SlotStates
<1>2. EvRegmgrDefault(s, i) = EvTmrAckRetry(s1, i)
  BY DEF EvRegmgrDefault
<1> HIDE DEF s1
<1> QED
  BY <1>1, <1>2, EvTmrAckRetryFine, HoldsThenFine DEF Keeps

(* A registration, and its cancellation: that of the standby starts the    *)
(* retransmission timer, which watches it.                                 *)
LEMMA EvRegHolds ==
    ASSUME NEW s, Good(s), NEW i, Live(s, i)
    PROVE  /\ i # Backup => Holds(s, EvRegReq(s, i)) /\ Holds(s, EvRegCancel(s, i))
           /\ Right(s) /\ s.stb # None /\ i = Backup => Settled(EvRegCancel(s, i))
<1> DEFINE s1 == StartAck(s, i)
           s2 == Stop(s1, "expires", i)
           s3 == SendRegister(s2, i)
<1>1. EvRegReq(s, i) = Put(s3, i, "REGISTERING") /\ EvRegCancel(s, i) = Put(s3, i, "UNREGISTERING")
  BY DEF EvRegReq, EvRegCancel
<1>2. Keeps(s, s1) /\ Holds(s, s1)
  BY AckKeeps, AckHolds
<1> HIDE DEF s1
<1>3. Keeps(s1, s2) /\ Holds(s1, s2)
  BY <1>2, StopKeeps, StopHolds DEF Keeps
<1> HIDE DEF s2
<1>4. Keeps(s2, s3) /\ Holds(s2, s3) /\ (i = Backup => Watching(s3))
  BY <1>2, <1>3, SendRegisterKeeps, SendRegisterHolds DEF Keeps
<1> HIDE DEF s3
<1>5. Good(s3) /\ Holds(s, s3) /\ i \in Idx
  BY <1>2, <1>3, <1>4, HoldsOn DEF Keeps, Live
<1>6. ASSUME i # Backup PROVE Holds(s, EvRegReq(s, i)) /\ Holds(s, EvRegCancel(s, i))
  BY <1>1, <1>5, <1>6, PutHolds, HoldsOn
<1>7. ASSUME Right(s), s.stb # None, i = Backup PROVE Settled(EvRegCancel(s, i))
  <2>1. Right(s3) /\ s3.stb # None /\ Watching(s3)
    BY <1>4, <1>5, <1>7, HoldsRight
  <2> DEFINE t == Put(s3, i, "UNREGISTERING")
  <2>2. s3 \in SipRecord /\ s3.ccb[i] \in Ccb /\ s3.ccb[i].st = "UNREGISTERING"
    BY <1>5, <1>7, <2>1 DEF Good, SipRecord, Right, SetUp
  <2>3. t = s3
    BY <1>5, <2>2 DEF Put, SipRecord, Ccb
  <2> QED
    BY <1>1, <2>1, <2>3 DEF Settled
<1> QED
  BY <1>6, <1>7

LEMMA EvIdleCancelFine ==
    ASSUME NEW s, Good(s), NEW i, Live(s, i), s.ccb[i].st = "IDLE"
    PROVE  /\ i # Backup => Holds(s, EvIdleCancel(s, i))
           /\ i = Backup /\ Right(s) => Settled(EvIdleCancel(s, i))
<1> DEFINE s1 == Stop(s, "expires", i)
<1>1. Keeps(s, s1) /\ Holds(s, s1)
  BY StopKeeps, StopHolds
<1>2. EvIdleCancel(s, i) = RegisterCleanup(s1, i, FALSE)
  BY DEF EvIdleCancel
<1> HIDE DEF s1
<1>3. i # Backup => Holds(s1, RegisterCleanup(s1, i, FALSE))
  BY <1>1, RegisterCleanupHolds DEF Keeps
<1>4. ASSUME i = Backup, Right(s) PROVE Settled(RegisterCleanup(s1, i, FALSE))
  <2> DEFINE t == RegisterCleanup(s1, Backup, FALSE)
  <2>1. s1.stb = None /\ Clean(s1)
    BY <1>1, <1>4 DEF Right, SetUp, Holds
  <2>2. t.stb = None /\ Clean(t) /\ t.ccb[Backup].st = "IDLE"
    BY <1>1, <2>1, RegisterCleanupBackup DEF Keeps
  <2> HIDE DEF t
  <2>3. Settled(t)
    BY <2>2 DEF Settled, Right, SetUp
  <2> QED
    BY <1>4, <2>3 DEF t
<1> QED
  BY <1>1, <1>2, <1>3, <1>4, HoldsOn

LEMMA EvTmrRetryFine ==
    ASSUME NEW s, Good(s), NEW i \in {Line, Backup}
    PROVE  /\ Fine(s, EvTmrRetry(s, i))
           /\ i = Backup /\ Right(s) => Settled(EvTmrRetry(s, i))
<1>1. Live(s, i) /\ s.ccb[i].retx \in 0 .. MaxRetx /\ i \in Idx
  BY LineLive, LiveBlock, Numbers DEF Ccb
<1>2. CASE s.ccb[i].retx >= MaxRetx
  BY <1>1, <1>2, EvTmrAckRetryFine DEF EvTmrRetry
<1>3. CASE ~(s.ccb[i].retx >= MaxRetx) /\ s.ccb[i].st = "REGISTERED"
  <2>1. EvTmrRetry(s, i) = s
    BY <1>3 DEF EvTmrRetry
  <2>2. Right(s) => i # Backup
    BY <1>3 DEF Right, SetUp
  <2> QED
    BY <2>1, <2>2, HoldsSelf, HoldsFine
<1>4. CASE ~(s.ccb[i].retx >= MaxRetx) /\ s.ccb[i].st # "REGISTERED"
  <2> DEFINE n == s.ccb[i].retx + 1
             s1 == [s EXCEPT !.ccb[i].retx = n]
             t == Start(s1, "msg", i)
  <2>1. n \in 0 .. MaxRetx
    BY <1>1, <1>4, Numbers
  <2>2. EvTmrRetry(s, i) = t
    BY <1>4 DEF EvTmrRetry
  <2> HIDE DEF n
  <2>3. Good(s1) /\ Holds(s, s1)
    BY <1>1, <2>1, FieldsKeep, FieldsHold DEF Keeps
  <2> HIDE DEF s1
  <2>4. Holds(s1, t) /\ t.tmr = s1.tmr \cup {<<"msg", i>>}
    BY <2>3, StartHolds DEF Good, SipRecord, Start
  <2> HIDE DEF t
  <2>5. Holds(s, t) /\ (i = Backup => Watching(t))
    BY <2>3, <2>4, HoldsOn DEF Watching
  <2> QED
    BY <2>2, <2>5, HoldsFine, HoldsRight DEF Settled
<1> QED
  BY <1>2, <1>3, <1>4

(* The refresh: the backup block, when it has no standby, stays idle.      *)
LEMMA OnTmrExpireFine ==
    ASSUME NEW s, Good(s), NEW i \in {Line, Backup} PROVE Fine(s, OnTmrExpire(s, i))
<1> DEFINE s1 == CallCleanup(s, i)
           t == SendOrCleanup(s1, "REG_REQ", i, TRUE)
<1>1. OnTmrExpire(s, i) \in {s, t} /\ Live(s, i) /\ i \in Idx
  BY LineLive, Numbers DEF OnTmrExpire, EvTmrExpire
<1>2. Good(s1)
  BY <1>1, CallCleanupKeeps DEF Keeps
<1>3. CASE i = Line
  <2>1. Holds(s, s1)
    BY <1>1, <1>3, CallCleanupHolds, Numbers
  <2> HIDE DEF s1
  <2>2. Holds(s1, t)
    BY <1>2, <1>3, SendOrCleanupHolds
  <2> HIDE DEF t
  <2> QED
    BY <1>1, <2>1, <2>2, HoldsOn, HoldsSelf, HoldsFine
<1>4. CASE i = Backup /\ OnTmrExpire(s, i) # s
  <2> SUFFICES ASSUME Right(s) PROVE Settled(t)
    BY <1>1, <1>4, SettledFine
  <2>1. s.stb = None
    BY <1>4 DEF OnTmrExpire, St, Right, SetUp
  <2>2. s1.stb = None /\ Clean(s1) /\ s1.ccb[Backup].entry = None
    BY <1>4, <2>1, CallCleanupBackup DEF Right
  <2> HIDE DEF s1
  <2>3. t = RegisterCleanup(s1, Backup, TRUE)
    BY <1>4, <2>2 DEF SendOrCleanup, CanSend
  <2>4. t.stb = None /\ Clean(t) /\ t.ccb[Backup].st = "IDLE"
    BY <1>2, <2>2, <2>3, RegisterCleanupBackup
  <2> QED
    BY <2>4 DEF Settled, Right, SetUp
<1> QED
  BY <1>3, <1>4, HoldsSelf, HoldsFine

(* The first answer to the line's registration starts the monitoring of    *)
(* the standby.                                                            *)
LEMMA Ev2xxFine ==
    ASSUME NEW s, Good(s) PROVE Fine(s, Ev2xx(s, Line))
<1> DEFINE a == [s EXCEPT !.ccb[Line].reg = TRUE]
           b == Put(a, Line, "REGISTERED")
           s1 == StopAck(b, Line)
           p == PostApp(s1, "REGISTERED")
           s2 == Start(p, "expires", Line)
           s3 == [s2 EXCEPT !.monitor = FALSE]
           s4 == Put(s3, Backup, "UNREGISTERING")
           s5 == Send(s4, "CANCEL", Backup)
<1>1. Ev2xx(s, Line) = IF ~(s.ccb[Line].entry = s.act /\ s.monitor) THEN s2
                       ELSE IF s.stb = None THEN s3 ELSE Start(s5, "expires", Backup)
  BY Numbers DEF Ev2xx, Put
<1>2. Good(a) /\ Holds(s, a) /\ Line \in Idx /\ Line # Backup /\ Backup \in Idx
  BY LineLive, FieldsKeep, FieldsHold, Numbers DEF Keeps
<1> HIDE DEF a
<1>3. Good(b) /\ Holds(a, b)
  BY <1>2, LineLive, PutKeeps, PutHolds, Numbers DEF Keeps, LineStates
<1> HIDE DEF b
<1>4. Good(s1) /\ Holds(b, s1)
  BY <1>3, AckKeeps, AckHolds DEF Keeps
<1> HIDE DEF s1
<1>5. Good(p) /\ Holds(s1, p)
  BY <1>4, PostAppKeeps, ScalarsHold DEF Keeps, AppEvents
<1> HIDE DEF p
<1>6. Good(s2) /\ Holds(p, s2)
  BY <1>5, ExpiresKeeps, StartHolds DEF Keeps
<1> HIDE DEF s2
<1>7. Good(s3) /\ Holds(s2, s3)
  BY <1>6, ScalarsKeep, ScalarsHold DEF Keeps
<1> HIDE DEF s3
<1>8. Holds(s, s2) /\ Holds(s, s3)
  BY <1>2, <1>3, <1>4, <1>5, <1>6, <1>7, HoldsOn
<1>9. ASSUME Right(s), s.stb # None PROVE Settled(Start(s5, "expires", Backup))
  <2>1. Right(s3) /\ s3.stb # None
    BY <1>8, <1>9, HoldsRight
  <2>2. s3 \in SipRecord /\ s3.ccb[Backup] \in Ccb /\ s3.ccb[Backup].st = "UNREGISTERING"
    BY <1>2, <1>7, <2>1 DEF Good, SipRecord, Right, SetUp
  <2>3. s4 = s3
    BY <1>2, <2>2 DEF Put, SipRecord, Ccb
  <2> HIDE DEF s4
  <2>4. Settled(s5) /\ Good(s5)
    BY <1>2, <1>7, <2>1, <2>3, SendCancelSettles, SendCancelKeeps DEF Keeps
  <2> HIDE DEF s5
  <2> QED
    BY <2>4, StartHolds, SettledHolds
<1> HIDE DEF s5
<1> QED
  BY <1>1, <1>8, <1>9, HoldsFine, SettledFine

LEMMA Ev2xxTooShortHolds == ASSUME NEW s, Good(s) PROVE Holds(s, Ev2xxTooShort(s, Line))
<1> DEFINE s1 == StopAck(s, Line)
           s2 == Put(s1, Line, "UNREGISTERING")
           s3 == SendOrCleanup(s2, "CANCEL", Line, FALSE)
<1>1. Ev2xxTooShort(s, Line) = Start(s3, "expires", Line)
  BY DEF Ev2xxTooShort
<1>2. Good(s1) /\ Holds(s, s1)
  BY AckKeeps, AckHolds DEF Keeps
<1> HIDE DEF s1
<1>3. Good(s2) /\ Holds(s1, s2)
  BY <1>2, LineLive, PutKeeps, PutHolds, Numbers DEF Keeps, LineStates
<1> HIDE DEF s2
<1>4. Good(s3) /\ Holds(s2, s3)
  BY <1>3, SendOrCleanupKeeps, SendOrCleanupHolds DEF Keeps
<1> HIDE DEF s3
<1>5. Holds(s3, Start(s3, "expires", Line))
  BY <1>4, StartHolds
<1> QED
  BY <1>1, <1>2, <1>3, <1>4, <1>5, HoldsOn

(* A better standby has answered while the old one was asked. *)
LEMMA ReplaceStandbySettles ==
    ASSUME NEW s, Good(s), Clean(s), s.newStb # None PROVE Settled(ReplaceStandby(s))
<1> DEFINE s1 == SetupNewStandby(s, s.newStb)
           s2 == CleanFallbackCcb(s1, FallbackCcbOf(s1, s.newStb))
           s3 == Send(s2, "CANCEL", Backup)
<1>1. ReplaceStandby(s) = [s3 EXCEPT !.newStb = None] /\ s.newStb \in Entry
  BY DEF ReplaceStandby, Good, SipRecord
<1>2. Good(s1) /\ Right(s1)
  BY <1>1, SetupNewStandbyKeeps, SetupNewStandbySets DEF Keeps, Right
<1> HIDE DEF s1
<1>3. Good(s2) /\ Right(s2)
  <2>1. FallbackCcbOf(s1, s.newStb) \subseteq Slots
    BY DEF FallbackCcbOf, Monitored
  <2> QED
    BY <1>2, <2>1, CleanGood, CleanHolds, HoldsRight
<1> HIDE DEF s2
<1>4. Good(s3) /\ Settled(s3)
  BY <1>3, SendCancelKeeps, SendCancelSettles, Numbers DEF Keeps
<1> HIDE DEF s3
<1> QED
  BY <1>1, <1>4, ScalarsHold, SettledHolds

LEMMA EvUnreg2xxFine ==
    ASSUME NEW s, Good(s), NEW i, Live(s, i)
    PROVE  /\ i # Backup => Holds(s, EvUnreg2xx(s, i))
           /\ i = Backup /\ Right(s) => Settled(EvUnreg2xx(s, i))
<1> DEFINE s0 == [s EXCEPT !.ccb[i].reg = FALSE]
           s1 == StopAck(s0, i)
           r == IF s.newStb = None THEN s1 ELSE ReplaceStandby(s1)
           s2 == Put(s1, i, "IDLE")
<1>1. EvUnreg2xx(s, i) = IF i = Backup THEN Start(r, "keepalive", Backup)
                         ELSE IF AllUnregistered(s2) THEN SetRegState(s2, "IDLE") ELSE s2
  BY DEF EvUnreg2xx
<1>2. Keeps(s, s0) /\ Holds(s, s0) /\ i \in Idx /\ s0.newStb = s.newStb
  BY FieldsKeep, FieldsHold DEF Live, Good, SipRecord
<1> HIDE DEF s0
<1>3. Good(s1) /\ Live(s1, i) /\ Holds(s0, s1) /\ s1.newStb = s0.newStb
  BY <1>2, AckKeeps, AckHolds DEF Keeps, StopAck, Stop, Good, SipRecord
<1> HIDE DEF s1
<1>4. Holds(s, s1)
  BY <1>2, <1>3, HoldsOn
<1>5. ASSUME i # Backup PROVE Holds(s, EvUnreg2xx(s, i))
  <2>1. Good(s2) /\ Holds(s1, s2)
    BY <1>2, <1>3, <1>5, PutKeeps, PutHolds DEF Keeps, LineStates, SlotStates
  <2> HIDE DEF s2
  <2>2. Holds(s2, SetRegState(s2, "IDLE"))
    BY <2>1, ScalarsHold
  <2> QED
    BY <1>1, <1>4, <1>5, <2>1, <2>2, HoldsOn
<1>6. ASSUME i = Backup, Right(s) PROVE Settled(EvUnreg2xx(s, i))
  <2>1. Right(s1)
    BY <1>4, <1>6, HoldsRight
  <2>2. Good(r) /\ Right(r)
    BY <1>2, <1>3, <2>1, ReplaceStandbyGood, ReplaceStandbySettles DEF Right, Settled
  <2> HIDE DEF r
  <2> DEFINE t == Start(r, "keepalive", Backup)
  <2>3. Holds(r, t) /\ t.tmr = r.tmr \cup {<<"keepalive", Backup>>}
    BY <2>2, StartHolds DEF Good, SipRecord, Start
  <2>4. EvUnreg2xx(s, i) = t
    BY <1>1, <1>6
  <2> HIDE DEF t
  <2>5. Right(t) /\ Watching(t)
    BY <2>2, <2>3, HoldsRight DEF Watching
  <2> QED
    BY <2>4, <2>5 DEF Settled
<1> QED
  BY <1>5, <1>6

LEMMA EvRefusedFine ==
    ASSUME NEW s, Good(s), NEW i \in Idx
    PROVE  /\ Holds(s, EvRetryAfter(s, i)) /\ Holds(s, EvFailureResponse(s, i))
           /\ i = Backup => Watching(EvFailureResponse(s, i))
<1>1. Good(StopAck(s, i)) /\ Holds(s, StopAck(s, i))
  BY AckKeeps, AckHolds DEF Keeps
<1>2. Holds(s, EvRetryAfter(s, i))
  BY <1>1, StartHolds, HoldsOn DEF EvRetryAfter
<1>3. Holds(s, EvFailureResponse(s, i))
  BY RegAllFailHolds, StartHolds DEF EvFailureResponse
<1>4. i = Backup => Watching(EvFailureResponse(s, i))
  <2>1. Start(s, "keepalive", Backup).tmr = s.tmr \cup {<<"keepalive", Backup>>}
    BY DEF Start, Good, SipRecord
  <2> QED
    BY <2>1 DEF EvFailureResponse, Watching
<1> QED
  BY <1>2, <1>3, <1>4

(* The keep-alive timer of the standby; a handler that a fallback block    *)
(* reaches too, with Retry-After.                                          *)
LEMMA EvKeepaliveExpireRight ==
    ASSUME NEW s, Good(s), Right(s), NEW i \in Idx
    PROVE  /\ Right(EvKeepaliveExpire(s, i))
           /\ i = Backup => Settled(EvKeepaliveExpire(s, i))
<1> DEFINE s1 == Stop(s, "keepalive", Backup)
<1>1. Good(s1) /\ Right(s1)
  BY StopKeeps, StopRight DEF Keeps
<1>2. EvKeepaliveExpire(s, i) = Send(s1, "CANCEL", i)
  BY DEF EvKeepaliveExpire
<1> HIDE DEF s1
<1>3. Holds(s1, Send(s1, "CANCEL", i))
  BY <1>1, SendHolds, Targets DEF Sendable
<1> QED
  BY <1>1, <1>2, <1>3, HoldsRight, SendCancelSettles

LEMMA RegisterLineHolds ==
    ASSUME NEW s, Good(s)
    PROVE  Holds(s, RegisterLine(s)) /\ (s.stb # None => SetUp(RegisterLine(s)))
<1> DEFINE s1 == SetRegState(s, "REGISTERING")
           s2 == SetupStandbyAgain(s1)
           s3 == CallCleanup(s2, Line)
           s4 == SendOrCleanup(s3, "REG_REQ", Line, TRUE)
<1>1. RegisterLine(s) = s4
  BY DEF RegisterLine
<1>2. Good(s1) /\ Holds(s, s1)
  BY ScalarsKeep, ScalarsHold DEF Keeps, RegStates
<1> HIDE DEF s1
<1>3. Good(s2) /\ Holds(s1, s2) /\ (s1.stb # None => SetUp(s2))
  BY <1>2, SetupStandbyAgainKeeps, SetupStandbyAgainHolds DEF Keeps
<1> HIDE DEF s2
<1>4. Good(s3) /\ Holds(s2, s3)
  BY <1>3, LineLive, CallCleanupKeeps, CallCleanupHolds, Numbers DEF Keeps
<1> HIDE DEF s3
<1>5. Holds(s3, s4)
  BY <1>4, SendOrCleanupHolds
<1> HIDE DEF s4
<1>6. Holds(s, s4)
  BY <1>2, <1>3, <1>4, <1>5, HoldsOn
<1>7. s.stb # None => SetUp(s4)
  BY <1>2, <1>3, <1>4, <1>5 DEF Holds
<1> QED
  BY <1>1, <1>6, <1>7

LEMMA RegisterLinesHold ==
    ASSUME NEW s, Good(s), NEW primeOnly
    PROVE  /\ Holds(s, RegisterLines(s, primeOnly))
           /\ Holds(s, RegisterAllLines(s)) /\ SetUp(RegisterAllLines(s))
<1> DEFINE s1 == IF ~primeOnly /\ s.ccb[Line].reg THEN PostApp(s, "REGISTERED") ELSE s
           c == CallCleanup(s, Backup)
<1>1. /\ RegisterLines(s, primeOnly) = IF s.prime /\ ~primeOnly THEN s1 ELSE RegisterLine(s1)
      /\ RegisterAllLines(s) = RegisterLine(c)
  BY DEF RegisterLines, RegisterAllLines
<1>2. Good(s1) /\ Holds(s, s1)
  BY PostAppKeeps, ScalarsHold, HoldsSelf DEF Keeps, AppEvents
<1> HIDE DEF s1
<1>3. Holds(s, RegisterLine(s1))
  BY <1>2, RegisterLineHolds, HoldsOn
<1>4. /\ Good(c) /\ c.stb = s.stb /\ (Clean(s) => Clean(c)) /\ (Watching(s) => Watching(c))
      /\ c.ccb[Backup].st = "IDLE"
  BY LineLive, CallCleanupKeeps, CallCleanupBackup DEF Keeps
<1> HIDE DEF c
<1>5. Holds(c, RegisterLine(c)) /\ (c.stb # None => SetUp(RegisterLine(c)))
  BY <1>4, RegisterLineHolds
<1>6. SetUp(RegisterLine(c))
  BY <1>4, <1>5 DEF Holds, SetUp
<1>7. Holds(s, RegisterLine(c))
  BY <1>4, <1>5, <1>6 DEF Holds
<1> QED
  BY <1>1, <1>2, <1>3, <1>6, <1>7

LEMMA RegisterCancelHolds == ASSUME NEW s, Good(s) PROVE Holds(s, RegisterCancel(s))
<1> DEFINE s1 == SetRegState(s, "UNREGISTERING")
           s2 == Stop(s1, "expires", Line)
           s3 == StopAck(s2, Line)
           s4 == SendOrCleanup(s3, "CANCEL", Line, FALSE)
<1>1. RegisterCancel(s) = IF s.rstate = "IDLE" THEN s ELSE s4
  BY DEF RegisterCancel
<1>2. Good(s1) /\ Holds(s, s1)
  BY ScalarsKeep, ScalarsHold DEF Keeps, RegStates
<1> HIDE DEF s1
<1>3. Good(s2) /\ Holds(s1, s2)
  BY <1>2, StopKeeps, StopHolds DEF Keeps
<1> HIDE DEF s2
<1>4. Good(s3) /\ Holds(s2, s3)
  BY <1>3, AckKeeps, AckHolds DEF Keeps
<1> HIDE DEF s3
<1>5. Holds(s3, s4)
  BY <1>4, SendOrCleanupHolds
<1> HIDE DEF s4
<1> QED
  BY <1>1, <1>2, <1>3, <1>4, <1>5, HoldsOn, HoldsSelf

(***************************************************************************)
(* A failed call manager answers                                           *)
(***************************************************************************)
LEMMA SendReferHolds == ASSUME NEW s, Good(s), NEW i \in Idx PROVE Holds(s, SendRefer(s, i))
BY FieldsHold DEF SendRefer

LEMMA SlotNumbers == \A i \in Slots : i \in Idx /\ i # Backup
BY Numbers

(* It becomes the standby if it comes before the one there is. *)
LEMMA CheckAndTransitionFine ==
    ASSUME NEW s, Good(s), NEW i \in Slots, Live(s, i) PROVE Fine(s, CheckAndTransition(s, i))
<1> DEFINE c == s.ccb[i].entry
           p == Put(s, i, "TOKEN_WAIT")
           r == SendRefer(p, i)
           m == [s EXCEPT !.newStb = IF s.newStb = None \/ s.newStb > c THEN c ELSE s.newStb]
           t1 == SetupNewStandby(s, c)
           t2 == FreeFallbackCcb(t1, i)
<1>1. s.act \in Entry /\ c \in Entry
  BY LiveBlock DEF Good, SipRecord
<1>2. s.act \in Int /\ c \in Int /\ None \in Int
  BY <1>1, Numbers
<1>3. CASE s.act = None
  BY <1>3, ScalarsHold, HoldsFine DEF CheckAndTransition
<1>4. CASE s.act # None /\ s.act > c
  <2>1. CheckAndTransition(s, i) = IF ~call /\ s.fbEntry = None THEN Start(r, "retry", i)
                                   ELSE Start(s, "retry", i)
    BY <1>2, <1>4 DEF CheckAndTransition
  <2>2. Good(p) /\ Holds(s, p) /\ Live(p, i)
    BY PutKeeps, PutHolds, SlotNumbers, Numbers DEF SlotStates, Keeps
  <2> HIDE DEF p
  <2>3. Good(r) /\ Holds(p, r)
    BY <2>2, SendReferKeeps, SendReferHolds, SlotNumbers DEF Keeps
  <2> HIDE DEF r
  <2>4. Holds(r, Start(r, "retry", i)) /\ Holds(s, Start(s, "retry", i))
    BY <2>3, StartHolds
  <2> QED
    BY <2>1, <2>2, <2>3, <2>4, HoldsOn, HoldsFine
<1>5. CASE s.act # None /\ s.act = c
  BY <1>2, <1>5, HoldsSelf, HoldsFine DEF CheckAndTransition
<1>6. CASE s.act # None /\ s.act < c
  <2>1. CheckAndTransition(s, i) = IF s.stb # None /\ s.stb < c THEN FreeFallbackCcb(s, i)
                                   ELSE IF s.stb # None /\ s.ccb[Backup].trx THEN m
                                   ELSE Send(t2, "CANCEL", Backup)
    BY <1>2, <1>6 DEF CheckAndTransition
  <2>2. c # None
    BY <1>1, <1>6, Numbers
  <2>3. Fine(s, m) /\ Fine(s, FreeFallbackCcb(s, i))
    BY ScalarsHold, FreeHolds, HoldsFine
  <2> HIDE DEF m
  <2>4. ASSUME Right(s) PROVE Settled(Send(t2, "CANCEL", Backup))
    <3>1. Good(t1) /\ Right(t1)
      BY <1>1, <2>2, <2>4, SetupNewStandbyKeeps, SetupNewStandbySets DEF Keeps, Right
    <3> HIDE DEF t1
    <3>2. Good(t2) /\ Right(t2)
      BY <3>1, FreeGood, FreeHolds, HoldsRight
    <3> HIDE DEF t2
    <3> QED
      BY <3>2, SendCancelSettles
  <2> HIDE DEF t2
  <2>5. Fine(s, Send(t2, "CANCEL", Backup))
    BY <2>4, SettledFine
  <2> QED
    BY <2>1, <2>3, <2>5
<1> QED
  BY <1>2, <1>3, <1>4, <1>5, <1>6

LEMMA InFallbackFine ==
    ASSUME NEW s, Good(s), NEW i \in Slots, Live(s, i)
    PROVE  Fine(s, EvInFallback2xx(s, i)) /\ Holds(s, EvFallbackRetry(s, i))
<1> DEFINE s1 == StopAck(s, i)
           s2 == Stop(s1, "retry", i)
<1>1. EvInFallback2xx(s, i) = CheckAndTransition(s2, i) /\ EvFallbackRetry(s, i) = Start(s1, "retry", i)
  BY DEF EvInFallback2xx, EvFallbackRetry
<1>2. Keeps(s, s1) /\ Holds(s, s1)
  BY AckKeeps, AckHolds
<1> HIDE DEF s1
<1>3. Keeps(s1, s2) /\ Holds(s1, s2)
  BY <1>2, StopKeeps, StopHolds DEF Keeps
<1> HIDE DEF s2
<1>4. Fine(s2, CheckAndTransition(s2, i))
  BY <1>2, <1>3, CheckAndTransitionFine DEF Keeps
<1>5. Fine(s, CheckAndTransition(s2, i))
  BY <1>2, <1>3, <1>4, HoldsOn, HoldsThenFine
<1>6. Holds(s1, Start(s1, "retry", i))
  BY <1>2, StartHolds DEF Keeps
<1> QED
  BY <1>1, <1>2, <1>5, <1>6, HoldsOn

(* The timer for a call manager that is busy runs only after Retry-After. *)
LEMMA TokenHolds ==
    ASSUME NEW s, Good(s), NEW i \in Slots, Live(s, i), NEW busy, busy => "retry" \in Responses
    PROVE  /\ Holds(s, EvTokenWait2xx(s, i)) /\ Holds(s, EvTokenWaitRefused(s, i, busy))
           /\ Holds(s, EvTokenWaitTmrWait(s, i))
<1> DEFINE s0 == StopAck(s, i)
           s1 == Stop(s0, "wait", i)
           f == [s1 EXCEPT !.fbEntry = s.ccb[i].entry, !.isResp = FALSE, !.fbCcb = i]
           g == PostApp(f, "FALLBACK_IND")
           p == Put(s1, i, "IN_FALLBACK")
           r == SendRefer(s, i)
           w == Start(s1, "wait", i)
<1>1. /\ EvTokenWait2xx(s, i) = IF s.fbEntry = None THEN g ELSE Start(p, "retry", i)
      /\ EvTokenWaitRefused(s, i, busy) = IF busy THEN w ELSE Start(p, "retry", i)
      /\ EvTokenWaitTmrWait(s, i) = Start(r, "retry", i)
  BY DEF EvTokenWait2xx, EvTokenWaitRefused, EvTokenWaitTmrWait
<1>2. Keeps(s, s0) /\ Holds(s, s0)
  BY AckKeeps, AckHolds
<1> HIDE DEF s0
<1>3. Keeps(s0, s1) /\ Holds(s0, s1)
  BY <1>2, StopKeeps, StopHolds DEF Keeps
<1> HIDE DEF s1
<1>4. Good(s1) /\ Live(s1, i) /\ Holds(s, s1)
  BY <1>2, <1>3, HoldsOn DEF Keeps
<1>5. Holds(s, g)
  <2>1. s1 \in SipRecord
    BY <1>4 DEF Good
  <2>2. g.stb = s1.stb /\ g.q = s1.q /\ g.ccb = s1.ccb /\ g.tmr = s1.tmr
    BY <2>1 DEF SipRecord, PostApp
  <2> HIDE DEF g
  <2>3. Holds(s1, g)
    BY <2>2, SameHolds
  <2> QED
    BY <1>4, <2>3, HoldsOn
<1>6. Good(p) /\ Holds(s1, p)
  BY <1>4, PutKeeps, PutHolds, SlotNumbers, Numbers DEF SlotStates, Keeps
<1> HIDE DEF p
<1>7. Good(r) /\ Holds(s, r)
  BY SendReferKeeps, SendReferHolds, SlotNumbers DEF Keeps
<1> HIDE DEF r
<1>8. busy => Holds(s1, w)
  <2>1. w.stb = s1.stb /\ w.q = s1.q /\ w.ccb = s1.ccb /\ w.tmr = s1.tmr \cup {<<"wait", i>>}
    BY <1>4 DEF Start, Good, SipRecord
  <2> HIDE DEF w
  <2>2. busy /\ Clean(s1) => Clean(w)
    BY <2>1 DEF Clean
  <2>3. (SetUp(s1) => SetUp(w)) /\ (Watching(s1) => Watching(w))
    BY <2>1 DEF SetUp, Watching
  <2> QED
    BY <2>1, <2>2, <2>3 DEF Holds
<1> HIDE DEF w, g, f
<1>9. Holds(p, Start(p, "retry", i)) /\ Holds(r, Start(r, "retry", i))
  BY <1>6, <1>7, StartHolds
<1>10. Holds(s, Start(p, "retry", i)) /\ Holds(s, Start(r, "retry", i)) /\ (busy => Holds(s, w))
  BY <1>4, <1>6, <1>7, <1>8, <1>9, HoldsOn
<1> QED
  BY <1>1, <1>5, <1>10

(* The phone falls back: the call manager it leaves becomes the standby.   *)
LEMMA EvCleanupSettles ==
    ASSUME NEW s, Good(s), Right(s), NEW i \in Idx PROVE Settled(EvCleanup(s, i))
<1> DEFINE old == s.ccb[Line].entry
           s0 == SetupNewActive(s, s.ccb[i].entry)
           s1 == FreeFallbackCcb(s0, i)
           a == RegisterAllLines(s1)
           b == RegisterLines(s1, TRUE)
           s2 == IF s.isResp THEN [a EXCEPT !.fbEntry = None] ELSE [b EXCEPT !.prime = TRUE]
           s3 == IF old = None THEN s2 ELSE SetupNewStandby(s2, old)
<1>1. EvCleanup(s, i) = Send(s3, "CANCEL", Backup)
  BY DEF EvCleanup
<1>2. old \in Entry /\ s.ccb[i].entry \in Entry
  BY Numbers DEF Good, SipRecord, Ccb
<1>3. Good(s0) /\ Holds(s, s0)
  BY <1>2, SetupNewActiveKeeps, SetupNewActiveHolds DEF Keeps
<1> HIDE DEF s0
<1>4. Good(s1) /\ Holds(s0, s1)
  BY <1>3, FreeGood, FreeHolds
<1> HIDE DEF s1
<1>5. Good(a) /\ Good(b) /\ Holds(s1, a) /\ Holds(s1, b)
  BY <1>4, RegisterLinesKeep, RegisterLinesHold DEF Keeps
<1> HIDE DEF a, b
<1>6. Good(s2) /\ (Holds(a, s2) \/ Holds(b, s2))
  <2>1. None \in Entry
    BY Numbers
  <2>2. Keeps(a, [a EXCEPT !.fbEntry = None]) /\ Holds(a, [a EXCEPT !.fbEntry = None])
    BY <1>5, <2>1, ScalarsKeep, ScalarsHold
  <2>3. Keeps(b, [b EXCEPT !.prime = TRUE]) /\ Holds(b, [b EXCEPT !.prime = TRUE])
    BY <1>5, ScalarsKeep, ScalarsHold
  <2> QED
    BY <2>2, <2>3 DEF Keeps
<1> HIDE DEF s2
<1>7. Right(s2)
  BY <1>3, <1>4, <1>5, <1>6, HoldsRight
<1>8. Good(s3) /\ Right(s3)
  BY <1>2, <1>6, <1>7, SetupNewStandbyKeeps, SetupNewStandbySets DEF Keeps, Right
<1> HIDE DEF s3
<1> QED
  BY <1>1, <1>8, SendCancelSettles

(***************************************************************************)
(* The state machine: what concerns the standby ends with it being asked,  *)
(* or with another standby or none.                                        *)
(***************************************************************************)
LEMMA BackupKind ==
    ASSUME NEW s, Good(s), Right(s)
    PROVE  /\ s.ccb[Backup].st \in {"IDLE", "UNREGISTERING"}
           /\ s.ccb[Backup].st = "IDLE" <=> s.stb = None
BY DEF Right, SetUp

LEMMA OnCancelFine ==
    ASSUME NEW s, Good(s), NEW i \in Idx
    PROVE  /\ Fine(s, OnCancel(s, i))
           /\ i = Backup /\ Right(s) => Settled(OnCancel(s, i))
<1> SUFFICES ASSUME Right(s)
             PROVE  /\ Fine(s, OnCancel(s, i))
                    /\ i = Backup => Settled(OnCancel(s, i))
  BY DEF Fine
<1>1. CASE St(s, i) = "IDLE"
  BY <1>1, BlockKind, EvIdleCancelFine, HoldsFine, SettledFine DEF OnCancel, St
<1>2. CASE St(s, i) \in {"REGISTERING", "REGISTERED", "UNREGISTERING"}
  BY <1>2, BlockKind, BackupKind, EvRegHolds, HoldsFine, SettledFine DEF OnCancel, St
<1>3. CASE St(s, i) = "IN_FALLBACK"
  BY <1>3, BlockKind, SlotNumbers, SendRegisterHolds, HoldsFine DEF OnCancel, St
<1>4. CASE St(s, i) = "TOKEN_WAIT"
  BY <1>4, BlockKind, SlotNumbers, EvRegmgrDefaultFine DEF OnCancel, St
<1>5. CASE St(s, i) \notin {"IDLE", "REGISTERING", "REGISTERED", "UNREGISTERING", "IN_FALLBACK", "TOKEN_WAIT"}
  BY <1>5, BackupKind, HoldsSelf, HoldsFine DEF OnCancel, St
<1> QED
  BY <1>1, <1>2, <1>3, <1>4, <1>5

LEMMA OnTmrAckFine == ASSUME NEW s, Good(s), NEW i \in Idx PROVE Fine(s, OnTmrAck(s, i))
BY BlockKind, EvTmrAckRetryFine, HoldsSelf, HoldsFine DEF OnTmrAck, St

LEMMA OnTmrRetryFine ==
    ASSUME NEW s, Good(s), NEW i \in Idx
    PROVE  /\ Fine(s, OnTmrRetry(s, i))
           /\ i = Backup /\ Right(s) => Settled(OnTmrRetry(s, i))
<1>1. CASE St(s, i) \in {"REGISTERING", "REGISTERED", "UNREGISTERING"}
  <2>1. CASE i \in Slots
    BY <1>1, <2>1, SlotNumbers, ScalarsHold, HoldsFine DEF OnTmrRetry
  <2>2. CASE i \in {Line, Backup}
    BY <1>1, <2>2, EvTmrRetryFine, Numbers DEF OnTmrRetry
  <2> QED
    BY <2>1, <2>2, Numbers
<1>2. CASE St(s, i) \in {"IN_FALLBACK", "TOKEN_WAIT"}
  BY <1>2, BlockKind, EvTmrAckRetryFine DEF OnTmrRetry, St
<1>3. CASE St(s, i) \notin {"REGISTERING", "REGISTERED", "UNREGISTERING", "IN_FALLBACK", "TOKEN_WAIT"}
  <2>1. OnTmrRetry(s, i) = s
    BY <1>3 DEF OnTmrRetry
  <2>2. i = Backup /\ Right(s) => s.stb = None
    BY <1>3, BackupKind DEF St
  <2> QED
    BY <2>1, <2>2, HoldsSelf, HoldsFine DEF Settled
<1> QED
  BY <1>1, <1>2, <1>3

(* The keep-alive of the standby and, after Retry-After, the timer of a    *)
(* fallback block share one event.                                         *)
LEMMA OnTmrWaitFine ==
    ASSUME NEW s, Good(s), Right(s), NEW i \in Idx
    PROVE  /\ i = Backup => Settled(OnTmrWait(s, i))
           /\ i # Backup /\ "retry" \in Responses => Fine(s, OnTmrWait(s, i))
<1>1. CASE St(s, i) = "UNREGISTERING"
  BY <1>1, EvKeepaliveExpireRight DEF OnTmrWait, Fine, Prompt
<1>2. CASE St(s, i) = "IN_FALLBACK"
  BY <1>2, BlockKind, SlotNumbers, EvRegmgrDefaultFine DEF OnTmrWait, St
<1>3. CASE St(s, i) = "TOKEN_WAIT"
  <2>1. i \in Slots /\ Live(s, i) /\ i # Backup
    BY <1>3, BlockKind, SlotNumbers DEF St
  <2>2. Holds(s, EvTokenWaitTmrWait(s, i))
    <3>1. FALSE => "retry" \in Responses
      OBVIOUS
    <3> QED
      BY <2>1, <3>1, TokenHolds
  <2> QED
    BY <1>3, <2>1, <2>2, HoldsFine DEF OnTmrWait
<1>4. CASE St(s, i) \notin {"UNREGISTERING", "IN_FALLBACK", "TOKEN_WAIT"}
  <2>1. OnTmrWait(s, i) = s
    BY <1>4 DEF OnTmrWait
  <2>2. i = Backup => s.stb = None
    BY <1>4, BackupKind DEF St
  <2> QED
    BY <2>1, <2>2, HoldsSelf, HoldsFine DEF Settled
<1> QED
  BY <1>1, <1>2, <1>3, <1>4

LEMMA OnCleanupFine == ASSUME NEW s, Good(s), NEW i \in Slots PROVE Fine(s, OnCleanup(s, i))
<1>1. i \in Idx
  BY Numbers
<1>2. CASE St(s, i) = "NONE"
  BY <1>2, HoldsSelf, HoldsFine DEF OnCleanup
<1>3. CASE St(s, i) = "TOKEN_WAIT"
  BY <1>1, <1>3, EvCleanupSettles, SettledFine DEF OnCleanup
<1>4. CASE St(s, i) \notin {"NONE", "TOKEN_WAIT"}
  BY <1>1, <1>4, BlockKind, EvRegmgrDefaultFine DEF OnCleanup, St
<1> QED
  BY <1>2, <1>3, <1>4

(* A final response, to the standby one other than Retry-After. *)
LEMMA OnFinalFine ==
    ASSUME NEW s, Good(s), NEW i \in Idx, NEW rsp \in Responses
    PROVE  /\ Fine(s, OnFinal(s, i, rsp))
           /\ i = Backup /\ Right(s) /\ Prompt => Settled(OnFinal(s, i, rsp))
<1> SUFFICES ASSUME Right(s)
             PROVE  /\ Fine(s, OnFinal(s, i, rsp))
                    /\ i = Backup /\ Prompt => Settled(OnFinal(s, i, rsp))
  BY DEF Fine
<1>1. rsp \in {"100", "200", "200min", "4xx", "5xx", "retry"}
  BY RegMgrAssumption
<1>2. CASE St(s, i) = "REGISTERING"
  <2>1. i = Line
    BY <1>2, BlockKind, BackupKind DEF St
  <2>2. i \in Idx /\ i # Backup
    BY <2>1, Numbers
  <2> QED
    BY <1>1, <1>2, <2>1, <2>2, Ev2xxFine, Ev2xxTooShortHolds, EvRefusedFine, HoldsSelf, HoldsFine
       DEF OnFinal
<1>3. CASE St(s, i) = "UNREGISTERING"
  <2>1. Live(s, i)
    BY <1>3, BlockKind DEF St
  <2>2. CASE rsp \in {"200", "200min"}
    BY <1>3, <2>1, <2>2, EvUnreg2xxFine, HoldsFine, SettledFine DEF OnFinal
  <2>3. CASE rsp \in {"4xx", "5xx"}
    <3>1. OnFinal(s, i, rsp) = EvFailureResponse(s, i)
      BY <1>3, <2>3 DEF OnFinal
    <3> QED
      BY <3>1, EvRefusedFine, HoldsFine, HoldsRight DEF Settled
  <2>4. CASE rsp \in {"100", "retry"}
    <3>1. OnFinal(s, i, rsp) \in {s, EvRetryAfter(s, i)} /\ ~Prompt
      BY <1>3, <2>4 DEF OnFinal, Prompt
    <3> QED
      BY <3>1, EvRefusedFine, HoldsSelf, HoldsFine
  <2> QED
    BY <1>1, <2>2, <2>3, <2>4
<1>4. CASE St(s, i) = "IN_FALLBACK"
  BY <1>4, BlockKind, SlotNumbers, InFallbackFine, HoldsFine DEF OnFinal, St
<1>5. CASE St(s, i) = "TOKEN_WAIT"
  <2>1. i \in Slots /\ Live(s, i) /\ i # Backup
    BY <1>5, BlockKind, SlotNumbers DEF St
  <2>2. /\ Holds(s, EvTokenWait2xx(s, i)) /\ Holds(s, EvTokenWaitRefused(s, i, rsp = "retry"))
        /\ Fine(s, EvRegmgrDefault(s, i))
    BY <2>1, TokenHolds, EvRegmgrDefaultFine
  <2> QED
    BY <1>5, <2>1, <2>2, HoldsSelf, HoldsFine DEF OnFinal
<1>6. CASE St(s, i) \notin {"REGISTERING", "UNREGISTERING", "IN_FALLBACK", "TOKEN_WAIT"}
  <2>1. OnFinal(s, i, rsp) = s
    BY <1>6 DEF OnFinal
  <2>2. i = Backup => s.stb = None
    BY <1>6, BackupKind DEF St
  <2> QED
    BY <2>1, <2>2, HoldsSelf, HoldsFine DEF Settled
<1> QED
  BY <1>2, <1>3, <1>4, <1>5, <1>6

(***************************************************************************)
(* The steps                                                               *)
(***************************************************************************)
(* Taking a message may take the one that watches the standby. *)
LEMMA TakingFine ==
    ASSUME Inv, NEW cmd, Take(cmd)
    PROVE  /\ Rest.stb = sip.stb /\ (Right(sip) => Right(Rest) /\ Plain(Head(sip.q)))
           /\ Watching(sip) => Watching(Rest) \/ Asks(Head(sip.q), sip.stb)
<1>1. sip \in SipRecord /\ sip.q \in Seq(GoodMessage) /\ sip.q # <<>>
  BY DEF Inv, Good, SipRecord, Take
<1>2. Rest.stb = sip.stb /\ Rest.q = Tail(sip.q) /\ Rest.ccb = sip.ccb /\ Rest.tmr = sip.tmr
  BY <1>1 DEF Rest, SipRecord
<1>3. /\ Len(sip.q) \in Nat \ {0} /\ DOMAIN sip.q = 1 .. Len(sip.q) /\ Head(sip.q) = sip.q[1]
      /\ DOMAIN Tail(sip.q) = 1 .. Len(sip.q) - 1
      /\ \A n \in 1 .. Len(sip.q) - 1 : Tail(sip.q)[n] = sip.q[n + 1]
  BY <1>1
<1>4. ASSUME Right(sip) PROVE Right(Rest) /\ Plain(Head(sip.q))
  <2>1. Plain(Head(sip.q))
    BY <1>3, <1>4 DEF Right, Clean
  <2>2. ASSUME NEW n \in DOMAIN Rest.q PROVE Plain(Rest.q[n])
    <3>1. n + 1 \in DOMAIN sip.q /\ Rest.q[n] = sip.q[n + 1]
      BY <1>2, <1>3
    <3> QED
      BY <1>4, <3>1 DEF Right, Clean
  <2>3. SetUp(Rest) /\ Clean(Rest)
    BY <1>2, <1>4, <2>2 DEF Right, SetUp, Clean
  <2> QED
    BY <2>1, <2>3 DEF Right
<1>5. ASSUME Watching(sip), ~Asks(Head(sip.q), sip.stb) PROVE Watching(Rest)
  <2>1. CASE \E kind \in {"msg", "keepalive"} : <<kind, Backup>> \in sip.tmr
    BY <1>2, <2>1 DEF Watching
  <2>2. ASSUME NEW n \in DOMAIN sip.q, Asks(sip.q[n], sip.stb) PROVE Watching(Rest)
    <3>1. n \in 2 .. Len(sip.q)
      BY <1>3, <1>5, <2>2
    <3>2. n - 1 \in DOMAIN Rest.q /\ Rest.q[n - 1] = sip.q[n]
      BY <1>2, <1>3, <3>1
    <3> QED
      BY <1>2, <2>2, <3>2 DEF Watching
  <2> QED
    BY <1>5, <2>1, <2>2 DEF Watching
<1> QED
  BY <1>2, <1>4, <1>5

LEMMA TakenFine ==
    ASSUME Inv, NEW cmd, Take(cmd), NEW t,
           Right(sip) => Fine(Rest, t),
           Right(sip) /\ sip.stb # None /\ Asks(Head(sip.q), sip.stb) => Settled(t)
    PROVE  Fine(sip, t)
<1> SUFFICES ASSUME Right(sip)
             PROVE  /\ Right(t)
                    /\ Prompt /\ sip.stb # None /\ t.stb = sip.stb /\ Watching(sip) => Watching(t)
  BY DEF Fine
<1>1. Rest.stb = sip.stb /\ Right(Rest) /\ Fine(Rest, t)
  BY TakingFine
<1>2. Watching(sip) => Watching(Rest) \/ Asks(Head(sip.q), sip.stb)
  BY TakingFine
<1>3. Right(t)
  BY <1>1 DEF Fine
<1>4. ASSUME Prompt, sip.stb # None, t.stb = sip.stb, Watching(sip) PROVE Watching(t)
  <2>1. CASE Asks(Head(sip.q), sip.stb)
    BY <1>4, <2>1 DEF Settled
  <2>2. CASE Watching(Rest)
    BY <1>1, <1>4, <2>2 DEF Fine
  <2> QED
    BY <1>2, <1>4, <2>1, <2>2
<1> QED
  BY <1>3, <1>4

(* The messages that ask the standby: the handler asks it, or gives it up. *)
LEMMA AskingFine ==
    ASSUME Inv, RegCancel \/ StandbyKeepalive \/ TmrRetry \/ MsgExpired
    PROVE  Fine(sip, sip')
<1>1. CASE RegCancel
  <2>1. Take("CANCEL") /\ sip' = OnCancel(Rest, Target)
    BY <1>1 DEF RegCancel, Becomes
  <2>2. Good(Rest) /\ Target \in Idx
    BY <2>1, Taking, Targets
  <2>3. Right(sip) => Right(Rest)
    BY <2>1, TakingFine
  <2>4. Asks(Head(sip.q), sip.stb) => Target = Backup
    BY <2>1 DEF Asks, Take, Target
  <2>5. Fine(Rest, sip') /\ (Target = Backup /\ Right(Rest) => Settled(sip'))
    BY <2>1, <2>2, OnCancelFine
  <2> QED
    BY <2>1, <2>3, <2>4, <2>5, TakenFine
<1>2. CASE StandbyKeepalive
  <2>1. Take("KEEPALIVE") /\ sip' = OnTmrWait(Rest, Backup)
    BY <1>2 DEF StandbyKeepalive, Becomes
  <2>2. Good(Rest) /\ Backup \in Idx
    BY <2>1, Taking, Numbers
  <2>3. Right(sip) => Right(Rest)
    BY <2>1, TakingFine
  <2>4. Right(Rest) => Settled(sip')
    BY <2>1, <2>2, OnTmrWaitFine
  <2>5. Fine(Rest, sip')
    BY <2>4, SettledFine
  <2> QED
    BY <2>1, <2>3, <2>4, <2>5, TakenFine
<1>3. CASE TmrRetry
  <2>1. /\ Take("RETRY")
        /\ sip' = IF Exists(Target) /\ sip.ccb[Target].entry = Head(sip.q).ccm
                  THEN OnTmrRetry(Rest, Target) ELSE Rest
    BY <1>3 DEF TmrRetry, Becomes
  <2>2. Good(Rest) /\ Target \in Idx
    BY <2>1, Taking, Targets
  <2>3. Right(sip) => Right(Rest)
    BY <2>1, TakingFine
  <2>4. Asks(Head(sip.q), sip.stb) => Target = Backup /\ Head(sip.q).ccm = sip.stb
    BY <2>1 DEF Asks, Take, Target
  <2>5. ASSUME Right(sip), sip.stb # None, Asks(Head(sip.q), sip.stb)
        PROVE  sip' = OnTmrRetry(Rest, Backup) /\ Target = Backup
    BY <2>1, <2>4, <2>5 DEF Exists, Right, SetUp
  <2>6. Fine(Rest, OnTmrRetry(Rest, Target)) /\ Fine(Rest, Rest)
    BY <2>2, OnTmrRetryFine, HoldsSelf, HoldsFine
  <2>7. Target = Backup /\ Right(Rest) => Settled(OnTmrRetry(Rest, Backup))
    BY <2>2, OnTmrRetryFine
  <2>8. Fine(Rest, sip')
    BY <2>1, <2>6
  <2> QED
    BY <2>1, <2>3, <2>5, <2>7, <2>8, TakenFine
<1>4. CASE MsgExpired
  <2>1. Take("MSG_EXPIRED") /\ sip' = SendOrCleanup(Rest, "RETRY", Target, TRUE)
    BY <1>4 DEF MsgExpired, Becomes
  <2>2. Good(Rest) /\ Target \in {Line, Backup}
    BY <2>1, Taking, Targets
  <2>3. Right(sip) => Right(Rest)
    BY <2>1, TakingFine
  <2>4. Asks(Head(sip.q), sip.stb) => Target = Backup
    BY <2>1 DEF Asks, Take, Target
  <2>5. Target = Line => Fine(Rest, sip')
    BY <2>1, <2>2, SendOrCleanupHolds, HoldsFine
  <2>6. ASSUME Target = Backup, Right(Rest) PROVE Settled(sip')
    <3>1. CASE CanSend(Rest, Backup)
      <4> DEFINE m == Msg("RETRY", Backup, Rest.ccb[Backup].entry)
      <4>1. sip' = Post(Rest, m)
        BY <2>1, <2>6, <3>1 DEF SendOrCleanup, Send
      <4>2. Rest.ccb[Backup].entry \in Entry /\ Backup \in TargetsOf("RETRY") /\ Backup \in Idx
        BY <2>2, Numbers, Targets DEF Good, SipRecord, Ccb
      <4>3. m \in GoodMessage /\ Plain(m)
        BY <4>2, MessageGood DEF OfAny, Plain, Msg
      <4>4. Rest.stb # None => Asks(m, Rest.stb)
        BY <2>6 DEF Right, SetUp, Asks, Msg
      <4> HIDE DEF m
      <4> QED
        BY <2>2, <2>6, <4>1, <4>3, <4>4, PostHolds, HoldsRight DEF Settled
    <3>2. CASE ~CanSend(Rest, Backup)
      <4>1. sip' = RegisterCleanup(Rest, Backup, TRUE) /\ Rest.stb = None
        BY <2>1, <2>6, <3>2 DEF SendOrCleanup, CanSend, Right, SetUp
      <4>2. sip'.stb = None /\ Clean(sip') /\ sip'.ccb[Backup].st = "IDLE"
        BY <2>2, <2>6, <4>1, RegisterCleanupBackup DEF Right
      <4> QED
        BY <4>2 DEF Settled, Right, SetUp
    <3> QED
      BY <3>1, <3>2
  <2>7. Fine(Rest, sip')
    BY <2>2, <2>5, <2>6, SettledFine
  <2> QED
    BY <2>1, <2>3, <2>4, <2>6, <2>7, TakenFine
<1> QED
  BY <1>1, <1>2, <1>3, <1>4

(* A message that does not ask the standby. *)
Other(cmd) == cmd \notin {"CANCEL", "MSG_EXPIRED", "KEEPALIVE", "RETRY"}

LEMMA OtherFine ==
    ASSUME Inv, NEW cmd, Take(cmd), Other(cmd), NEW t, Right(sip) => Fine(Rest, t)
    PROVE  Fine(sip, t)
<1>1. ~Asks(Head(sip.q), sip.stb)
  BY DEF Take, Other, Asks
<1> QED
  BY <1>1, TakenFine

LEMMA HandlersFine ==
    ASSUME Inv, RegReq \/ RegCleanup \/ TmrAck \/ TmrExpire \/ TmrWait \/ AllFailExpired
    PROVE  Fine(sip, sip')
<1>1. CASE RegReq
  <2> DEFINE s1 == CallCleanup(Rest, Target)
  <2>1. Take("REG_REQ") /\ sip' \in {Rest, EvRegReq(s1, Target)}
    BY <1>1 DEF RegReq, Becomes
  <2>2. Good(Rest) /\ Target \in {Line, Backup}
    BY <2>1, Taking, Targets
  <2>3. ASSUME Right(sip) PROVE Fine(Rest, sip')
    <3>1. Target = Line /\ Line # Backup /\ Line \in Idx
      BY <2>1, <2>2, <2>3, TakingFine, Numbers DEF Plain, Take, Target
    <3>2. Good(s1) /\ Live(s1, Target) /\ Holds(Rest, s1)
      BY <2>2, <3>1, LineLive, CallCleanupKeeps, CallCleanupHolds DEF Keeps
    <3> HIDE DEF s1
    <3>3. Holds(s1, EvRegReq(s1, Target))
      BY <3>1, <3>2, EvRegHolds
    <3> QED
      BY <2>1, <3>2, <3>3, HoldsOn, HoldsSelf, HoldsFine
  <2> QED
    BY <2>1, <2>3, OtherFine DEF Other
<1>2. CASE RegCleanup
  <2>1. Take("CLEANUP") /\ sip' = OnCleanup(Rest, Target)
    BY <1>2 DEF RegCleanup, Becomes
  <2>2. Fine(Rest, sip')
    BY <2>1, Taking, Targets, OnCleanupFine
  <2> QED
    BY <2>1, <2>2, OtherFine DEF Other
<1>3. CASE TmrAck
  <2>1. Take("TMR_ACK") /\ sip' = OnTmrAck(Rest, Target)
    BY <1>3 DEF TmrAck, Becomes
  <2>2. Fine(Rest, sip')
    BY <2>1, Taking, Targets, OnTmrAckFine, Numbers
  <2> QED
    BY <2>1, <2>2, OtherFine DEF Other
<1>4. CASE TmrExpire
  <2>1. Take("TMR_EXPIRE") /\ sip' = OnTmrExpire(Rest, Target)
    BY <1>4 DEF TmrExpire, Becomes
  <2>2. Fine(Rest, sip')
    BY <2>1, Taking, Targets, OnTmrExpireFine
  <2> QED
    BY <2>1, <2>2, OtherFine DEF Other
<1>5. CASE TmrWait
  <2>1. Take("WAIT") /\ sip' = OnTmrWait(Rest, Target)
    BY <1>5 DEF TmrWait, Becomes
  <2>2. Good(Rest) /\ Target \in Idx /\ Target # Backup
    BY <2>1, Taking, Targets, SlotNumbers
  <2>3. ASSUME Right(sip) PROVE Fine(Rest, sip')
    <3>1. Right(Rest) /\ "retry" \in Responses
      BY <2>1, <2>3, TakingFine DEF Plain, Take
    <3> QED
      BY <2>1, <2>2, <3>1, OnTmrWaitFine
  <2> QED
    BY <2>1, <2>3, OtherFine DEF Other
<1>6. CASE AllFailExpired
  <2>1. Take("ALLFAIL_EXPIRED") /\ sip' = PostApp(Rest, "ALL_FAIL")
    BY <1>6 DEF AllFailExpired, Becomes
  <2>2. Fine(Rest, sip')
    BY <2>1, Taking, ScalarsHold, HoldsFine
  <2> QED
    BY <2>1, <2>2, OtherFine DEF Other
<1> QED
  BY <1>1, <1>2, <1>3, <1>4, <1>5, <1>6

(* The messages with a pointer to a fallback block. *)
LEMMA PointerFine ==
    ASSUME Inv, RetryExpired \/ WaitExpired \/ PhoneIdle \/ PhoneIdleWaited
    PROVE  Fine(sip, sip')
<1>1. ASSUME NEW i \in Slots \cup {Freed}, NEW t, Good(Rest), i \in Slots => Fine(Rest, t),
             Dereference(i, t)
      PROVE  Fine(Rest, sip')
  <2>1. Fine(Rest, Undefined(Rest))
    BY <1>1, ScalarsHold, HoldsFine
  <2> QED
    BY <1>1, <2>1, Numbers DEF Dereference, Becomes
<1>2. CASE RetryExpired
  <2>1. Take("RETRY_EXPIRED") /\ Dereference(Target, Send(Rest, "RETRY", Target))
    BY <1>2 DEF RetryExpired
  <2>2. Good(Rest) /\ Target \in Slots \cup {Freed}
    BY <2>1, Taking, Targets
  <2>3. Target \in Slots => Fine(Rest, Send(Rest, "RETRY", Target))
    BY <2>2, SendHolds, HoldsFine, Targets, Numbers DEF Sendable
  <2>4. Fine(Rest, sip')
    BY <1>1, <2>1, <2>2, <2>3
  <2> QED
    BY <2>1, <2>4, OtherFine DEF Other
<1>3. CASE WaitExpired
  <2> DEFINE s1 == Stop(Rest, "wait", Target)
             m == Msg("WAIT", Target, s1.ccb[Target].entry)
  <2>1. Take("WAIT_EXPIRED") /\ Dereference(Target, Send(s1, "WAIT", Target))
    BY <1>3 DEF WaitExpired
  <2>2. Good(Rest) /\ Target \in Slots \cup {Freed}
    BY <2>1, Taking, Targets
  <2>3. Good(s1) /\ Holds(Rest, s1)
    BY <2>2, StopKeeps, StopHolds DEF Keeps
  <2> HIDE DEF s1
  <2>4. ASSUME Right(sip), Target \in Slots PROVE Fine(Rest, Send(s1, "WAIT", Target))
    <3>1. "retry" \in Responses
      BY <2>1, <2>4, TakingFine DEF Plain, Take
    <3>2. s1.ccb[Target].entry \in Entry /\ Target \in TargetsOf("WAIT")
      BY <2>3, <2>4, Targets, Numbers DEF Good, SipRecord, Ccb
    <3>3. m \in GoodMessage /\ Plain(m)
      BY <3>1, <3>2, MessageGood DEF OfSlot, Plain, Msg
    <3>4. Holds(s1, Post(s1, m)) /\ Holds(s1, s1)
      BY <2>3, <3>3, PostHolds, HoldsSelf
    <3>5. Send(s1, "WAIT", Target) \in {s1, Post(s1, m)}
      BY DEF Send
    <3> HIDE DEF m
    <3> QED
      BY <2>3, <3>4, <3>5, HoldsOn, HoldsFine
  <2>5. Right(sip) => Fine(Rest, sip')
    BY <1>1, <2>1, <2>2, <2>4
  <2> QED
    BY <2>1, <2>5, OtherFine DEF Other
<1>4. sip.fbCcb \in Slots \cup {Freed} /\ (sip.fbCcb \in Slots => Live(sip, sip.fbCcb))
  BY Numbers DEF Inv, Good, SipRecord, Blocks, Live
<1>5. CASE PhoneIdle
  <2> DEFINE s1 == RegisterCancel(Rest)
  <2>1. Take("FALLBACK_START") /\ Dereference(sip.fbCcb, Send(s1, "CLEANUP", sip.fbCcb))
    BY <1>5 DEF PhoneIdle
  <2>2. Good(Rest)
    BY <2>1, Taking
  <2>3. Good(s1) /\ Holds(Rest, s1)
    BY <2>2, RegisterCancelKeeps, RegisterCancelHolds DEF Keeps
  <2> HIDE DEF s1
  <2>4. sip.fbCcb \in Slots => Holds(s1, Send(s1, "CLEANUP", sip.fbCcb))
    BY <2>3, SendHolds, Targets, Numbers DEF Sendable
  <2>5. sip.fbCcb \in Slots => Fine(Rest, Send(s1, "CLEANUP", sip.fbCcb))
    BY <2>3, <2>4, HoldsOn, HoldsFine
  <2>6. Fine(Rest, sip')
    BY <1>1, <1>4, <2>1, <2>2, <2>5
  <2> QED
    BY <2>1, <2>6, OtherFine DEF Other
<1>6. CASE PhoneIdleWaited
  <2> DEFINE s1 == [Rest EXCEPT !.fbEntry = None]
             s2 == SendRefer(s1, sip.fbCcb)
             s3 == Put(s2, sip.fbCcb, "TOKEN_WAIT")
  <2>1. Take("FALLBACK_WAITED") /\ Dereference(sip.fbCcb, s3)
    BY <1>6 DEF PhoneIdleWaited
  <2>2. Good(Rest) /\ Keeps(sip, Rest)
    BY <2>1, Taking
  <2>3. Keeps(Rest, s1) /\ Holds(Rest, s1)
    <3>1. None \in Entry
      BY Numbers
    <3> QED
      BY <2>2, <3>1, ScalarsKeep, ScalarsHold
  <2> HIDE DEF s1
  <2>4. ASSUME sip.fbCcb \in Slots PROVE Fine(Rest, s3)
    <3>1. Good(s1) /\ Live(s1, sip.fbCcb) /\ sip.fbCcb \in Idx /\ sip.fbCcb # Backup
      BY <1>4, <2>2, <2>3, <2>4, SlotNumbers DEF Keeps
    <3>2. Good(s2) /\ Holds(s1, s2)
      BY <3>1, SendReferKeeps, SendReferHolds DEF Keeps
    <3> HIDE DEF s2
    <3>3. Holds(s2, s3)
      BY <3>1, <3>2, PutHolds
    <3> QED
      BY <2>3, <3>2, <3>3, HoldsOn, HoldsFine
  <2> HIDE DEF s3
  <2>5. Fine(Rest, sip')
    BY <1>1, <1>4, <2>1, <2>2, <2>4
  <2> QED
    BY <2>1, <2>5, OtherFine DEF Other
<1> QED
  BY <1>2, <1>3, <1>5, <1>6

LEMMA AnswerFine ==
    ASSUME Inv, FailoverRspStart \/ FailoverRspComplete \/ FallbackRsp PROVE Fine(sip, sip')
<1>1. sip.foEntry \in Entry /\ None \in Entry
  BY Numbers DEF Inv, Good, SipRecord
<1>2. CASE FailoverRspStart
  <2> DEFINE s1 == SetupNewActive(Rest, sip.foEntry)
             s2 == RegisterLines(s1, TRUE)
  <2>1. Take("FAILOVER_START") /\ sip' = [s2 EXCEPT !.prime = TRUE]
    BY <1>2 DEF FailoverRspStart, Becomes
  <2>2. Good(Rest)
    BY <2>1, Taking
  <2>3. Good(s1) /\ Holds(Rest, s1)
    BY <1>1, <2>2, SetupNewActiveKeeps, SetupNewActiveHolds DEF Keeps
  <2> HIDE DEF s1
  <2>4. Good(s2) /\ Holds(s1, s2)
    BY <2>3, RegisterLinesKeep, RegisterLinesHold DEF Keeps
  <2> HIDE DEF s2
  <2>5. Fine(Rest, sip')
    BY <2>1, <2>3, <2>4, ScalarsHold, HoldsOn, HoldsFine
  <2> QED
    BY <2>1, <2>5, OtherFine DEF Other
<1>3. CASE FailoverRspComplete
  <2> DEFINE s1 == [Rest EXCEPT !.foStarted = FALSE]
             s2 == RegisterLines(s1, FALSE)
             s3 == TriggerFallbackMonitor(s2)
  <2>1. Take("FAILOVER_COMPLETE") /\ sip' = [s3 EXCEPT !.prime = FALSE]
    BY <1>3 DEF FailoverRspComplete, Becomes
  <2>2. Good(Rest)
    BY <2>1, Taking
  <2>3. Good(s1) /\ Holds(Rest, s1)
    BY <2>2, ScalarsKeep, ScalarsHold DEF Keeps
  <2> HIDE DEF s1
  <2>4. Good(s2) /\ Holds(s1, s2)
    BY <2>3, RegisterLinesKeep, RegisterLinesHold DEF Keeps
  <2> HIDE DEF s2
  <2>5. Good(s3) /\ Holds(s2, s3)
    BY <2>4, TriggerKeeps, TriggerHolds DEF Keeps
  <2> HIDE DEF s3
  <2>6. Fine(Rest, sip')
    BY <2>1, <2>3, <2>4, <2>5, ScalarsHold, HoldsOn, HoldsFine
  <2> QED
    BY <2>1, <2>6, OtherFine DEF Other
<1>4. CASE FallbackRsp
  <2> DEFINE a == RegisterLines(Rest, FALSE)
             s1 == IF sip.fbEntry = None THEN Rest ELSE [a EXCEPT !.fbEntry = None]
  <2>1. Take("FALLBACK_COMPLETE") /\ sip' = [s1 EXCEPT !.isResp = TRUE, !.prime = FALSE]
    BY <1>4 DEF FallbackRsp, Becomes
  <2>2. Good(Rest)
    BY <2>1, Taking
  <2>3. Good(a) /\ Holds(Rest, a)
    BY <2>2, RegisterLinesKeep, RegisterLinesHold DEF Keeps
  <2> HIDE DEF a
  <2>4. Good(s1) /\ Holds(Rest, s1)
    <3>1. Keeps(a, [a EXCEPT !.fbEntry = None]) /\ Holds(a, [a EXCEPT !.fbEntry = None])
      BY <1>1, <2>3, ScalarsKeep, ScalarsHold
    <3> QED
      BY <2>2, <2>3, <3>1, HoldsOn, HoldsSelf DEF Keeps
  <2> HIDE DEF s1
  <2>5. Holds(s1, [s1 EXCEPT !.isResp = TRUE, !.prime = FALSE])
    BY <2>4, ScalarsHold
  <2>6. Fine(Rest, sip')
    BY <2>1, <2>4, <2>5, HoldsOn, HoldsFine
  <2> QED
    BY <2>1, <2>6, OtherFine DEF Other
<1> QED
  BY <1>2, <1>3, <1>4

LEMMA AppStepHolds == ASSUME Inv, AppStep PROVE Holds(sip, sip')
<1> DEFINE Answers == {"FAILOVER_START", "FAILOVER_COMPLETE", "FALLBACK_START", "FALLBACK_WAITED",
                       "FALLBACK_COMPLETE"}
           Told == \E ev : AppTake(ev) /\ (sip' = Taken \/ \E cmd \in Answers : sip' = Answer(cmd))
<1>1. Told
  <2>1. ASSUME NEW connected \in BOOLEAN, AppFailoverInd(connected) \/ AppRegAllFail(connected)
        PROVE  Told
    BY <2>1 DEF AppFailoverInd, AppRegAllFail, AppBecomes
  <2>2. CASE AppFallbackInd
    BY <2>2 DEF AppFallbackInd, AppBecomes
  <2>3. CASE AppRegistered
    BY <2>3 DEF AppRegistered, AppBecomes
  <2>4. CASE AppSessionCreated
    BY <2>4 DEF AppSessionCreated, AppBecomes
  <2>5. CASE AppSessionClosed
    BY <2>5 DEF AppSessionClosed, AppBecomes
  <2> QED
    BY <2>1, <2>2, <2>3, <2>4, <2>5 DEF AppStep
<1>2. PICK ev : AppTake(ev) /\ (sip' = Taken \/ \E cmd \in Answers : sip' = Answer(cmd))
  BY <1>1
<1>3. Good(Taken) /\ Holds(sip, Taken)
  BY <1>2, TakenKeeps, ScalarsHold DEF AppTake, Taken, Keeps, Inv
<1>4. ASSUME NEW cmd \in Answers PROVE Holds(Taken, Answer(cmd))
  <2>1. Line \in TargetsOf(cmd) /\ cmd \in OfAny /\ None \in Entry
    BY Numbers DEF TargetsOf, OfLine, OfSlot, OfPointer, OfAny
  <2>2. Msg(cmd, Line, None) \in GoodMessage /\ Plain(Msg(cmd, Line, None))
    BY <2>1, MessageGood DEF Plain, Msg
  <2> QED
    BY <1>3, <2>2, PostHolds DEF Answer
<1> QED
  BY <1>2, <1>3, <1>4, HoldsOn

(* A timer that watches the standby expires into a message that asks it.   *)
LEMMA ExpireFine == ASSUME Inv, NEW t \in Timers, Expire(t) PROVE Fine(sip, sip')
<1> DEFINE s1 == Stop(sip, t[1], t[2])
           m == Msg(ExpiryOf[t[1]], t[2], None)
<1>1. /\ t[2] \in TargetsOf(ExpiryOf[t[1]])
      /\ ExpiryOf[t[1]] \in OfLine \cup OfSlot \cup OfPointer \cup OfAny /\ None \in Entry
      /\ ~(ExpiryOf[t[1]] = "REG_REQ") /\ ExpiryOf[t[1]] # "WAIT"
      /\ ExpiryOf[t[1]] = "WAIT_EXPIRED" => t[2] \in Slots /\ t = <<"wait", t[2]>>
      /\ t = <<"msg", Backup>> => ExpiryOf[t[1]] = "MSG_EXPIRED" /\ t[2] = Backup
      /\ t = <<"keepalive", Backup>> => ExpiryOf[t[1]] = "KEEPALIVE"
  <2>1. CASE t \in {"ack", "expires", "msg"} \X {Line, Backup}
    BY <2>1, Numbers, Targets DEF ExpiryOf, OfLine
  <2>2. CASE t \in {"retry", "wait"} \X Slots
    BY <2>2, Numbers, Targets DEF ExpiryOf, OfPointer
  <2>3. CASE t \in {<<"keepalive", Backup>>, <<"allfail", Line>>}
    <3>1. ExpiryOf[t[1]] \in {"KEEPALIVE", "ALLFAIL_EXPIRED"} /\ t[2] \in Idx
      BY <2>3, Numbers DEF ExpiryOf
    <3>2. ExpiryOf[t[1]] \in OfAny /\ TargetsOf(ExpiryOf[t[1]]) = Idx
      BY <3>1 DEF OfAny, TargetsOf, OfLine, OfSlot, OfPointer
    <3>3. t = <<"keepalive", Backup>> => ExpiryOf[t[1]] = "KEEPALIVE"
      BY DEF ExpiryOf
    <3>4. t # <<"msg", Backup>>
      BY <2>3
    <3> QED
      BY <3>1, <3>2, <3>3, <3>4, Numbers
  <2> QED
    BY <2>1, <2>2, <2>3 DEF Timers
<1>2. Good(sip) /\ Good(s1) /\ sip' = Post(s1, m) /\ t \in sip.tmr
  BY StopKeeps DEF Inv, Keeps, Expire
<1>3. m \in GoodMessage /\ m.cmd = ExpiryOf[t[1]] /\ m.idx = t[2]
  BY <1>1, MessageGood DEF Msg
<1>4. ASSUME Right(sip) PROVE Plain(m) /\ Right(s1) /\ s1.stb = sip.stb
  <2>1. m.cmd = "WAIT_EXPIRED" => "retry" \in Responses
    BY <1>1, <1>2, <1>3, <1>4 DEF Right, Clean
  <2>2. Plain(m)
    BY <1>1, <1>3, <2>1 DEF Plain
  <2> QED
    BY <1>2, <1>4, <2>2, StopRight
<1>5. t \in {<<"msg", Backup>>, <<"keepalive", Backup>>} => Asks(m, s1.stb)
  BY <1>1, <1>3 DEF Asks
<1>6. t \notin {<<"msg", Backup>>, <<"keepalive", Backup>>} /\ Watching(sip) => Watching(s1)
  <2>1. s1.stb = sip.stb /\ s1.q = sip.q /\ s1.tmr = sip.tmr \ {<<t[1], t[2]>>}
    BY <1>2 DEF Good, SipRecord, Stop
  <2>2. t = <<t[1], t[2]>>
    BY DEF Timers
  <2> HIDE DEF s1
  <2> QED
    BY <2>1, <2>2 DEF Watching
<1> HIDE DEF s1, m
<1>7. Right(sip) => Holds(s1, sip') /\ (Asks(m, s1.stb) => Watching(sip'))
  BY <1>2, <1>3, <1>4, PostHolds
<1> QED
  BY <1>4, <1>5, <1>6, <1>7 DEF Fine, Holds, Right

(* A response ends the retransmissions of the request it answers. *)
LEMMA ReceiveFine ==
    ASSUME Inv, NEW i \in Idx, NEW rsp \in Responses, Receive(i, rsp) PROVE Fine(sip, sip')
<1> DEFINE s1 == Stop(sip, "msg", i)
           s2 == [s1 EXCEPT !.ccb[i].trx = FALSE]
<1>1. sip' = IF rsp = "100" THEN s1 ELSE OnFinal(s2, i, rsp)
  BY DEF Receive
<1>2. /\ Good(sip) /\ Good(s1) /\ (i # Backup => Holds(sip, s1)) /\ s1.stb = sip.stb
      /\ Right(sip) => Right(s1)
  BY StopKeeps, StopHolds, StopRight DEF Inv, Keeps
<1>3. sip.ccb[i].trx
  BY DEF Receive
<1> HIDE DEF s1
<1>4. Good(s2) /\ Holds(s1, s2)
  <2>1. s1 \in SipRecord /\ s1.ccb \in [Idx -> Ccb]
    BY <1>2 DEF Good, SipRecord
  <2>2. [s1.ccb[i] EXCEPT !.trx = FALSE] \in Ccb /\ [s1.ccb[i] EXCEPT !.trx = FALSE].st = s1.ccb[i].st
    BY <2>1 DEF Ccb
  <2> DEFINE b == [s1.ccb[i] EXCEPT !.trx = FALSE]
  <2>3. /\ s2 = [s1 EXCEPT !.ccb = [s1.ccb EXCEPT ![i] = b]]
        /\ [s1.ccb EXCEPT ![i] = b] \in [Idx -> Ccb]
        /\ \A k \in Idx : [s1.ccb EXCEPT ![i] = b][k].st = s1.ccb[k].st
    BY <2>1, <2>2
  <2> HIDE DEF b
  <2>4. Holds(s1, s2)
    BY <1>2, FieldsHold
  <2> HIDE DEF s2
  <2>5. s2 \in SipRecord /\ SameBlocks(s1, s2)
    BY <2>1, <2>3 DEF SipRecord, SameBlocks
  <2> QED
    BY <1>2, <2>4, <2>5, KeepsSame DEF Keeps
<1> HIDE DEF s2
<1>5. Fine(s2, OnFinal(s2, i, rsp)) /\ (i = Backup /\ Right(s2) /\ Prompt => Settled(OnFinal(s2, i, rsp)))
  BY <1>4, OnFinalFine
<1>6. CASE i # Backup
  BY <1>1, <1>2, <1>4, <1>5, <1>6, HoldsOn, HoldsFine, HoldsThenFine
<1>7. CASE i = Backup
  <2>1. Right(sip) => Right(s2)
    BY <1>2, <1>4, HoldsRight
  <2>2. CASE rsp = "100"
    BY <1>1, <1>2, <2>2 DEF Fine, Prompt
  <2>3. CASE rsp # "100"
    BY <1>1, <1>5, <1>7, <2>1, <2>3 DEF Fine, Settled
  <2> QED
    BY <2>2, <2>3
<1> QED
  BY <1>6, <1>7

LEMMA NextFine == Inv /\ [Next]_vars => Fine(sip, sip')
<1> SUFFICES ASSUME Inv, [Next]_vars PROVE Fine(sip, sip')
  OBVIOUS
<1>1. CASE SipStep
  BY <1>1, AskingFine, HandlersFine, PointerFine, AnswerFine DEF SipStep
<1>2. CASE AppStep
  BY <1>2, AppStepHolds, HoldsFine
<1>3. ASSUME NEW t \in Timers, Expire(t) PROVE Fine(sip, sip')
  BY <1>3, ExpireFine
<1>4. ASSUME NEW i \in Idx, NEW rsp \in Responses, Receive(i, rsp) PROVE Fine(sip, sip')
  BY <1>4, ReceiveFine
<1>5. CASE CallStarts \/ CallEnds
  BY <1>5, ScalarsHold, HoldsFine DEF CallStarts, CallEnds, Inv
<1>6. CASE Down \/ UNCHANGED vars
  BY <1>6, HoldsSelf, HoldsFine DEF Down, vars
<1> QED
  BY <1>1, <1>2, <1>3, <1>4, <1>5, <1>6 DEF Next

LEMMA InitRight == Init => Right(sip)
<1> SUFFICES ASSUME Init PROVE Right(sip)
  OBVIOUS
<1>1. Good(AtStart) /\ sip = RegisterAllLines(AtStart)
  BY AtStartGood
<1>2. Clean(AtStart)
  <2>1. AtStart.q = <<>> /\ AtStart.tmr = {}
    BY DEF AtStart
  <2>2. DOMAIN AtStart.q = {}
    BY <2>1
  <2> QED
    BY <2>1, <2>2 DEF Clean
<1> QED
  BY <1>1, <1>2, RegisterLinesHold DEF Right, Holds

LEMMA RightAlways == Spec => [](Inv /\ Right(sip))
<1>1. Init => Inv /\ Right(sip)
  BY InitGood, InitRight
<1>2. Inv /\ Right(sip) /\ [Next]_vars => (Inv /\ Right(sip))'
  <2> SUFFICES ASSUME Inv, Right(sip), [Next]_vars PROVE Inv' /\ Right(sip')
    OBVIOUS
  <2> QED
    BY NextGood, NextFine DEF Fine
<1> QED
  BY <1>1, <1>2, PTL DEF Spec

(***************************************************************************)
(* sip_regmgr_setup_new_standby_ccb() and the code that finds the next     *)
(* call manager keep the backup block and the table of call managers in    *)
(* step, through every failover, fallback and answer that is under way.    *)
(***************************************************************************)
THEOREM BackupCorrect == Spec => []BackupIsStandby
<1>1. Right(sip) => BackupIsStandby
  BY DEF Right, SetUp, BackupIsStandby
<1> QED
  BY <1>1, RightAlways, PTL

(***************************************************************************)
(* The keep-alive of the standby goes on: each of its timers ends in a     *)
(* message, each message in a request or a timer, each answer in a timer,  *)
(* unless a provisional response or Retry-After stops the retransmissions. *)
(***************************************************************************)
THEOREM StandbyStaysWatched ==
    ASSUME Responses \cap {"100", "retry"} = {}
    PROVE  Spec => StaysWatched
<1>1. Inv /\ Right(sip) /\ [Next]_vars =>
         [sip.stb # None /\ sip'.stb = sip.stb /\ Watching(sip) => Watching(sip')]_vars
  BY NextFine DEF Fine, Prompt
<1> QED
  BY <1>1, RightAlways, PTL DEF Spec, StaysWatched
=============================================================================
