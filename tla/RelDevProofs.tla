---------------------------- MODULE RelDevProofs ----------------------------
(***************************************************************************)
(* TLAPS proofs about RelDev, for any length of the ring, any calls and    *)
(* any messages that satisfy MsgsAssumption.                               *)
(***************************************************************************)
EXTENDS RelDev, TLAPS

RingType == [Slots -> [msg : Msgs \cup {None}, ans : AnsType]]

(* Two messages of one transaction and dialog; two requests are one. *)
Alike(m, n) ==
    /\ SameTransaction(m, n)
    /\ m.req = n.req
    /\ m.tag = n.tag
    /\ m.req => m = n

(* Every answer is kept with a message it fits. *)
Fits(r) ==
    \A i \in Slots : r[i].msg # None /\ r[i].ans # None
                        => Alike(r[i].msg, r[i].ans.made)

(* While the peer is setting up a call the ring has no response in it: it  *)
(* is what makes it safe to ignore the tag.                                *)
NoResponses(r) ==
    \A i \in Slots : r[i].msg # None /\ ~r[i].msg.req
                     /\ r[i].msg.call \notin Reused
       => phase[r[i].msg.call] \in {"up", "over"}

Pending ==
    /\ \A m \in open : m.req
    /\ \A c \in Calls : toAck[c] # None => ~toAck[c].req

IInv == TypeOK /\ Fits(ring) /\ NoResponses(ring) /\ Pending /\ OwnAnswer

-----------------------------------------------------------------------------
(* The ring and its slots *)

(* The fields of a message, from MsgsAssumption. *)
LEMMA MsgFields ==
    ASSUME NEW m \in Msgs
    PROVE  /\ m \in MsgType /\ m # None
           /\ m.call \in Calls /\ m.req \in BOOLEAN /\ m.cseq \in Nat
           /\ m.method \in STRING /\ m.tag \in STRING /\ m.code \in Nat
           /\ m = [call |-> m.call, req |-> m.req, cseq |-> m.cseq,
                   method |-> m.method, tag |-> m.tag, code |-> m.code]
BY MsgsAssumption DEF MsgType

(* The cursor, wrapped or not, points into the ring. *)
LEMMA StoreAtType ==
    ASSUME counter \in 0..N
    PROVE  StoreAt \in Slots /\ StoreAt + 1 \in 0..N
BY NAssumption DEF StoreAt, Slots

(* A duplicate is the message itself. *)
LEMMA DuplicateIsSame ==
    ASSUME NEW r \in RingType, NEW m \in Msgs, NEW i \in IsDuplicate(r, m)
    PROVE  i \in Slots /\ r[i].msg = m
<1>1. i \in Slots /\ r[i].msg \in Msgs
  BY DEF IsDuplicate, RingType
<1> DEFINE n == r[i].msg
<1>2. /\ SameTransaction(m, n) /\ m.tag = n.tag /\ m.req = n.req
      /\ m.req \/ m.code = n.code
  BY DEF IsDuplicate
<1>3. n \in Msgs
  BY <1>1
<1> HIDE DEF n
<1>4. m.req => m = n
  BY <1>2, <1>3, MsgsAssumption
<1>5. ~m.req => m = n
  BY <1>2, <1>3, MsgFields DEF SameTransaction
<1> QED
  BY <1>1, <1>4, <1>5 DEF n

(* An answer goes to a message it fits: a response when the tag is         *)
(* compared, or when the transaction has no response of the peer in the    *)
(* ring; an ACK because its tag is never ours.                             *)
LEMMA CoupledFits ==
    ASSUME NEW r \in RingType, NEW m \in Msgs, NEW tag, NEW ignore \in BOOLEAN,
           NEW code, NEW i \in CoupledMatch(r, m, tag, ignore, code),
           m.req => tag \in {m.tag, "us"},
           ~m.req => tag = m.tag /\ ~ignore,
           ignore => m.method = "NOTIFY"
                     \/ (phase[m.call] \notin {"up", "over"} /\ NoResponses(r))
    PROVE  i \in Slots /\ r[i].msg \in Msgs /\ Alike(r[i].msg, m)
<1>1. i \in Slots /\ r[i].msg \in Msgs
  BY DEF CoupledMatch, RingType
<1> DEFINE n == r[i].msg
<1>2. SameTransaction(m, n) /\ (ignore \/ tag = n.tag)
  BY DEF CoupledMatch
<1>3. n \in Msgs
  BY <1>1
<1>4. NoResponses(r) => n.req \/ n.call \in Reused \/ phase[n.call] \in {"up", "over"}
  BY <1>1, MsgFields DEF NoResponses
<1> HIDE DEF n
<1>5. CASE m.req /\ n.req
  <2>1. m = n
    BY <1>2, <1>3, <1>5, MsgsAssumption
  <2> QED
    BY <1>1, <2>1 DEF Alike, SameTransaction, n
<1>6. CASE m.req /\ ~n.req
  <2>1. /\ m.method # "NOTIFY" /\ n.tag # "" /\ n.tag # "us"
        /\ m.tag \in {"", "us"} /\ m.call \notin Reused
    BY <1>2, <1>3, <1>6, MsgsAssumption
  <2>2. ignore
    BY <1>2, <1>6, <2>1
  <2> QED
    BY <1>2, <1>4, <1>6, <2>1, <2>2 DEF SameTransaction
<1>7. CASE ~m.req /\ n.req
  <2>1. SameTransaction(n, m)
    BY <1>2 DEF SameTransaction
  <2>2. m.tag # "" /\ m.tag # "us" /\ n.tag \in {"", "us"}
    BY <1>3, <1>7, <2>1, MsgsAssumption
  <2> QED
    BY <1>2, <1>7, <2>2
<1>8. CASE ~m.req /\ ~n.req
  <2>1. m.tag = n.tag
    BY <1>2, <1>8
  <2>2. m.req = n.req
    BY <1>3, <1>8, MsgFields
  <2> QED
    BY <1>1, <1>2, <1>8, <2>1, <2>2 DEF Alike, SameTransaction, n
<1> QED
  BY <1>5, <1>6, <1>7, <1>8
(* What may become of the ring when an answer is stored. *)
LEMMA CoupledStoreStep ==
    ASSUME NEW r \in RingType, NEW m \in Msgs, NEW tag, NEW ignore \in BOOLEAN,
           NEW code, NEW s \in CoupledMessageStore(r, m, tag, ignore, code),
           m.req => tag \in {m.tag, "us"},
           ~m.req => tag = m.tag /\ ~ignore,
           ignore => m.method = "NOTIFY"
                     \/ (phase[m.call] \notin {"up", "over"} /\ NoResponses(r))
    PROVE  \/ s = r
           \/ \E i \in Slots, b \in BOOLEAN :
                 /\ r[i].msg \in Msgs /\ Alike(r[i].msg, m)
                 /\ i \in CoupledMatch(r, m, tag, ignore, code)
                 /\ b \/ r[i].ans # None
                 /\ s = Coupled(r, i, m, b)
<1> DEFINE match == CoupledMatch(r, m, tag, ignore, code)
<1>1. CASE match = {}
  BY <1>1 DEF CoupledMessageStore
<1>2. CASE match # {}
  <2>1. PICK i \in FirstOf(match) : s \in Written(r, i, m)
    BY <1>2 DEF CoupledMessageStore
  <2>2. i \in match
    BY <2>1 DEF FirstOf
  <2>3. i \in Slots /\ r[i].msg \in Msgs /\ Alike(r[i].msg, m)
    BY <2>2, CoupledFits
  <2>4. s = r \/ \E b \in BOOLEAN : /\ b \/ r[i].ans # None
                                    /\ s = Coupled(r, i, m, b)
    BY <2>1 DEF Written
  <2> QED
    BY <2>2, <2>3, <2>4
<1> QED
  BY <1>1, <1>2

(* Storing an answer keeps the ring well-formed. *)
LEMMA CoupledStoreInv ==
    ASSUME NEW r \in RingType, Fits(r), NEW m \in Msgs, NEW i \in Slots,
           NEW b \in BOOLEAN, r[i].msg \in Msgs, Alike(r[i].msg, m)
    PROVE  /\ Coupled(r, i, m, b) \in RingType /\ Fits(Coupled(r, i, m, b))
           /\ \A j \in Slots : Coupled(r, i, m, b)[j].msg = r[j].msg
<1> DEFINE s == Coupled(r, i, m, b)
<1> DEFINE a == [made |-> m, whole |-> b]
<1>1. a \in AnsType /\ a.made = m
  BY DEF AnsType
<1>s. s = [r EXCEPT ![i] = [r[i] EXCEPT !.ans = a]]
  BY DEF Coupled
<1> HIDE DEF a, s
<1>e. [r[i] EXCEPT !.ans = a] = [msg |-> r[i].msg, ans |-> a]
  BY DEF RingType
<1>2. s = [j \in Slots |-> IF j = i THEN [msg |-> r[i].msg, ans |-> a] ELSE r[j]]
  BY <1>s, <1>e DEF RingType
<1>3. \A j \in Slots : s[j].msg = r[j].msg /\ s[j].ans = IF j = i THEN a ELSE r[j].ans
  BY <1>2
<1>4. s \in RingType
  BY <1>1, <1>2 DEF RingType
<1>5. Fits(s)
  BY <1>1, <1>3 DEF Fits
<1> QED
  BY <1>3, <1>4, <1>5 DEF s

(* So does storing a message, which makes room for it. *)
LEMMA StoreInv ==
    ASSUME NEW r \in RingType, Fits(r), counter \in 0..N, NEW m \in Msgs
    PROVE  /\ Stored(r, m) \in RingType /\ Fits(Stored(r, m))
           /\ \A j \in Slots : Stored(r, m)[j] = IF j = StoreAt
                                                THEN [msg |-> m, ans |-> None]
                                                ELSE r[j]
<1> DEFINE s == Stored(r, m)
<1> DEFINE e == [msg |-> m, ans |-> None]
<1>1. e \in [msg : Msgs \cup {None}, ans : AnsType] /\ e.ans = None
  BY DEF AnsType
<1>s. s = [r EXCEPT ![StoreAt] = e]
  BY DEF Stored
<1> HIDE DEF e, s
<1>2. \A j \in Slots : s[j] = IF j = StoreAt THEN e ELSE r[j]
  BY <1>s DEF RingType
<1>3. s \in RingType
  BY <1>1, <1>s DEF RingType
<1>4. Fits(s)
  BY <1>1, <1>2 DEF Fits
<1> QED
  BY <1>2, <1>3, <1>4 DEF e, s

(* And so does forgetting entries. *)
LEMMA ForgetInv ==
    ASSUME ring \in RingType, Fits(ring), NEW F
    PROVE  /\ Forget(F) \in RingType /\ Fits(Forget(F))
           /\ \A i \in Slots : Forget(F)[i] = IF i \in F THEN Blank ELSE ring[i]
           /\ Blank.msg = None
<1>1. Blank \in [msg : Msgs \cup {None}, ans : AnsType] /\ Blank.ans = None /\ Blank.msg = None
  BY DEF AnsType, Blank
<1>2. Forget(F) \in RingType
  BY <1>1 DEF RingType, Forget
<1>3. \A i \in Slots : Forget(F)[i] = IF i \in F THEN Blank ELSE ring[i]
  BY DEF Forget
<1>4. Fits(Forget(F))
  BY <1>1, <1>3 DEF Fits
<1> QED
  BY <1>1, <1>2, <1>3, <1>4

-----------------------------------------------------------------------------
(* The invariant *)

(* The invariant holds at the start. *)
LEMMA InitInv == Init => IInv
<1> SUFFICES ASSUME Init PROVE IInv
  OBVIOUS
<1>1. TypeOK
  BY NAssumption DEF Init, TypeOK, Blank, AnsType, Phases, Slots
<1>2. Fits(ring) /\ NoResponses(ring)
  BY DEF Init, Fits, NoResponses, Blank
<1> QED
  BY <1>1, <1>2 DEF IInv, Init, Pending, OwnAnswer

(* What a step that sends an answer again leaves in out. *)
LEMMA SendInv ==
    ASSUME NEW r \in RingType, Fits(r), NEW m \in Msgs,
           NEW i \in IsDuplicate(r, m), CoupledMessageSend(r, i, m)
    PROVE  OwnAnswer' /\ out' \in {None} \cup [to : Msgs, sent : AnsType]
<1>1. i \in Slots /\ r[i].msg = m /\ r[i].ans \in AnsType
  BY DuplicateIsSame DEF RingType
<1>2. CASE r[i].ans = None
  BY <1>2 DEF CoupledMessageSend, OwnAnswer
<1>3. CASE r[i].ans # None
  <2>1. out' = [to |-> m, sent |-> r[i].ans]
    BY <1>3 DEF CoupledMessageSend
  <2>2. Alike(m, r[i].ans.made)
    BY <1>1, <1>3, MsgFields DEF Fits
  <2>3. OwnAnswer'
    BY <2>1, <2>2 DEF OwnAnswer, Alike
  <2> QED
    BY <1>1, <2>1, <2>3
<1> QED
  BY <1>2, <1>3

(* A request leaves the ring well-formed; r is the ring it is looked up in.*)
LEMMA CheckRequestInv ==
    ASSUME NEW r \in RingType, Fits(r), counter \in 0..N, open \subseteq Msgs,
           \A x \in open : x.req,
           NEW m \in Msgs, m.req, CheckRequest(r, m)
    PROVE  /\ ring' \in RingType /\ Fits(ring)' /\ counter' \in 0..N
           /\ open' \subseteq Msgs /\ \A x \in open' : x.req
           /\ OwnAnswer' /\ out' \in {None} \cup [to : Msgs, sent : AnsType]
           /\ \A i \in Slots : \/ ring'[i].msg = None \/ ring'[i].msg.req
                                \/ ring'[i] = r[i]
<1>1. CASE IsDuplicate(r, m) = {}
  <2>1. /\ ring' = Stored(r, m)
        /\ counter' = StoreAt + 1
        /\ open' = open \cup {m} /\ out' = None
    BY <1>1 DEF CheckRequest, MessageStore
  <2>2. /\ ring' \in RingType /\ Fits(ring')
        /\ \A i \in Slots : ring'[i] = IF i = StoreAt THEN [msg |-> m, ans |-> None]
                                          ELSE r[i]
    BY <2>1, StoreInv
  <2>3. Fits(ring)'
    BY <2>2 DEF Fits
  <2>4. counter' \in 0..N /\ open' \subseteq Msgs /\ \A x \in open' : x.req
    BY <2>1, StoreAtType
  <2>5. OwnAnswer'
    BY <2>1 DEF OwnAnswer
  <2>6. \A i \in Slots : ring'[i].msg.req \/ ring'[i] = r[i]
    BY <2>2
  <2> QED
    BY <2>1, <2>2, <2>3, <2>4, <2>5, <2>6
<1>2. CASE IsDuplicate(r, m) # {}
  <2>1. ring' = r /\ counter' = counter /\ open' = open
    BY <1>2 DEF CheckRequest
  <2>2. OwnAnswer' /\ out' \in {None} \cup [to : Msgs, sent : AnsType]
    <3>1. CASE m.method = "ACK"
      BY <1>2, <3>1 DEF CheckRequest, OwnAnswer
    <3>2. CASE m.method # "ACK"
      <4>1. PICK i \in FirstOf(IsDuplicate(r, m)) : CoupledMessageSend(r, i, m)
        BY <1>2, <3>2 DEF CheckRequest
      <4> QED
        BY <4>1, SendInv DEF FirstOf
    <3> QED
      BY <3>1, <3>2
  <2> QED
    BY <2>1, <2>2 DEF Fits
<1> QED
  BY <1>1, <1>2
(* Storing an answer made by the actions below preserves the invariant. *)
LEMMA CoupleInv ==
    ASSUME IInv, NEW m \in Msgs, NEW tag, NEW ignore \in BOOLEAN, NEW code,
           ring' \in CoupledMessageStore(ring, m, tag, ignore, code),
           m.req => tag \in {m.tag, "us"},
           ~m.req => tag = m.tag /\ ~ignore,
           ignore => m.method = "NOTIFY" \/ phase[m.call] = "responding"
    PROVE  /\ ring' \in RingType /\ Fits(ring)'
           /\ \A j \in Slots : ring'[j].msg = ring[j].msg
<1>1. ring \in RingType /\ Fits(ring) /\ NoResponses(ring)
  BY DEF IInv, TypeOK, RingType
<1>2. CASE ring' = ring
  BY <1>1, <1>2 DEF Fits
<1>3. CASE \E i \in Slots, b \in BOOLEAN :
              /\ ring[i].msg \in Msgs /\ Alike(ring[i].msg, m)
              /\ ring' = Coupled(ring, i, m, b)
  <2>1. ring' \in RingType /\ Fits(ring') /\ \A j \in Slots : ring'[j].msg = ring[j].msg
    BY <1>1, <1>3, CoupledStoreInv
  <2>2. Fits(ring)'
    BY <2>1 DEF Fits
  <2> QED
    BY <2>1, <2>2
<1> QED
  BY <1>1, <1>2, <1>3, CoupledStoreStep

(* The invariant is about ring, phase, toAck, open and out. *)
LEMMA StepInv == IInv /\ [Next]_vars => IInv'
<1> SUFFICES ASSUME IInv, [Next]_vars PROVE IInv'
  OBVIOUS
<1>t. /\ ring \in RingType /\ counter \in 0..N /\ phase \in [Calls -> Phases]
      /\ lastCode \in [Calls -> Nat] /\ toAck \in [Calls -> Msgs \cup {None}]
      /\ acked \subseteq Calls \X Nat /\ open \subseteq Msgs
      /\ out \in {None} \cup [to : Msgs, sent : AnsType]
      /\ Fits(ring) /\ NoResponses(ring) /\ Pending /\ OwnAnswer
  BY DEF IInv, TypeOK, RingType
<1>i. ASSUME /\ ring' \in RingType /\ counter' \in 0..N /\ phase' \in [Calls -> Phases]
             /\ lastCode' \in [Calls -> Nat] /\ toAck' \in [Calls -> Msgs \cup {None}]
             /\ acked' \subseteq Calls \X Nat /\ open' \subseteq Msgs
             /\ out' \in {None} \cup [to : Msgs, sent : AnsType]
             /\ Fits(ring)' /\ NoResponses(ring)' /\ Pending' /\ OwnAnswer'
      PROVE  IInv'
  BY <1>i DEF IInv, TypeOK, RingType
<1>1. CASE AllMessagesClear
  <2>1. /\ ring' = Forget(Slots) /\ out' = None
        /\ UNCHANGED <<counter, phase, lastCode, toAck, acked, open>>
    BY <1>1 DEF AllMessagesClear
  <2>2. ring' \in RingType /\ Fits(ring') /\ \A i \in Slots : ring'[i].msg = None
    BY <1>t, <2>1, ForgetInv
  <2>3. Fits(ring)' /\ NoResponses(ring)'
    BY <2>2 DEF Fits, NoResponses
  <2> QED
    BY <1>t, <1>i, <2>1, <2>2, <2>3 DEF Pending, OwnAnswer
<1>2. ASSUME NEW m \in Msgs, NewCall(m) PROVE IInv'
  <2> DEFINE r == MessagesClear(m)
  <2>1. /\ m.req /\ CheckRequest(r, m)
        /\ phase' = [phase EXCEPT ![m.call] = "responding"]
        /\ phase[m.call] = "new"
        /\ UNCHANGED <<lastCode, toAck, acked>>
    BY <1>2 DEF NewCall
  <2>2. /\ r \in RingType /\ Fits(r)
        /\ \A i \in Slots : r[i].msg = None \/ r[i] = ring[i]
    BY <1>t, ForgetInv DEF MessagesClear
  <2> HIDE DEF r
  <2>3. /\ ring' \in RingType /\ Fits(ring)' /\ counter' \in 0..N
        /\ open' \subseteq Msgs /\ \A x \in open' : x.req
        /\ OwnAnswer' /\ out' \in {None} \cup [to : Msgs, sent : AnsType]
        /\ \A i \in Slots : \/ ring'[i].msg = None \/ ring'[i].msg.req
                             \/ ring'[i] = r[i]
    BY <1>t, <2>1, <2>2, CheckRequestInv DEF Pending
  <2>4. phase' \in [Calls -> Phases]
    BY <1>t, <2>1 DEF Phases
  <2>5. NoResponses(ring)'
    <3> SUFFICES ASSUME NEW i \in Slots, ring'[i].msg # None, ~ring'[i].msg.req,
                        ring'[i].msg.call \notin Reused
                 PROVE  phase'[ring'[i].msg.call] \in {"up", "over"}
      BY DEF NoResponses
    <3>1. ring'[i] = ring[i]
      BY <2>2, <2>3
    <3>2. phase[ring[i].msg.call] \in {"up", "over"}
      BY <1>t, <3>1 DEF NoResponses
    <3>3. ring[i].msg.call \in Calls
      BY <1>t, <3>1, MsgFields DEF RingType
    <3> QED
      BY <1>t, <2>1, <3>1, <3>2, <3>3
  <2>6. Pending'
    BY <1>t, <2>1, <2>3 DEF Pending
  <2> QED
    BY <1>t, <1>i, <2>1, <2>3, <2>4, <2>5, <2>6
<1>3. ASSUME NEW m \in Msgs, ReceiveRequest(m) PROVE IInv'
  <2>1. /\ m.req /\ CheckRequest(ring, m)
        /\ UNCHANGED <<phase, lastCode, toAck, acked>>
    BY <1>3 DEF ReceiveRequest
  <2>3. /\ ring' \in RingType /\ Fits(ring)' /\ counter' \in 0..N
        /\ open' \subseteq Msgs /\ \A x \in open' : x.req
        /\ OwnAnswer' /\ out' \in {None} \cup [to : Msgs, sent : AnsType]
        /\ \A i \in Slots : \/ ring'[i].msg = None \/ ring'[i].msg.req
                             \/ ring'[i] = ring[i]
    BY <1>t, <2>1, CheckRequestInv DEF Pending
  <2>5. NoResponses(ring)'
    BY <1>t, <2>1, <2>3 DEF NoResponses
  <2>6. Pending'
    BY <1>t, <2>1, <2>3 DEF Pending
  <2> QED
    BY <1>t, <1>i, <2>1, <2>3, <2>5, <2>6
<1>c. ASSUME NEW m \in Msgs, NEW tag, NEW ignore \in BOOLEAN, NEW code,
             ring' \in CoupledMessageStore(ring, m, tag, ignore, code),
             m.req => tag \in {m.tag, "us"},
             ~m.req => tag = m.tag /\ ~ignore,
             ignore => m.method = "NOTIFY" \/ phase[m.call] = "responding",
             UNCHANGED phase
      PROVE  ring' \in RingType /\ Fits(ring)' /\ NoResponses(ring)'
  <2>1. /\ ring' \in RingType /\ Fits(ring)'
        /\ \A j \in Slots : ring'[j].msg = ring[j].msg
    BY <1>c, CoupleInv
  <2> QED
    BY <1>t, <1>c, <2>1 DEF NoResponses
<1>4. ASSUME NEW m \in Msgs, TagMismatch(m) PROVE IInv'
  <2>1. /\ m.req /\ ring' \in CoupledMessageStore(ring, m, m.tag, FALSE, 0)
        /\ out' = None
        /\ UNCHANGED <<counter, phase, lastCode, toAck, acked, open>>
    BY <1>4 DEF TagMismatch
  <2>2. ring' \in RingType /\ Fits(ring)' /\ NoResponses(ring)'
    BY <1>c, <2>1
  <2>3. Pending' /\ OwnAnswer'
    BY <1>t, <2>1 DEF Pending, OwnAnswer
  <2> QED
    BY <1>t, <1>i, <2>1, <2>2, <2>3
<1>5. ASSUME NEW m \in Msgs, Answer(m) PROVE IInv'
  <2> DEFINE ignore == m.method = "NOTIFY" \/ phase[m.call] = "responding"
  <2>1. /\ m \in open /\ out' = None
        /\ UNCHANGED <<counter, phase, lastCode, toAck, acked, open>>
    BY <1>5 DEF Answer
  <2>2. PICK tag \in {m.tag, "us"} :
              ring' \in CoupledMessageStore(ring, m, tag, ignore, 0)
    BY <1>5 DEF Answer
  <2>3. ignore \in BOOLEAN /\ m.req
    BY <1>t, <2>1 DEF Pending
  <2>4. ignore => m.method = "NOTIFY" \/ phase[m.call] = "responding"
    OBVIOUS
  <2> HIDE DEF ignore
  <2>5. ring' \in RingType /\ Fits(ring)' /\ NoResponses(ring)'
    BY <1>c, <2>1, <2>2, <2>3, <2>4
  <2>6. Pending' /\ OwnAnswer'
    BY <1>t, <2>1 DEF Pending, OwnAnswer
  <2> QED
    BY <1>t, <1>i, <2>1, <2>5, <2>6
<1>6. ASSUME NEW m \in Msgs, PreviousRequest(m) PROVE IInv'
  <2>1. /\ m.req /\ UNCHANGED <<counter, phase, lastCode, toAck, acked, open>>
    BY <1>6 DEF PreviousRequest
  <2>2. CASE /\ ring' = ring
             /\ \E i \in FirstOf(IsDuplicate(ring, m)) : CoupledMessageSend(ring, i, m)
    <3>1. OwnAnswer' /\ out' \in {None} \cup [to : Msgs, sent : AnsType]
      BY <1>t, <2>2, SendInv DEF FirstOf
    <3>2. Fits(ring)' /\ NoResponses(ring)' /\ Pending'
      BY <1>t, <2>1, <2>2 DEF Fits, NoResponses, Pending
    <3> QED
      BY <1>t, <1>i, <2>1, <2>2, <3>1, <3>2
  <2>3. CASE /\ ring' \in CoupledMessageStore(ring, m, m.tag, FALSE, 0)
             /\ out' = None
    <3>1. ring' \in RingType /\ Fits(ring)' /\ NoResponses(ring)'
      BY <1>c, <2>1, <2>3
    <3>2. Pending' /\ OwnAnswer'
      BY <1>t, <2>1, <2>3 DEF Pending, OwnAnswer
    <3> QED
      BY <1>t, <1>i, <2>1, <2>3, <3>1, <3>2
  <2> QED
    BY <1>6, <2>2, <2>3 DEF PreviousRequest
<1>7. ASSUME NEW m \in Msgs, ReceiveResponse(m) PROVE IInv'
  <2>m. m.call \in Calls /\ m.cseq \in Nat /\ m.code \in Nat /\ ~m.req
    BY <1>7, MsgFields DEF ReceiveResponse
  <2>1. phase' = [phase EXCEPT ![m.call] = "up"] /\ open' = open
    BY <1>7 DEF ReceiveResponse
  <2>2. phase' \in [Calls -> Phases] /\ \A c \in Calls :
           /\ c = m.call => phase'[c] = "up"
           /\ c # m.call => phase'[c] = phase[c]
    BY <1>t, <2>m, <2>1 DEF Phases
  <2>3. OwnAnswer' /\ out' \in {None} \cup [to : Msgs, sent : AnsType]
    <3>1. CASE out' = None
      BY <3>1 DEF OwnAnswer
    <3>2. CASE \E i \in FirstOf(IsDuplicate(ring, m)) : CoupledMessageSend(ring, i, m)
      BY <1>t, <3>2, SendInv DEF FirstOf
    <3> QED
      BY <1>7, <3>1, <3>2 DEF ReceiveResponse
  <2>r. ASSUME ring' \in RingType,
               \A i \in Slots : \/ ring'[i].msg \in {None, m}
                                 \/ ring'[i].msg = ring[i].msg
        PROVE  NoResponses(ring)'
    <3> SUFFICES ASSUME NEW i \in Slots, ring'[i].msg # None, ~ring'[i].msg.req,
                        ring'[i].msg.call \notin Reused
                 PROVE  phase'[ring'[i].msg.call] \in {"up", "over"}
      BY DEF NoResponses
    <3>1. CASE ring'[i].msg = m
      BY <2>m, <2>2, <3>1
    <3>2. CASE ring'[i].msg = ring[i].msg
      <4>1. phase[ring[i].msg.call] \in {"up", "over"}
        BY <1>t, <3>2 DEF NoResponses
      <4>2. ring[i].msg.call \in Calls
        BY <1>t, <3>2, MsgFields DEF RingType
      <4> QED
        BY <2>2, <3>2, <4>1, <4>2
    <3> QED
      BY <2>r, <3>1, <3>2
  <2> DEFINE s == Stored(ring, m)
  <2>4. /\ s \in RingType /\ Fits(s)
        /\ \A i \in Slots : s[i].msg = m \/ s[i].msg = ring[i].msg
    <3>1. /\ s \in RingType /\ Fits(s)
          /\ \A i \in Slots : s[i] = IF i = StoreAt THEN [msg |-> m, ans |-> None]
                                      ELSE ring[i]
      BY <1>t, StoreInv
    <3> HIDE DEF s
    <3> QED
      BY <3>1
  <2> HIDE DEF s
  <2>5. CASE HandOn(s, m) /\ counter' = StoreAt + 1
    <3>1. lastCode' \in [Calls -> Nat]
      BY <1>t, <2>m, <2>5 DEF HandOn
    <3>2. acked' \subseteq Calls \X Nat
      <4>1. acked' = acked \/ acked' = acked \cup {<<m.call, m.cseq>>}
        BY <2>5 DEF HandOn
      <4> QED
        BY <1>t, <2>m, <4>1
    <3>3. toAck' \in [Calls -> Msgs \cup {None}]
          /\ \A c \in Calls : toAck'[c] # None => ~toAck'[c].req
      BY <1>t, <2>m, <2>5 DEF HandOn, Pending
    <3>4. ring' = s \/ ring' \in CoupledMessageStore(s, m, m.tag, FALSE, m.code)
      BY <2>5 DEF HandOn
    <3>5. /\ ring' \in RingType /\ Fits(ring')
          /\ \A i \in Slots : ring'[i].msg = s[i].msg
      <4>1. CASE ring' = s
        BY <2>4, <4>1
      <4>2. CASE \E i \in Slots, b \in BOOLEAN :
                    /\ s[i].msg \in Msgs /\ Alike(s[i].msg, m)
                    /\ ring' = Coupled(s, i, m, b)
        BY <2>4, <4>2, CoupledStoreInv
      <4>3. CASE ring' \in CoupledMessageStore(s, m, m.tag, FALSE, m.code)
        <5> DEFINE ignore == FALSE
        <5>1. ~ignore /\ ignore \in BOOLEAN
          OBVIOUS
        <5>2. ring' \in CoupledMessageStore(s, m, m.tag, ignore, m.code)
          BY <4>3
        <5> HIDE DEF ignore
        <5> QED
          BY <2>m, <2>4, <4>1, <4>2, <5>1, <5>2, CoupledStoreStep
      <4> QED
        BY <3>4, <4>1, <4>3
    <3>6. Fits(ring)'
      BY <3>5 DEF Fits
    <3>7. NoResponses(ring)'
      BY <2>r, <2>4, <3>5
    <3>8. Pending'
      BY <1>t, <2>1, <3>3 DEF Pending
    <3>9. counter' \in 0..N
      BY <1>t, <2>5, StoreAtType
    <3> QED
      BY <1>t, <1>i, <2>1, <2>2, <2>3, <3>1, <3>2, <3>3, <3>5, <3>6, <3>7, <3>8, <3>9
  <2>6. CASE ring' = s /\ counter' = StoreAt + 1 /\ UNCHANGED <<lastCode, toAck, acked>>
    <3>1. Fits(ring)' /\ ring' \in RingType
      BY <2>4, <2>6 DEF Fits
    <3>2. NoResponses(ring)'
      BY <2>r, <2>4, <2>6
    <3>3. Pending' /\ counter' \in 0..N
      BY <1>t, <2>1, <2>6, StoreAtType DEF Pending
    <3> QED
      BY <1>t, <1>i, <2>1, <2>2, <2>3, <2>6, <3>1, <3>2, <3>3
  <2>7. CASE UNCHANGED <<ring, counter, lastCode, toAck, acked>>
    <3>1. Fits(ring)' /\ ring' \in RingType
      BY <1>t, <2>7 DEF Fits
    <3>2. NoResponses(ring)'
      BY <1>t, <2>r, <2>7
    <3>3. Pending'
      BY <1>t, <2>1, <2>7 DEF Pending
    <3> QED
      BY <1>t, <1>i, <2>1, <2>2, <2>3, <2>7, <3>1, <3>2, <3>3
  <2> QED
    BY <1>7, <2>5, <2>6, <2>7 DEF ReceiveResponse, s
<1>8. ASSUME NEW m \in Msgs, PreviousResponse(m) PROVE IInv'
  <2>1. OwnAnswer' /\ out' \in {None} \cup [to : Msgs, sent : AnsType]
    BY <1>t, <1>8, SendInv DEF FirstOf, PreviousResponse
  <2>2. UNCHANGED <<ring, counter, phase, lastCode, toAck, acked, open>>
    BY <1>8 DEF PreviousResponse
  <2>3. Fits(ring)' /\ NoResponses(ring)' /\ Pending'
    BY <1>t, <2>2 DEF Fits, NoResponses, Pending
  <2> QED
    BY <1>t, <1>i, <2>1, <2>2, <2>3
<1>9. ASSUME NEW c \in Calls, SendAck(c) PROVE IInv'
  <2>1. /\ toAck[c] \in Msgs /\ ~toAck[c].req /\ toAck[c].cseq \in Nat
    BY <1>t, <1>9, MsgFields DEF SendAck, Pending
  <2>2. /\ ring' \in CoupledMessageStore(ring, toAck[c], toAck[c].tag, FALSE, lastCode[c])
        /\ toAck' = [toAck EXCEPT ![c] = None]
        /\ acked' = acked \cup {<<c, toAck[c].cseq>>}
        /\ out' = None
        /\ UNCHANGED <<counter, phase, lastCode, open>>
    BY <1>9 DEF SendAck
  <2>3. ring' \in RingType /\ Fits(ring)' /\ NoResponses(ring)'
    BY <1>c, <2>1, <2>2
  <2>4. toAck' \in [Calls -> Msgs \cup {None}] /\ acked' \subseteq Calls \X Nat
    BY <1>t, <2>1, <2>2
  <2>5. Pending' /\ OwnAnswer'
    BY <1>t, <2>2 DEF Pending, OwnAnswer
  <2> QED
    BY <1>t, <1>i, <2>2, <2>3, <2>4, <2>5
<1>10. ASSUME NEW c \in Calls, Advance(c) PROVE IInv'
  <2>1. /\ out' = None /\ open' \subseteq open
        /\ UNCHANGED <<ring, counter, lastCode, toAck, acked>>
    BY <1>10 DEF Advance
  <2>2. PICK p \in Phases : /\ phase' = [phase EXCEPT ![c] = p]
                            /\ phase[c] \in {"up", "over"} /\ c \notin Reused => p \in {"up", "over"}
    BY <1>10 DEF Advance, Phases
  <2>3. phase' \in [Calls -> Phases]
    BY <1>t, <2>2
  <2>4. NoResponses(ring)'
    <3> SUFFICES ASSUME NEW i \in Slots, ring[i].msg # None, ~ring[i].msg.req,
                        ring[i].msg.call \notin Reused
                 PROVE  phase'[ring[i].msg.call] \in {"up", "over"}
      BY <2>1 DEF NoResponses
    <3>1. phase[ring[i].msg.call] \in {"up", "over"}
      BY <1>t DEF NoResponses
    <3>2. ring[i].msg.call \in Calls
      BY <1>t, MsgFields DEF RingType
    <3> QED
      BY <1>t, <2>2, <3>1, <3>2
  <2>5. Fits(ring)' /\ Pending' /\ OwnAnswer'
    BY <1>t, <2>1 DEF Fits, Pending, OwnAnswer
  <2> QED
    BY <1>t, <1>i, <2>1, <2>3, <2>4, <2>5
<1>11. CASE UNCHANGED vars
  <2>1. UNCHANGED <<ring, counter, phase, lastCode, toAck, acked, open, out>>
    BY <1>11 DEF vars
  <2>2. Fits(ring)' /\ NoResponses(ring)' /\ Pending' /\ OwnAnswer'
    BY <1>t, <2>1 DEF Fits, NoResponses, Pending, OwnAnswer
  <2> QED
    BY <1>t, <1>i, <2>1, <2>2
<1> QED
  BY <1>1, <1>2, <1>3, <1>4, <1>5, <1>6, <1>7, <1>8, <1>9, <1>10, <1>11 DEF Next

(* The invariant holds in every reachable state. *)
LEMMA Invariance == Spec => []IInv
BY InitInv, StepInv, PTL DEF Spec

(* The cursor never leaves the ring, and every variable has its type.      *)
THEOREM TypeCorrect == Spec => []TypeOK
<1>1. IInv => TypeOK
  BY DEF IInv
<1> QED
  BY <1>1, Invariance, PTL

(* A retransmission is never met with an answer made for something else:   *)
(* not the phone's ACK for a request of the peer with the same CSeq, nor   *)
(* the response to a request for a response, for any length of the ring.   *)
THEOREM AnswersFit == Spec => []OwnAnswer
<1>1. IInv => OwnAnswer
  BY DEF IInv
<1> QED
  BY <1>1, Invariance, PTL

-----------------------------------------------------------------------------
(* Every call begins afresh *)

(* Only the first INVITE of a call makes the phone respond to it. *)
LEMMA BeginsByNewCall ==
    ASSUME TypeOK, [Next]_vars, NEW c \in Calls,
           phase[c] = "new", phase'[c] = "responding"
    PROVE  \E m \in Msgs : m.call = c /\ NewCall(m)
<1>1. phase \in [Calls -> Phases]
  BY DEF TypeOK
<1>2. ASSUME UNCHANGED phase PROVE FALSE
  BY <1>2
<1>3. ASSUME NEW m \in Msgs, NewCall(m) PROVE m.call = c
  BY <1>1, <1>3, MsgFields DEF NewCall
<1>4. ASSUME NEW m \in Msgs, ReceiveResponse(m) PROVE FALSE
  <2>1. phase' = [phase EXCEPT ![m.call] = "up"]
    BY <1>4 DEF ReceiveResponse
  <2> QED
    BY <1>1, <2>1, MsgFields
<1>5. ASSUME NEW d \in Calls, Advance(d) PROVE FALSE
  BY <1>1, <1>5 DEF Advance
<1> QED
  BY <1>2, <1>3, <1>4, <1>5
     DEF Next, vars, AllMessagesClear, ReceiveRequest, TagMismatch, Answer,
         PreviousRequest, PreviousResponse, SendAck

(* With the older requests of its call forgotten, it is met with nothing. *)
LEMMA NewCallAfresh ==
    ASSUME TypeOK, NEW m \in Msgs, NewCall(m)
    PROVE  /\ out' = None /\ m \in open' /\ FirstInvite(m)
           /\ \A i \in Slots :
                 ring'[i].msg # None /\ ring'[i].msg.call = m.call /\ ring'[i].msg.req
                     => ring'[i].ans = None
<1> DEFINE r == MessagesClear(m)
<1>1. m.req /\ FirstInvite(m) /\ CheckRequest(r, m)
  BY DEF NewCall
<1>2. ring \in RingType /\ counter \in 0..N
  BY DEF TypeOK, RingType
<1>3. \A i \in Slots : r[i] = IF i \in RequestsOf(m.call) THEN Blank ELSE ring[i]
  BY DEF MessagesClear, Forget
<1>4. r = [i \in Slots |-> r[i]]
  BY DEF MessagesClear, Forget
<1>5. \A i \in Slots : r[i].msg # None => ~(r[i].msg.call = m.call /\ r[i].msg.req)
  BY <1>3 DEF RequestsOf, Blank
<1> HIDE DEF r
<1>6. IsDuplicate(r, m) = {}
  BY <1>1, <1>5 DEF IsDuplicate, SameTransaction
<1>7. MessageStore(r, m) /\ open' = open \cup {m} /\ out' = None
  BY <1>1, <1>6 DEF CheckRequest
<1>8. ring' = [r EXCEPT ![StoreAt] = [msg |-> m, ans |-> None]]
  BY <1>7 DEF MessageStore, Stored
<1>9. ASSUME NEW i \in Slots,
             ring'[i].msg # None, ring'[i].msg.call = m.call, ring'[i].msg.req
      PROVE  ring'[i].ans = None
  <2>1. CASE i = StoreAt
    BY <1>4, <1>8, <2>1
  <2>2. CASE i # StoreAt
    <3>1. ring'[i] = r[i]
      BY <1>4, <1>8, <2>2
    <3> QED
      BY <1>5, <1>9, <3>1
  <2> QED
    BY <2>1, <2>2
<1> QED
  BY <1>1, <1>7, <1>9

(* The first INVITE of a call is handed on and finds no answer of an older *)
(* call with its Call-ID, whatever the ring holds: sipSPICheckRequest()    *)
(* clears the older requests before it looks for a duplicate.              *)
THEOREM CallsBeginAfresh == Spec => NewCallsAreNew
<1>1. TypeOK /\ [Next]_vars => [\A c \in Calls : BeginsAfresh(c)]_vars
  <2> SUFFICES ASSUME TypeOK, [Next]_vars, NEW c \in Calls,
                      phase[c] = "new", phase'[c] = "responding"
               PROVE  BeginsAfresh(c)
    BY DEF BeginsAfresh
  <2>1. PICK m \in Msgs : m.call = c /\ NewCall(m)
    BY BeginsByNewCall
  <2> QED
    BY <2>1, NewCallAfresh DEF BeginsAfresh
<1> QED
  BY <1>1, TypeCorrect, PTL DEF Spec, NewCallsAreNew

-----------------------------------------------------------------------------
(* The ring is a window on the last N messages *)

Win == [a \in Slots |-> ring[SlotOf(a)]]

AgeOf(i) == IF i < counter THEN counter - 1 - i ELSE counter - 1 - i + N

(* Ages and slots correspond one to one, wherever the cursor is. *)
LEMMA SlotFacts ==
    ASSUME counter \in 0..N
    PROVE  /\ \A a \in Slots : SlotOf(a) \in Slots
           /\ \A a, b \in Slots : SlotOf(a) = SlotOf(b) => a = b
           /\ \A i \in Slots : AgeOf(i) \in Slots /\ SlotOf(AgeOf(i)) = i
BY NAssumption DEF SlotOf, AgeOf, Slots

(* A message stored becomes the newest, and everything else one older. *)
LEMMA ShiftFacts ==
    ASSUME counter \in 0..N, counter' = StoreAt + 1
    PROVE  /\ 0 \in Slots /\ SlotOf(0)' = StoreAt
           /\ \A a \in Slots \ {0} :
                 /\ a - 1 \in Slots /\ SlotOf(a)' = SlotOf(a - 1)
                 /\ SlotOf(a - 1) # StoreAt
BY NAssumption DEF SlotOf, StoreAt, Slots

(* The window depends on the ring and the cursor only. *)
LEMMA WinSame ==
    ASSUME UNCHANGED <<ring, counter>> PROVE Win' = Win
BY DEF Win, SlotOf

(* An answer written into a slot is written at the slot's age. *)
LEMMA WinCoupled ==
    ASSUME counter \in 0..N, UNCHANGED counter, ring \in RingType, NEW i \in Slots,
           NEW m, NEW b, ring' = Coupled(ring, i, m, b)
    PROVE  Win' = [Win EXCEPT ![AgeOf(i)].ans = [made |-> m, whole |-> b]]
<1> DEFINE x == [made |-> m, whole |-> b]
<1>1. ring' = [ring EXCEPT ![i] = [ring[i] EXCEPT !.ans = x]]
  BY DEF Coupled
<1> HIDE DEF x
<1>2. \A a \in Slots : SlotOf(a)' = SlotOf(a)
  BY DEF SlotOf
<1>3. \A a \in Slots : ring'[SlotOf(a)] = IF a = AgeOf(i) THEN [ring[i] EXCEPT !.ans = x]
                                           ELSE ring[SlotOf(a)]
  BY <1>1, SlotFacts DEF RingType
<1>4. Win' = [a \in Slots |-> IF a = AgeOf(i) THEN [ring[i] EXCEPT !.ans = x]
                               ELSE ring[SlotOf(a)]]
  BY <1>2, <1>3 DEF Win
<1>5. AgeOf(i) \in Slots /\ Win[AgeOf(i)] = ring[i]
  BY SlotFacts DEF Win
<1>6. Win' = [Win EXCEPT ![AgeOf(i)] = [Win[AgeOf(i)] EXCEPT !.ans = x]]
  BY <1>4, <1>5 DEF Win
<1> QED
  BY <1>6 DEF x

(* A step that touches neither ring nor cursor and sends nothing. *)
LEMMA WindowQuiet ==
    ASSUME UNCHANGED <<ring, counter>>, out' = None PROVE Window!Next
<1>1. Win' = Win
  BY WinSame
<1>2. Window!Quiet
  BY <1>1 DEF Window!Quiet, Win
<1> QED
  BY <1>2 DEF Window!Next

(* What is sent again was kept with the message in the window. *)
LEMMA WindowResent ==
    ASSUME ring \in RingType, counter \in 0..N, NEW m \in Msgs,
           NEW i \in IsDuplicate(ring, m), CoupledMessageSend(ring, i, m)
    PROVE  out' = None \/ Window!Resent(m)
<1>1. i \in Slots /\ ring[i].msg = m
  BY DuplicateIsSame
<1>2. AgeOf(i) \in Slots /\ SlotOf(AgeOf(i)) = i
  BY <1>1, SlotFacts
<1>3. CASE ring[i].ans # None
  <2>1. out' = [to |-> m, sent |-> ring[i].ans]
    BY <1>3 DEF CoupledMessageSend
  <2> QED
    BY <1>1, <1>2, <1>3, <2>1 DEF Window!Resent, Window!Ages, Slots
<1> QED
  BY <1>3 DEF CoupledMessageSend

(* A duplicate answered from the ring. *)
LEMMA WindowResend ==
    ASSUME ring \in RingType, counter \in 0..N, NEW m \in Msgs,
           NEW i \in IsDuplicate(ring, m), CoupledMessageSend(ring, i, m),
           UNCHANGED <<ring, counter>>
    PROVE  Window!Next
<1>1. CASE out' = None
  BY <1>1, WindowQuiet
<1>2. CASE Window!Resent(m)
  <2>1. Win' = Win
    BY WinSame
  <2>2. Window!Resend(m)
    BY <1>2, <2>1 DEF Window!Resend, Win
  <2> QED
    BY <2>2 DEF Window!Next
<1> QED
  BY <1>1, <1>2, WindowResent

(* An answer that is stored is a Couple step, or nothing fitted it. *)
LEMMA WindowCouple ==
    ASSUME IInv, NEW m \in Msgs, NEW tag, NEW ignore \in BOOLEAN, NEW code,
           ring' \in CoupledMessageStore(ring, m, tag, ignore, code),
           m.req => tag \in {m.tag, "us"},
           ~m.req => tag = m.tag /\ ~ignore,
           ignore => m.method = "NOTIFY" \/ phase[m.call] = "responding",
           UNCHANGED counter, out' = None
    PROVE  Window!Next
<1>1. ring \in RingType /\ NoResponses(ring) /\ counter \in 0..N
  BY DEF IInv, TypeOK, RingType
<1>2. CASE ring' = ring
  BY <1>2, WindowQuiet
<1>3. ASSUME NEW i \in Slots, NEW b \in BOOLEAN,
             ring[i].msg \in Msgs, Alike(ring[i].msg, m),
             ring' = Coupled(ring, i, m, b)
      PROVE  Window!Next
  <2>1. AgeOf(i) \in Slots /\ SlotOf(AgeOf(i)) = i
    BY <1>1, SlotFacts
  <2>2. Win' = [Win EXCEPT ![AgeOf(i)].ans = [made |-> m, whole |-> b]]
    BY <1>1, <1>3, WinCoupled
  <2>3. ring[i].msg # None /\ Window!Alike(m, ring[i].msg)
    BY <1>3, MsgFields DEF Alike, SameTransaction, Window!Alike
  <2>4. Window!Couple(m)
    BY <2>1, <2>2, <2>3 DEF Window!Couple, Window!Ages, Slots, Win
  <2> QED
    BY <2>4 DEF Window!Next
<1> QED
  BY <1>1, <1>2, <1>3, CoupledStoreStep

(* Storing m in r, which is the ring or the ring without its requests. *)
(* m is put into the ring, and the places in F are cleared. *)
StoredFor(m, F, kept) ==
    \A i \in Slots : ring'[i] = IF i = StoreAt THEN [msg |-> m, ans |-> kept]
                                ELSE IF i \in F THEN Blank ELSE ring[i]

LEMMA WindowDeliver ==
    ASSUME ring \in RingType, counter \in 0..N, NEW m \in Msgs,
           counter' = StoreAt + 1,
           NEW F, F = {} \/ F = RequestsOf(m.call),
           NEW kept, kept \in {None, [made |-> m, whole |-> TRUE]},
           StoredFor(m, F, kept),
           IsProvisional(m) \/ \A i \in Slots \ F : ring[i].msg # m,
           out' = None \/ (IsProvisional(m) /\ Window!Resent(m))
    PROVE  Window!Next
<1> DEFINE r == [i \in Slots |-> IF i \in F THEN Blank ELSE ring[i]]
           e == [msg |-> m, ans |-> kept]
           G == {a \in Slots : SlotOf(a) \in F}
<1>1. Win' = [a \in Slots |-> IF a = 0 THEN e ELSE r[SlotOf(a - 1)]]
  <2>1. \A i \in Slots : ring'[i] = IF i = StoreAt THEN e ELSE r[i]
    BY DEF StoredFor
  <2> HIDE DEF r, e
  <2>2. \A a \in Slots : ring'[SlotOf(a)'] = IF a = 0 THEN e ELSE r[SlotOf(a - 1)]
    BY <2>1, ShiftFacts, SlotFacts, StoreAtType
  <2> QED
    BY <2>2 DEF Win
<1>2. Win' = [a \in Slots |-> IF a = 0 THEN e ELSE IF a - 1 \in G THEN Blank ELSE Win[a - 1]]
  <2>1. \A a \in Slots \ {0} : a - 1 \in Slots /\ SlotOf(a - 1) \in Slots
    BY SlotFacts, ShiftFacts
  <2>2. \A a \in Slots \ {0} :
           r[SlotOf(a - 1)] = IF a - 1 \in G THEN Blank ELSE Win[a - 1]
    BY <2>1 DEF Win
  <2> HIDE DEF r, G, e
  <2> QED
    BY <1>1, <2>2
<1>3. G = {} \/ G = Window!RequestsOf(m.call)
  <2>1. CASE F = {}
    BY <2>1
  <2>2. CASE F = RequestsOf(m.call)
    BY <2>2, SlotFacts DEF RequestsOf, Window!RequestsOf, Window!Ages, Slots
  <2> QED
    BY <2>1, <2>2
<1>4. IsProvisional(m) \/ \A a \in Slots \ G : Win[a].msg # m
  BY SlotFacts DEF Win
<1>5. Window!Deliver(m)
  <2>1. Slots = Window!Ages /\ Blank = Window!Blank
    BY DEF Slots, Window!Ages, Blank, Window!Blank
  <2>2. m \in {x \in Msgs : IsProvisional(x)} <=> IsProvisional(m)
    OBVIOUS
  <2> HIDE DEF G
  <2>3. \E H \in {{}, Window!RequestsOf(m.call)}, k \in {None, [made |-> m, whole |-> TRUE]} :
           /\ m \in {x \in Msgs : IsProvisional(x)} \/ \A a \in Window!Ages \ H : Win[a].msg # m
           /\ Win' = [a \in Window!Ages |-> IF a = 0 THEN [msg |-> m, ans |-> k]
                                             ELSE IF a - 1 \in H THEN Window!Blank
                                             ELSE Win[a - 1]]
    <3>1. G \in {{}, Window!RequestsOf(m.call)}
      BY <1>3
    <3> WITNESS G \in {{}, Window!RequestsOf(m.call)}, kept \in {None, [made |-> m, whole |-> TRUE]}
    <3> QED
      BY <1>2, <1>4, <2>1, <2>2
  <2> QED
    BY <2>2, <2>3 DEF Window!Deliver, Win
<1> QED
  BY <1>5 DEF Window!Next

(* A request looked up in the ring itself. *)
LEMMA WindowRequest ==
    ASSUME ring \in RingType, Fits(ring), counter \in 0..N, NEW m \in Msgs,
           CheckRequest(ring, m)
    PROVE  Window!Next
<1>1. CASE IsDuplicate(ring, m) = {}
  <2>1. ring' = Stored(ring, m) /\ counter' = StoreAt + 1 /\ out' = None
    BY <1>1 DEF CheckRequest, MessageStore
  <2>2. \A i \in Slots : ring'[i] = IF i = StoreAt THEN [msg |-> m, ans |-> None]
                                     ELSE ring[i]
    BY <2>1, StoreInv
  <2>3. \A i \in Slots : ring[i].msg # m
    BY <1>1, MsgFields DEF IsDuplicate, SameTransaction
  <2>4. PICK kept \in {None, [made |-> m, whole |-> TRUE]} :
           \A i \in Slots : ring'[i] = IF i = StoreAt THEN [msg |-> m, ans |-> kept]
                                       ELSE ring[i]
    BY <2>2
  <2> DEFINE F == {}
  <2>5. F = {} /\ StoredFor(m, F, kept)
    BY <2>4 DEF StoredFor
  <2> HIDE DEF F
  <2> QED
    BY <2>1, <2>3, <2>4, <2>5, WindowDeliver
<1>2. CASE IsDuplicate(ring, m) # {}
  <2>1. ring' = ring /\ counter' = counter
    BY <1>2 DEF CheckRequest
  <2>2. CASE out' = None
    BY <2>1, <2>2, WindowQuiet
  <2>3. CASE \E i \in FirstOf(IsDuplicate(ring, m)) : CoupledMessageSend(ring, i, m)
    BY <2>1, <2>3, WindowResend DEF FirstOf
  <2> QED
    BY <1>2, <2>2, <2>3 DEF CheckRequest
<1> QED
  BY <1>1, <1>2

(* The first INVITE of a call: once its requests are forgotten it cannot   *)
(* be a duplicate.                                                         *)
LEMMA WindowNewCall ==
    ASSUME ring \in RingType, Fits(ring), counter \in 0..N, NEW m \in Msgs, m.req,
           CheckRequest(MessagesClear(m), m)
    PROVE  Window!Next
<1> DEFINE r == MessagesClear(m)
           F == RequestsOf(m.call)
<1>1. /\ r \in RingType /\ Fits(r) /\ Blank.msg = None
      /\ \A i \in Slots : r[i] = IF i \in F THEN Blank ELSE ring[i]
  BY ForgetInv DEF MessagesClear
<1>m. \A i \in Slots : ring[i].msg = m => i \in F
  BY MsgFields DEF RequestsOf
<1>c. CheckRequest(r, m)
  OBVIOUS
<1>f. F = RequestsOf(m.call)
  OBVIOUS
<1> HIDE DEF r, F
<1>2. IsDuplicate(r, m) = {}
  <2> SUFFICES ASSUME NEW i \in IsDuplicate(r, m) PROVE FALSE
    OBVIOUS
  <2>1. i \in Slots /\ r[i].msg = m
    BY <1>1, DuplicateIsSame
  <2> QED
    BY <1>1, <1>m, <2>1, MsgFields
<1>3. ring' = Stored(r, m) /\ counter' = StoreAt + 1 /\ out' = None
  BY <1>c, <1>2 DEF CheckRequest, MessageStore
<1>4. \A i \in Slots : ring'[i] = IF i = StoreAt THEN [msg |-> m, ans |-> None]
                                   ELSE r[i]
  BY <1>1, <1>3, StoreInv
<1> DEFINE kept == None
<1>5. kept \in {None, [made |-> m, whole |-> TRUE]} /\ StoredFor(m, F, kept)
  BY <1>1, <1>4 DEF StoredFor
<1> HIDE DEF kept
<1> QED
  BY <1>3, <1>5, <1>m, <1>f, WindowDeliver

(* A response that is recorded, with the ACK of a failure kept at once. *)
LEMMA WindowRecorded ==
    ASSUME IInv, NEW m \in Msgs, ~m.req, counter' = StoreAt + 1,
           IsDuplicate(ring, m) = {} \/ IsProvisional(m),
           \/ ring' = Stored(ring, m)
           \/ /\ ring' \in CoupledMessageStore(Stored(ring, m), m, m.tag, FALSE, m.code)
              /\ ~IsProvisional(m),
           out' = None \/ (IsProvisional(m) /\ Window!Resent(m))
    PROVE  Window!Next
<1>t. ring \in RingType /\ Fits(ring) /\ counter \in 0..N
  BY DEF IInv, TypeOK, RingType
<1> DEFINE s == Stored(ring, m)
<1>1. /\ s \in RingType /\ Fits(s)
      /\ \A i \in Slots : s[i] = IF i = StoreAt THEN [msg |-> m, ans |-> None] ELSE ring[i]
  BY <1>t, StoreInv
<1>2. IsDuplicate(ring, m) = {} => \A i \in Slots : ring[i].msg # m
  BY MsgFields DEF IsDuplicate, SameTransaction
<1>3. \E kept \in {None, [made |-> m, whole |-> TRUE]} :
         \A i \in Slots : ring'[i] = IF i = StoreAt THEN [msg |-> m, ans |-> kept] ELSE ring[i]
  <2>1. CASE ring' = s
    <3> HIDE DEF s
    <3> WITNESS None \in {None, [made |-> m, whole |-> TRUE]}
    <3> QED
      BY <1>1, <2>1
  <2>2. CASE ring' \in CoupledMessageStore(s, m, m.tag, FALSE, m.code) /\ ~IsProvisional(m)
    <3> DEFINE ignore == FALSE
    <3>1. ~ignore /\ ignore \in BOOLEAN /\ ring' \in CoupledMessageStore(s, m, m.tag, ignore, m.code)
      BY <2>2
    <3>c. \A i \in CoupledMatch(s, m, m.tag, ignore, m.code) : s[i].msg.code = m.code
      BY DEF CoupledMatch
    <3> HIDE DEF ignore, s
    <3>2. ring' = s \/ \E i \in Slots, b \in BOOLEAN :
                 /\ s[i].msg \in Msgs /\ Alike(s[i].msg, m)
                 /\ i \in CoupledMatch(s, m, m.tag, ignore, m.code)
                 /\ b \/ s[i].ans # None
                 /\ ring' = Coupled(s, i, m, b)
      BY <1>1, <3>1, CoupledStoreStep
    <3>3. CASE ring' # s
      <4>1. PICK i \in Slots, b \in BOOLEAN :
                 /\ s[i].msg \in Msgs /\ Alike(s[i].msg, m)
                 /\ i \in CoupledMatch(s, m, m.tag, ignore, m.code)
                 /\ b \/ s[i].ans # None
                 /\ ring' = Coupled(s, i, m, b)
        BY <3>2, <3>3
      <4>2. s[i].msg = m
        <5> DEFINE n == s[i].msg
        <5>1. n \in Msgs /\ Alike(n, m) /\ n.code = m.code
          BY <3>c, <4>1
        <5> HIDE DEF n
        <5>2. n = m
          BY <5>1, MsgFields DEF Alike, SameTransaction
        <5> QED
          BY <5>2 DEF n
      <4>3. i = StoreAt
        BY <1>1, <1>2, <2>2, <4>2
      <4>4. b = TRUE
        BY <1>1, <4>1, <4>3
      <4> DEFINE x == [made |-> m, whole |-> TRUE]
      <4>5. ring' = [s EXCEPT ![StoreAt] = [s[StoreAt] EXCEPT !.ans = x]]
        BY <4>1, <4>3, <4>4 DEF Coupled
      <4>6. [s[StoreAt] EXCEPT !.ans = x] = [msg |-> m, ans |-> x]
        <5>1. s[StoreAt] = [msg |-> m, ans |-> None]
          BY <1>t, <1>1, StoreAtType
        <5> HIDE DEF x
        <5>2. [[msg |-> m, ans |-> None] EXCEPT !.ans = x] = [msg |-> m, ans |-> x]
          OBVIOUS
        <5> QED
          BY <5>1, <5>2
      <4>7. x \in {None, [made |-> m, whole |-> TRUE]}
        OBVIOUS
      <4> HIDE DEF x
      <4>8. \A j \in Slots : ring'[j] = IF j = StoreAt THEN [msg |-> m, ans |-> x] ELSE ring[j]
        BY <1>1, <4>5, <4>6 DEF RingType
      <4> QED
        BY <4>7, <4>8
    <3> QED
      BY <2>1, <3>3 DEF s
  <2> QED
    BY <2>1, <2>2
<1>4. PICK kept \in {None, [made |-> m, whole |-> TRUE]} :
         \A i \in Slots : ring'[i] = IF i = StoreAt THEN [msg |-> m, ans |-> kept] ELSE ring[i]
  BY <1>3
<1> DEFINE F == {}
<1>5. F = {} /\ StoredFor(m, F, kept)
  BY <1>4 DEF StoredFor
<1> HIDE DEF F, s
<1> QED
  BY <1>t, <1>2, <1>4, <1>5, WindowDeliver

(* Every step of the ring is a step of the window. *)
LEMMA WindowStep == IInv /\ [Next]_vars => [Window!Next]_<<Win, out>>
<1> SUFFICES ASSUME IInv, [Next]_vars PROVE Window!Next \/ UNCHANGED <<Win, out>>
  OBVIOUS
<1>t. ring \in RingType /\ Fits(ring) /\ counter \in 0..N
  BY DEF IInv, TypeOK, RingType
<1>1. CASE AllMessagesClear
  <2>1. ring' = Forget(Slots) /\ counter' = counter /\ out' = None
    BY <1>1 DEF AllMessagesClear
  <2>2. \A i \in Slots : ring'[i] = Blank
    BY <1>t, <2>1, ForgetInv
  <2>3. \A a \in Slots : SlotOf(a)' \in Slots
    BY <1>t, <2>1, SlotFacts DEF SlotOf
  <2>4. Win' = [a \in Slots |-> Blank]
    BY <2>2, <2>3 DEF Win
  <2>5. Window!ForgetAll
    BY <2>1, <2>4 DEF Window!ForgetAll, Window!Ages, Window!Blank, Slots, Blank, Win
  <2> QED
    BY <2>5 DEF Window!Next
<1>2. ASSUME NEW m \in Msgs, NewCall(m) PROVE Window!Next
  BY <1>t, <1>2, WindowNewCall DEF NewCall
<1>3. ASSUME NEW m \in Msgs, ReceiveRequest(m) PROVE Window!Next
  BY <1>t, <1>3, WindowRequest DEF ReceiveRequest
<1>4. ASSUME NEW m \in Msgs, TagMismatch(m) PROVE Window!Next
  <2> DEFINE ignore == FALSE
  <2>1. /\ m.req /\ ~ignore /\ ignore \in BOOLEAN /\ UNCHANGED counter /\ out' = None
        /\ ring' \in CoupledMessageStore(ring, m, m.tag, ignore, 0)
    BY <1>4 DEF TagMismatch
  <2> HIDE DEF ignore
  <2> QED
    BY <2>1, WindowCouple
<1>5. ASSUME NEW m \in Msgs, Answer(m) PROVE Window!Next
  <2> DEFINE ignore == m.method = "NOTIFY" \/ phase[m.call] = "responding"
  <2>1. m \in open /\ out' = None /\ UNCHANGED counter
    BY <1>5 DEF Answer
  <2>2. PICK tag \in {m.tag, "us"} :
              ring' \in CoupledMessageStore(ring, m, tag, ignore, 0)
    BY <1>5 DEF Answer
  <2>3. ignore \in BOOLEAN /\ m.req
    BY <2>1 DEF IInv, Pending
  <2>4. ignore => m.method = "NOTIFY" \/ phase[m.call] = "responding"
    OBVIOUS
  <2> HIDE DEF ignore
  <2> QED
    BY <2>1, <2>2, <2>3, <2>4, WindowCouple
<1>6. ASSUME NEW m \in Msgs, PreviousRequest(m) PROVE Window!Next
  <2>1. m.req /\ UNCHANGED counter
    BY <1>6 DEF PreviousRequest
  <2>2. CASE /\ ring' = ring
             /\ \E i \in FirstOf(IsDuplicate(ring, m)) : CoupledMessageSend(ring, i, m)
    BY <1>t, <2>1, <2>2, WindowResend DEF FirstOf
  <2>3. CASE /\ ring' \in CoupledMessageStore(ring, m, m.tag, FALSE, 0)
             /\ out' = None
    <3> DEFINE ignore == FALSE
    <3>1. /\ ~ignore /\ ignore \in BOOLEAN
          /\ ring' \in CoupledMessageStore(ring, m, m.tag, ignore, 0)
      BY <2>3
    <3> HIDE DEF ignore
    <3> QED
      BY <2>1, <2>3, <3>1, WindowCouple
  <2> QED
    BY <1>6, <2>2, <2>3 DEF PreviousRequest
<1>7. ASSUME NEW m \in Msgs, ReceiveResponse(m) PROVE Window!Next
  <2>1. \/ out' = None
        \/ /\ IsDuplicate(ring, m) # {}
           /\ \E i \in FirstOf(IsDuplicate(ring, m)) : CoupledMessageSend(ring, i, m)
    BY <1>7 DEF ReceiveResponse, FirstOf
  <2>2. out' = None \/ (IsDuplicate(ring, m) # {} /\ Window!Resent(m))
    BY <1>t, <2>1, WindowResent DEF FirstOf
  <2>3. CASE (IsDuplicate(ring, m) = {} \/ IsProvisional(m)) /\ counter' = StoreAt + 1
             /\ (HandOn(Stored(ring, m), m) \/ ring' = Stored(ring, m))
    <3>1. out' = None \/ (IsProvisional(m) /\ Window!Resent(m))
      BY <2>2, <2>3
    <3>2. \/ ring' = Stored(ring, m)
          \/ /\ ring' \in CoupledMessageStore(Stored(ring, m), m, m.tag, FALSE, m.code)
             /\ ~IsProvisional(m)
      <4>1. m.code \in Nat
        BY MsgFields
      <4>2. CASE m.code >= 300
        <5>1. ~IsProvisional(m)
          BY <4>1, <4>2 DEF IsProvisional
        <5> QED
          BY <2>3, <5>1 DEF HandOn
      <4>3. CASE ~(m.code >= 300)
        BY <2>3, <4>3 DEF HandOn
      <4> QED
        BY <4>2, <4>3
    <3> QED
      BY <1>7, <2>3, <3>1, <3>2, WindowRecorded DEF ReceiveResponse
  <2>4. CASE IsDuplicate(ring, m) # {} /\ UNCHANGED <<ring, counter>>
    <3>1. CASE out' = None
      BY <2>4, <3>1, WindowQuiet
    <3>2. CASE \E i \in FirstOf(IsDuplicate(ring, m)) : CoupledMessageSend(ring, i, m)
      BY <1>t, <2>4, <3>2, WindowResend DEF FirstOf
    <3> QED
      BY <2>1, <3>1, <3>2
  <2> QED
    BY <1>7, <2>3, <2>4 DEF ReceiveResponse
<1>8. ASSUME NEW m \in Msgs, PreviousResponse(m) PROVE Window!Next
  BY <1>t, <1>8, WindowResend DEF PreviousResponse, FirstOf
<1>9. ASSUME NEW c \in Calls, SendAck(c) PROVE Window!Next
  <2> DEFINE ignore == FALSE
             m == toAck[c]
  <2>1. m \in Msgs /\ ~m.req
    BY <1>9 DEF SendAck, IInv, Pending, TypeOK
  <2>2. /\ ~ignore /\ ignore \in BOOLEAN /\ UNCHANGED counter /\ out' = None
        /\ ring' \in CoupledMessageStore(ring, m, m.tag, ignore, lastCode[c])
    BY <1>9 DEF SendAck
  <2> HIDE DEF ignore, m
  <2> QED
    BY <2>1, <2>2, WindowCouple
<1>10. ASSUME NEW c \in Calls, Advance(c) PROVE Window!Next
  BY <1>10, WindowQuiet DEF Advance
<1>11. CASE UNCHANGED vars
  BY <1>11, WinSame DEF vars
<1> QED
  BY <1>1, <1>2, <1>3, <1>4, <1>5, <1>6, <1>7, <1>8, <1>9, <1>10, <1>11 DEF Next

(* The ring with its lazily wrapping cursor implements the window: among   *)
(* the last N messages recorded, whatever N, none but a provisional        *)
(* response is handed on twice, and what is kept with a message stays with *)
(* it until N more have been recorded.                                     *)
THEOREM RingIsWindow == Spec => IsWindow
<1>1. Init => Window!Init
  <2> SUFFICES ASSUME Init PROVE Window!Init
    OBVIOUS
  <2>1. counter \in 0..N /\ ring = [i \in Slots |-> Blank] /\ out = None
    BY NAssumption DEF Init
  <2>2. \A a \in Slots : ring[SlotOf(a)] = Blank
    BY <2>1, SlotFacts
  <2> QED
    BY <2>1, <2>2 DEF Window!Init, Window!Ages, Window!Blank, Slots, Blank
<1>2. IInv /\ [Next]_vars => [Window!Next]_<<[a \in Slots |-> ring[SlotOf(a)]], out>>
  BY WindowStep DEF Win
<1> QED
  BY <1>1, <1>2, Invariance, PTL DEF Spec, IsWindow, Window!Spec
=============================================================================
