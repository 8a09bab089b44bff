------------------------ MODULE CprTimersTimeProofs ------------------------
(***************************************************************************)
(* TLAPS proof that the list of deltas keeps time (CprTimers!OnTime), for  *)
(* any number of timers and any durations, in a program whose threads do   *)
(* not race in cprCreateTimer().  Every change of the list is an insertion *)
(* or a removal that leaves the sums of deltas of the other timers as they *)
(* are, after what the command cost was taken off the head.                *)
(***************************************************************************)
EXTENDS CprTimersProofs

-----------------------------------------------------------------------------
(* Sums of deltas                                                          *)

\* d gives each of the first n timers of l a delta.
Deltas(d, l, n) == \A j \in 1 .. n : d[l[j]] \in Int

LEMMA DeltaSums ==
    ASSUME NEW d, NEW l, NEW n \in Nat, Deltas(d, l, n)
    PROVE  /\ Prefix(d, l, 0) = 0
           /\ \A k \in 0 .. n : Prefix(d, l, k) \in Int
           /\ \A k \in 1 .. n : Prefix(d, l, k) = Prefix(d, l, k - 1) + d[l[k]]
<1>1. \A j \in 1 .. n : d[l[j]] \in Int
  BY DEF Deltas
<1> QED
  BY <1>1, PrefixSums

\* The n deltas of list l from place a on are those of list r from b on.
Alike(d, l, a, e, r, b, n) == \A j \in 1 .. n : d[l[a + j]] = e[r[b + j]]

\* From those places on the sums grow alike.
GrowAlike(d, l, a, e, r, b, n) ==
    \A j \in 0 .. n :
        Prefix(d, l, a + j) - Prefix(d, l, a) = Prefix(e, r, b + j) - Prefix(e, r, b)

LEMMA SumsShift ==
    ASSUME NEW d, NEW l, NEW a \in Nat, NEW e, NEW r, NEW b \in Nat, NEW n \in Nat,
           NEW p \in Nat, NEW q \in Nat, a + n <= p, b + n <= q,
           Deltas(d, l, p), Deltas(e, r, q), Alike(d, l, a, e, r, b, n)
    PROVE  GrowAlike(d, l, a, e, r, b, n)
<1> DEFINE P == [j \in 0 .. n |-> Prefix(d, l, a + j)]
           Q == [j \in 0 .. n |-> Prefix(e, r, b + j)]
           S == {j \in 0 .. n : P[j] - P[0] = Q[j] - Q[0]}
<1>1. /\ \A j \in 0 .. n : P[j] \in Int
      /\ \A j \in 1 .. n : P[j] = P[j - 1] + d[l[a + j]]
  <2>1. /\ \A k \in 0 .. p : Prefix(d, l, k) \in Int
        /\ \A k \in 1 .. p : Prefix(d, l, k) = Prefix(d, l, k - 1) + d[l[k]]
    BY DeltaSums
  <2>2. \A j \in 0 .. n : a + j \in 0 .. p
    OBVIOUS
  <2>3. \A j \in 1 .. n : j - 1 \in 0 .. n /\ a + j \in 1 .. p /\ (a + j) - 1 = a + (j - 1)
    OBVIOUS
  <2>4. ASSUME NEW j \in 0 .. n PROVE P[j] \in Int
    BY <2>1, <2>2
  <2>5. ASSUME NEW j \in 1 .. n PROVE P[j] = P[j - 1] + d[l[a + j]]
    <3>1. P[j] = Prefix(d, l, a + j) /\ P[j - 1] = Prefix(d, l, a + (j - 1))
      BY <2>3
    <3> QED
      BY <2>1, <2>3, <3>1
  <2> QED
    BY <2>4, <2>5
<1>2. /\ \A j \in 0 .. n : Q[j] \in Int
      /\ \A j \in 1 .. n : Q[j] = Q[j - 1] + e[r[b + j]]
  <2>1. /\ \A k \in 0 .. q : Prefix(e, r, k) \in Int
        /\ \A k \in 1 .. q : Prefix(e, r, k) = Prefix(e, r, k - 1) + e[r[k]]
    BY DeltaSums
  <2>2. \A j \in 0 .. n : b + j \in 0 .. q
    OBVIOUS
  <2>3. \A j \in 1 .. n : j - 1 \in 0 .. n /\ b + j \in 1 .. q /\ (b + j) - 1 = b + (j - 1)
    OBVIOUS
  <2>4. ASSUME NEW j \in 0 .. n PROVE Q[j] \in Int
    BY <2>1, <2>2
  <2>5. ASSUME NEW j \in 1 .. n PROVE Q[j] = Q[j - 1] + e[r[b + j]]
    <3>1. Q[j] = Prefix(e, r, b + j) /\ Q[j - 1] = Prefix(e, r, b + (j - 1))
      BY <2>3
    <3> QED
      BY <2>1, <2>3, <3>1
  <2> QED
    BY <2>4, <2>5
<1>3. P[0] = Prefix(d, l, a) /\ Q[0] = Prefix(e, r, b)
  OBVIOUS
<1>4. \A j \in 1 .. n : d[l[a + j]] \in Int /\ d[l[a + j]] = e[r[b + j]]
  <2>1. \A j \in 1 .. n : a + j \in 1 .. p
    OBVIOUS
  <2> QED
    BY <2>1 DEF Deltas, Alike
<1> HIDE DEF P, Q
<1>5. 0 \in S
  BY <1>1, <1>2
<1>6. ASSUME NEW k \in 0 .. n - 1, k \in S PROVE k + 1 \in S
  <2>1. k + 1 \in 1 .. n /\ (k + 1) - 1 = k /\ k \in 0 .. n /\ 0 \in 0 .. n /\ k + 1 \in 0 .. n
    OBVIOUS
  <2>2. P[k + 1] = P[k] + d[l[a + (k + 1)]] /\ Q[k + 1] = Q[k] + e[r[b + (k + 1)]]
    BY <1>1, <1>2, <2>1
  <2>3. d[l[a + (k + 1)]] = e[r[b + (k + 1)]] /\ d[l[a + (k + 1)]] \in Int
    BY <1>4, <2>1
  <2>4. P[k] - P[0] = Q[k] - Q[0]
    BY <1>6
  <2>5. P[k] \in Int /\ P[0] \in Int /\ Q[k] \in Int /\ Q[0] \in Int
    BY <1>1, <1>2, <2>1
  <2> QED
    BY <2>1, <2>2, <2>3, <2>4, <2>5
<1> HIDE DEF S
<1>7. 0 .. n \subseteq S
  BY <1>5, <1>6, UpTo
<1>8. \A j \in 0 .. n : P[j] - P[0] = Q[j] - Q[0]
  BY <1>7 DEF S
<1> QED
  BY <1>3, <1>8 DEF P, Q, GrowAlike

(* In particular, sums up to the same place are equal. *)
SameSums(d, l, e, r, n) == \A j \in 0 .. n : Prefix(d, l, j) = Prefix(e, r, j)

LEMMA SumsEqual ==
    ASSUME NEW d, NEW l, NEW e, NEW r, NEW n \in Nat, NEW p \in Nat, NEW q \in Nat,
           n <= p, n <= q, Deltas(d, l, p), Deltas(e, r, q), Alike(d, l, 0, e, r, 0, n)
    PROVE  SameSums(d, l, e, r, n)
<1>1. 0 + n <= p /\ 0 + n <= q /\ 0 \in Nat
  OBVIOUS
<1>2. GrowAlike(d, l, 0, e, r, 0, n)
  BY <1>1, SumsShift
<1>3. /\ Prefix(d, l, 0) = 0 /\ \A k \in 0 .. p : Prefix(d, l, k) \in Int
      /\ Prefix(e, r, 0) = 0 /\ \A k \in 0 .. q : Prefix(e, r, k) \in Int
  BY DeltaSums
<1>4. ASSUME NEW j \in 0 .. n PROVE Prefix(d, l, j) = Prefix(e, r, j)
  <2>1. j \in 0 .. p /\ j \in 0 .. q /\ 0 + j = j
    OBVIOUS
  <2>2. Prefix(d, l, 0 + j) - Prefix(d, l, 0) = Prefix(e, r, 0 + j) - Prefix(e, r, 0)
    BY <1>2 DEF GrowAlike
  <2>3. Prefix(d, l, j) - Prefix(d, l, 0) = Prefix(e, r, j) - Prefix(e, r, 0)
    BY <2>1, <2>2
  <2> QED
    BY <1>3, <2>1, <2>3
<1> QED
  BY <1>4 DEF SameSums

-----------------------------------------------------------------------------
(* What the service does to the list                                       *)

(* The deltas d of list l reach each timer at its deadline in a clock that *)
(* shows t: early by no more than er, and late by no more than g.          *)
Due(d, l, dl, er, t, g) ==
    \A k \in 1 .. Len(l) :
        /\ Prefix(d, l, k) >= dl[l[k]] - t - er[l[k]]
        /\ Prefix(d, l, k) <= dl[l[k]] - t + g

LEMMA ListDeltas ==
    ASSUME NEW d \in [Timers -> Int], NEW l \in Seq(Timers)
    PROVE  /\ Deltas(d, l, Len(l)) /\ \A k \in 1 .. Len(l) : l[k] \in Timers
           /\ Prefix(d, l, 0) = 0
           /\ \A k \in 0 .. Len(l) : Prefix(d, l, k) \in Int
           /\ \A k \in 1 .. Len(l) : Prefix(d, l, k) = Prefix(d, l, k - 1) + d[l[k]]
<1>1. \A k \in 1 .. Len(l) : l[k] \in Timers
  BY ElementOfSeq
<1>2. Deltas(d, l, Len(l))
  BY <1>1 DEF Deltas
<1> QED
  BY <1>1, <1>2, DeltaSums

(* Only the deltas of listed timers matter. *)
SameOn(l, d, e) == \A u \in Timers : Has(l, u) => e[u] = d[u]

LEMMA DueElsewhere ==
    ASSUME NEW l \in Seq(Timers), NEW d \in [Timers -> Int], NEW e \in [Timers -> Int],
           NEW dl, NEW er, NEW t, NEW g, Due(d, l, dl, er, t, g), SameOn(l, d, e)
    PROVE  Due(e, l, dl, er, t, g)
<1>1. Alike(d, l, 0, e, l, 0, Len(l))
  <2>1. \A k \in 1 .. Len(l) : l[k] \in Timers /\ Has(l, l[k])
    BY ListDeltas DEF Has
  <2> QED
    BY <2>1 DEF Alike, SameOn
<1>2. Deltas(d, l, Len(l)) /\ Deltas(e, l, Len(l))
  BY ListDeltas, Zenon
<1>3. Len(l) \in Nat /\ Len(l) <= Len(l)
  OBVIOUS
<1>4. SameSums(d, l, e, l, Len(l))
  BY <1>1, <1>2, <1>3, SumsEqual
<1>5. \A k \in 1 .. Len(l) : k \in 0 .. Len(l)
  OBVIOUS
<1> QED
  BY <1>4, <1>5 DEF SameSums, Due

(* Nor does it matter how early others may be. *)
LEMMA DueFor ==
    ASSUME NEW d, NEW l \in Seq(Timers), NEW dl, NEW er, NEW t, NEW g, Due(d, l, dl, er, t, g),
           NEW es, SameOn(l, er, es)
    PROVE  Due(d, l, dl, es, t, g)
<1>1. \A k \in 1 .. Len(l) : l[k] \in Timers /\ Has(l, l[k])
  BY ListDeltas DEF Has
<1> QED
  BY <1>1 DEF Due, SameOn

(* Setting the delta of the head moves all timers alike. *)
LEMMA HeadShift ==
    ASSUME NEW l \in Seq(Timers), l # <<>>, Once(l), NEW d \in [Timers -> Int], NEW x \in Int
    PROVE  \A k \in 1 .. Len(l) :
              Prefix([d EXCEPT ![l[1]] = x], l, k) = Prefix(d, l, k) + x - d[l[1]]
<1> DEFINE e == [d EXCEPT ![l[1]] = x]
<1>1. 1 \in 1 .. Len(l) /\ l[1] \in Timers /\ Len(l) - 1 \in Nat /\ 1 + (Len(l) - 1) = Len(l)
  <2>1. Len(l) \in Nat /\ Len(l) # 0
    BY EmptySeq
  <2> QED
    BY <2>1, ElementOfSeq
<1>2. e \in [Timers -> Int] /\ e[l[1]] = x
  BY <1>1
<1>3. Alike(d, l, 1, e, l, 1, Len(l) - 1)
  <2> SUFFICES ASSUME NEW j \in 1 .. Len(l) - 1 PROVE d[l[1 + j]] = e[l[1 + j]]
    BY DEF Alike
  <2>1. 1 + j \in 1 .. Len(l) /\ 1 + j # 1
    BY <1>1
  <2>2. l[1 + j] # l[1] /\ l[1 + j] \in Timers
    BY <1>1, <2>1, ListDeltas DEF Once
  <2> QED
    BY <2>2
<1> HIDE DEF e
<1>4. GrowAlike(d, l, 1, e, l, 1, Len(l) - 1)
  <2>1. Deltas(d, l, Len(l)) /\ Deltas(e, l, Len(l)) /\ 1 + (Len(l) - 1) <= Len(l)
    BY <1>1, <1>2, ListDeltas
  <2>2. Len(l) \in Nat
    OBVIOUS
  <2> QED
    BY <1>1, <1>3, <2>1, <2>2, SumsShift
<1>5. Prefix(d, l, 1) = d[l[1]] /\ Prefix(e, l, 1) = x
  <2>1. \A f \in [Timers -> Int] : Prefix(f, l, 1) = f[l[1]]
    <3> SUFFICES ASSUME NEW f \in [Timers -> Int] PROVE Prefix(f, l, 1) = f[l[1]]
      OBVIOUS
    <3>1. Prefix(f, l, 1) = Prefix(f, l, 1 - 1) + f[l[1]] /\ Prefix(f, l, 0) = 0
      BY <1>1, ListDeltas
    <3>2. f[l[1]] \in Int
      BY <1>1
    <3> QED
      BY <3>1, <3>2
  <2> QED
    BY <1>2, <2>1
<1>6. ASSUME NEW k \in 1 .. Len(l) PROVE Prefix(e, l, k) = Prefix(d, l, k) + x - d[l[1]]
  <2>1. k - 1 \in 0 .. Len(l) - 1 /\ 1 + (k - 1) = k /\ k \in 0 .. Len(l)
    BY <1>1
  <2>2. Prefix(d, l, 1 + (k - 1)) - Prefix(d, l, 1) = Prefix(e, l, 1 + (k - 1)) - Prefix(e, l, 1)
    BY <1>4, <2>1 DEF GrowAlike
  <2>4. Prefix(d, l, k) - d[l[1]] = Prefix(e, l, k) - x
    BY <1>5, <2>1, <2>2
  <2>3. Prefix(d, l, k) \in Int /\ Prefix(e, l, k) \in Int /\ d[l[1]] \in Int
    BY <1>1, <1>2, <2>1, ListDeltas
  <2> QED
    BY <2>3, <2>4
<1> QED
  BY <1>6 DEF e

(* How addTimer changes the deltas d into e when it puts u with duration D *)
(* into l at place p, and how removeTimer does for the timer at place p.   *)
Linked(d, l, u, D, p, e) ==
    \E delta \in Int :
        /\ delta = D - Prefix(d, l, p - 1)
        /\ e = IF p <= Len(l) THEN [[d EXCEPT ![u] = delta] EXCEPT ![l[p]] = @ - delta]
                              ELSE [d EXCEPT ![u] = delta]

Unlinked(d, l, p, e) ==
    e = IF p < Len(l) THEN [[d EXCEPT ![l[p]] = -1] EXCEPT ![l[p + 1]] = @ + d[l[p]]]
                      ELSE [d EXCEPT ![l[p]] = -1]

(* addTimer: the sums of the others stay, the new timer's is D. *)
SumsAfter(d, l, u, D, p, e) ==
    LET r == InsertedAt(l, p, u)
    IN  /\ Len(r) = Len(l) + 1
        /\ \A i \in 1 .. Len(l) + 1 :
              /\ r[i] = IF i < p THEN l[i] ELSE IF i = p THEN u ELSE l[i - 1]
              /\ Prefix(e, r, i) = IF i < p THEN Prefix(d, l, i)
                                   ELSE IF i = p THEN D ELSE Prefix(d, l, i - 1)

LEMMA InsertSums ==
    ASSUME NEW d \in [Timers -> Int], NEW l \in Seq(Timers), Once(l), NEW u \in Timers,
           ~Has(l, u), NEW D \in Int, NEW p \in 1 .. Len(l) + 1, NEW e, Linked(d, l, u, D, p, e)
    PROVE  SumsAfter(d, l, u, D, p, e)
<1> DEFINE r == InsertedAt(l, p, u)
           n == Len(l)
<1>1. /\ r \in Seq(Timers) /\ Len(r) = n + 1
      /\ \A i \in 1 .. n + 1 : r[i] = IF i < p THEN l[i] ELSE IF i = p THEN u ELSE l[i - 1]
  <2>1. InsertedAs(Timers, l, p, u)
    BY InsertedProperties
  <2> QED
    BY ONLY <2>1 DEF InsertedAs
<1>2. n \in Nat /\ p \in Nat /\ 1 <= p /\ p <= n + 1
  OBVIOUS
<1>3. \A i \in 1 .. n : l[i] \in Timers /\ l[i] # u
  BY ListDeltas DEF Has
<1>d. PICK delta \in Int :
         /\ delta = D - Prefix(d, l, p - 1)
         /\ e = IF p <= n THEN [[d EXCEPT ![u] = delta] EXCEPT ![l[p]] = @ - delta]
                          ELSE [d EXCEPT ![u] = delta]
  BY DEF Linked
<1>4. /\ e \in [Timers -> Int] /\ e[u] = delta
      /\ \A i \in 1 .. n : e[l[i]] = IF i = p THEN d[l[p]] - delta ELSE d[l[i]]
  <2> DEFINE new == [d EXCEPT ![u] = delta]
  <2>1. new \in [Timers -> Int] /\ new[u] = delta /\ \A i \in 1 .. n : new[l[i]] = d[l[i]]
    BY <1>3
  <2> HIDE DEF new
  <2>2. CASE p <= n
    <3>1. p \in 1 .. n /\ e = [new EXCEPT ![l[p]] = @ - delta]
      BY <1>2, <1>d, <2>2 DEF new
    <3>2. l[p] \in Timers /\ l[p] # u /\ new[l[p]] = d[l[p]] /\ d[l[p]] \in Int
      BY <1>3, <2>1, <3>1
    <3>3. e \in [Timers -> Int] /\ e[u] = delta /\ e[l[p]] = d[l[p]] - delta
      BY <2>1, <3>1, <3>2
    <3>4. ASSUME NEW i \in 1 .. n, i # p PROVE e[l[i]] = d[l[i]]
      <4>1. l[i] # l[p] /\ l[i] \in Timers
        BY <1>3, <3>1, <3>4 DEF Once
      <4> QED
        BY <2>1, <3>1, <4>1
    <3> QED
      BY <3>3, <3>4
  <2>3. CASE ~(p <= n)
    <3>1. e = new /\ \A i \in 1 .. n : i # p
      BY <1>2, <1>d, <2>3 DEF new
    <3> QED
      BY <2>1, <3>1
  <2> QED
    BY <2>2, <2>3
<1> HIDE DEF r
<1>5. /\ Deltas(d, l, n) /\ Deltas(e, r, n + 1) /\ n + 1 \in Nat
      /\ \A k \in 0 .. n : Prefix(d, l, k) \in Int
      /\ \A k \in 1 .. n : Prefix(d, l, k) = Prefix(d, l, k - 1) + d[l[k]]
      /\ \A k \in 0 .. n + 1 : Prefix(e, r, k) \in Int
      /\ \A k \in 1 .. n + 1 : Prefix(e, r, k) = Prefix(e, r, k - 1) + e[r[k]]
  <2>1. /\ Deltas(d, l, n) /\ \A k \in 0 .. n : Prefix(d, l, k) \in Int
        /\ \A k \in 1 .. n : Prefix(d, l, k) = Prefix(d, l, k - 1) + d[l[k]]
    BY ListDeltas
  <2>2. e \in [Timers -> Int] /\ r \in Seq(Timers)
    BY <1>1, <1>4
  <2>3. /\ Deltas(e, r, Len(r)) /\ \A k \in 0 .. Len(r) : Prefix(e, r, k) \in Int
        /\ \A k \in 1 .. Len(r) : Prefix(e, r, k) = Prefix(e, r, k - 1) + e[r[k]]
    BY <2>2, ListDeltas
  <2>4. Len(r) = n + 1 /\ n + 1 \in Nat
    BY <1>1, <1>2
  <2>5. Deltas(e, r, n + 1)
    BY <2>3, <2>4, Zenon
  <2>6. /\ \A k \in 0 .. n + 1 : Prefix(e, r, k) \in Int
        /\ \A k \in 1 .. n + 1 : Prefix(e, r, k) = Prefix(e, r, k - 1) + e[r[k]]
    BY <2>3, <2>4, Zenon
  <2> QED
    BY <2>1, <2>4, <2>5, <2>6
<1>6. \A j \in 0 .. p - 1 : Prefix(d, l, j) = Prefix(e, r, j)
  <2>1. Alike(d, l, 0, e, r, 0, p - 1)
    <3> SUFFICES ASSUME NEW j \in 1 .. p - 1 PROVE d[l[0 + j]] = e[r[0 + j]]
      BY DEF Alike
    <3>1. j \in 1 .. n /\ j \in 1 .. n + 1 /\ j < p /\ j # p /\ 0 + j = j
      BY <1>2
    <3> QED
      BY <1>1, <1>4, <3>1
  <2>2. p - 1 \in Nat /\ p - 1 <= n /\ p - 1 <= n + 1
    BY <1>2
  <2>3. SameSums(d, l, e, r, p - 1)
    BY <1>2, <1>5, <2>1, <2>2, SumsEqual
  <2> QED
    BY <2>3 DEF SameSums
<1>7. Prefix(e, r, p) = D /\ Prefix(d, l, p - 1) \in Int
  <2>1. p \in 1 .. n + 1 /\ p - 1 \in 0 .. n /\ p - 1 \in 0 .. p - 1 /\ ~(p < p)
    BY <1>2
  <2>2. r[p] = u /\ Prefix(e, r, p) = Prefix(e, r, p - 1) + e[r[p]]
    <3>1. r[p] = u
      BY <1>1, <2>1
    <3> QED
      BY <1>5, <2>1, <3>1
  <2>3. Prefix(e, r, p - 1) = Prefix(d, l, p - 1) /\ Prefix(d, l, p - 1) \in Int
    BY <1>5, <1>6, <2>1
  <2> QED
    BY <1>4, <1>d, <2>2, <2>3
<1>8. ASSUME p <= n PROVE \A j \in 0 .. n - p : Prefix(e, r, (p + 1) + j) = Prefix(d, l, p + j)
  <2>1. p \in 1 .. n /\ p + 1 \in 1 .. n + 1 /\ (p + 1) - 1 = p /\ ~(p + 1 < p) /\ p + 1 # p
    BY <1>2, <1>8
  <2>2. r[p + 1] = l[p] /\ e[l[p]] = d[l[p]] - delta
    <3>1. r[p + 1] = l[(p + 1) - 1]
      BY <1>1, <2>1
    <3>2. e[l[p]] = d[l[p]] - delta
      BY <1>4, <2>1
    <3> QED
      BY <2>1, <3>1, <3>2
  <2>3. /\ Prefix(e, r, p + 1) = Prefix(e, r, p) + e[r[p + 1]]
        /\ Prefix(d, l, p) = Prefix(d, l, p - 1) + d[l[p]]
    BY <1>5, <2>1
  <2>4. d[l[p]] \in Int
    BY <1>3, <2>1
  <2>5. Prefix(e, r, p + 1) = Prefix(d, l, p)
    <3>1. delta = D - Prefix(d, l, p - 1)
      BY <1>d
    <3>2. Prefix(e, r, p + 1) = D + (d[l[p]] - delta)
      BY <1>7, <2>2, <2>3
    <3>3. Prefix(d, l, p - 1) \in Int /\ D \in Int
      BY <1>7
    <3> HIDE <1>d
    <3> QED
      BY <2>3, <2>4, <3>1, <3>2, <3>3
  <2>6. Alike(d, l, p, e, r, p + 1, n - p)
    <3> SUFFICES ASSUME NEW j \in 1 .. n - p PROVE d[l[p + j]] = e[r[(p + 1) + j]]
      BY DEF Alike
    <3>1. /\ p + j \in 1 .. n /\ p + j # p /\ (p + 1) + j \in 1 .. n + 1
          /\ ~((p + 1) + j < p) /\ (p + 1) + j # p /\ ((p + 1) + j) - 1 = p + j
      BY <1>2, <1>8
    <3>2. r[(p + 1) + j] = l[p + j]
      BY <1>1, <3>1
    <3>3. e[l[p + j]] = d[l[p + j]]
      BY <1>4, <3>1
    <3> QED
      BY ONLY <3>2, <3>3
  <2>7. n - p \in Nat /\ p + (n - p) <= n /\ (p + 1) + (n - p) <= n + 1 /\ p + 1 \in Nat
    BY <1>2, <1>8
  <2>8. GrowAlike(d, l, p, e, r, p + 1, n - p)
    BY <1>2, <1>5, <2>6, <2>7, SumsShift
  <2>9. ASSUME NEW j \in 0 .. n - p PROVE Prefix(e, r, (p + 1) + j) = Prefix(d, l, p + j)
    <3>1. Prefix(d, l, p + j) - Prefix(d, l, p) = Prefix(e, r, (p + 1) + j) - Prefix(e, r, p + 1)
      BY <2>8 DEF GrowAlike
    <3>2. p + j \in 0 .. n /\ p \in 0 .. n /\ (p + 1) + j \in 0 .. n + 1 /\ p + 1 \in 0 .. n + 1
      BY <1>2, <1>8
    <3>3. /\ Prefix(d, l, p + j) \in Int /\ Prefix(d, l, p) \in Int
          /\ Prefix(e, r, (p + 1) + j) \in Int /\ Prefix(e, r, p + 1) \in Int
      BY <1>5, <3>2
    <3> QED
      BY <2>5, <3>1, <3>3
  <2> QED
    BY <2>9
<1>9. ASSUME NEW k \in 1 .. n + 1
      PROVE  Prefix(e, r, k) = IF k < p THEN Prefix(d, l, k)
                               ELSE IF k = p THEN D ELSE Prefix(d, l, k - 1)
  <2>1. CASE k < p
    <3>1. k \in 0 .. p - 1
      BY <1>2, <2>1
    <3> QED
      BY <1>6, <2>1, <3>1
  <2>2. CASE k = p
    BY <1>2, <1>7, <2>2
  <2>3. CASE k > p
    <3> DEFINE j == k - (p + 1)
    <3>1. p <= n /\ j \in 0 .. n - p /\ (p + 1) + j = k /\ p + j = k - 1 /\ ~(k < p) /\ k # p
      BY <1>2, <2>3
    <3> HIDE DEF j
    <3>2. Prefix(e, r, (p + 1) + j) = Prefix(d, l, p + j)
      BY <1>8, <3>1
    <3> QED
      BY <3>1, <3>2
  <2> QED
    BY <1>2, <2>1, <2>2, <2>3
<1> QED
  BY <1>1, <1>9 DEF r, SumsAfter

(* removeTimer: the sums of the others stay. *)
LEMMA RemoveSums ==
    ASSUME NEW d \in [Timers -> Int], NEW l \in Seq(Timers), Once(l),
           NEW p \in 1 .. Len(l), NEW e, Unlinked(d, l, p, e)
    PROVE  \A k \in 1 .. Len(l) - 1 :
              Prefix(e, Without(l, p), k) = IF k < p THEN Prefix(d, l, k) ELSE Prefix(d, l, k + 1)
<1> DEFINE r == Without(l, p)
           n == Len(l)
<1>1. /\ r \in Seq(Timers) /\ Len(r) = n - 1
      /\ \A i \in 1 .. n - 1 : r[i] = IF i < p THEN l[i] ELSE l[i + 1]
  BY WithoutProperties
<1>2. n \in Nat /\ p \in Nat /\ 1 <= p /\ p <= n /\ n - 1 \in Nat
  OBVIOUS
<1>3. \A i \in 1 .. n : l[i] \in Timers /\ d[l[i]] \in Int
  BY ListDeltas
<1>4. /\ e \in [Timers -> Int]
      /\ \A i \in 1 .. n : i # p => e[l[i]] = IF i = p + 1 THEN d[l[p + 1]] + d[l[p]] ELSE d[l[i]]
  <2> DEFINE new == [d EXCEPT ![l[p]] = -1]
  <2>1. new \in [Timers -> Int] /\ \A i \in 1 .. n : i # p => new[l[i]] = d[l[i]]
    BY <1>3 DEF Once
  <2> HIDE DEF new
  <2>2. CASE p < n
    <3>1. p + 1 \in 1 .. n /\ p + 1 # p /\ e = [new EXCEPT ![l[p + 1]] = @ + d[l[p]]]
      BY <1>2, <2>2 DEF new, Unlinked
    <3>2. l[p + 1] \in Timers /\ new[l[p + 1]] = d[l[p + 1]] /\ d[l[p]] \in Int /\ d[l[p + 1]] \in Int
      BY <1>3, <2>1, <3>1
    <3>3. e \in [Timers -> Int] /\ e[l[p + 1]] = d[l[p + 1]] + d[l[p]]
      BY <2>1, <3>1, <3>2
    <3>4. ASSUME NEW i \in 1 .. n, i # p, i # p + 1 PROVE e[l[i]] = d[l[i]]
      <4>1. l[i] # l[p + 1] /\ l[i] \in Timers
        BY <1>3, <3>1, <3>4 DEF Once
      <4> QED
        BY <2>1, <3>1, <3>4, <4>1
    <3> QED
      BY <3>3, <3>4
  <2>3. CASE ~(p < n)
    <3>1. e = new /\ \A i \in 1 .. n : i # p + 1
      BY <1>2, <2>3 DEF new, Unlinked
    <3> QED
      BY <2>1, <3>1
  <2> QED
    BY <2>2, <2>3
<1> HIDE DEF r
<1>5. /\ Deltas(d, l, n) /\ Deltas(e, r, n - 1)
      /\ \A k \in 0 .. n : Prefix(d, l, k) \in Int
      /\ \A k \in 1 .. n : Prefix(d, l, k) = Prefix(d, l, k - 1) + d[l[k]]
      /\ \A k \in 0 .. n - 1 : Prefix(e, r, k) \in Int
      /\ \A k \in 1 .. n - 1 : Prefix(e, r, k) = Prefix(e, r, k - 1) + e[r[k]]
  <2>1. /\ Deltas(d, l, n) /\ \A k \in 0 .. n : Prefix(d, l, k) \in Int
        /\ \A k \in 1 .. n : Prefix(d, l, k) = Prefix(d, l, k - 1) + d[l[k]]
    BY ListDeltas
  <2>2. e \in [Timers -> Int] /\ r \in Seq(Timers)
    BY <1>1, <1>4
  <2>3. /\ Deltas(e, r, Len(r)) /\ \A k \in 0 .. Len(r) : Prefix(e, r, k) \in Int
        /\ \A k \in 1 .. Len(r) : Prefix(e, r, k) = Prefix(e, r, k - 1) + e[r[k]]
    BY <2>2, ListDeltas
  <2>4. Len(r) = n - 1
    BY <1>1
  <2> QED
    BY <1>2, <2>1, <2>3, <2>4
<1>6. \A j \in 0 .. p - 1 : Prefix(d, l, j) = Prefix(e, r, j)
  <2>1. Alike(d, l, 0, e, r, 0, p - 1)
    <3> SUFFICES ASSUME NEW j \in 1 .. p - 1 PROVE d[l[0 + j]] = e[r[0 + j]]
      BY DEF Alike
    <3>1. j \in 1 .. n /\ j \in 1 .. n - 1 /\ j < p /\ j # p /\ j # p + 1 /\ 0 + j = j
      BY <1>2
    <3> QED
      BY <1>1, <1>4, <3>1
  <2>2. p - 1 \in Nat /\ p - 1 <= n /\ p - 1 <= n - 1
    BY <1>2
  <2>3. SameSums(d, l, e, r, p - 1)
    BY <1>2, <1>5, <2>1, <2>2, SumsEqual
  <2> QED
    BY <2>3 DEF SameSums
<1>7. ASSUME p < n PROVE \A j \in 0 .. n - (p + 1) : Prefix(e, r, p + j) = Prefix(d, l, (p + 1) + j)
  <2>1. /\ p \in 1 .. n - 1 /\ p \in 1 .. n /\ p + 1 \in 1 .. n /\ (p + 1) - 1 = p /\ p + 1 # p
        /\ ~(p < p) /\ p - 1 \in 0 .. p - 1 /\ p - 1 \in 0 .. n
    BY <1>2, <1>7
  <2>2. r[p] = l[p + 1] /\ e[l[p + 1]] = d[l[p + 1]] + d[l[p]]
    BY <1>1, <1>4, <2>1
  <2>3. /\ Prefix(e, r, p) = Prefix(e, r, p - 1) + e[r[p]]
        /\ Prefix(d, l, p + 1) = Prefix(d, l, p) + d[l[p + 1]]
        /\ Prefix(d, l, p) = Prefix(d, l, p - 1) + d[l[p]]
    BY <1>5, <2>1
  <2>4. /\ d[l[p]] \in Int /\ d[l[p + 1]] \in Int /\ Prefix(d, l, p - 1) \in Int
        /\ Prefix(e, r, p - 1) = Prefix(d, l, p - 1)
    BY <1>3, <1>5, <1>6, <2>1
  <2>5. Prefix(e, r, p) = Prefix(d, l, p + 1)
    BY <2>2, <2>3, <2>4
  <2>6. Alike(d, l, p + 1, e, r, p, n - (p + 1))
    <3> SUFFICES ASSUME NEW j \in 1 .. n - (p + 1) PROVE d[l[(p + 1) + j]] = e[r[p + j]]
      BY DEF Alike
    <3>1. /\ (p + 1) + j \in 1 .. n /\ (p + 1) + j # p /\ (p + 1) + j # p + 1
          /\ p + j \in 1 .. n - 1 /\ ~(p + j < p) /\ (p + j) + 1 = (p + 1) + j
      BY <1>2, <1>7
    <3>2. r[p + j] = l[(p + 1) + j]
      BY <1>1, <3>1
    <3> QED
      BY <1>4, <3>1, <3>2
  <2>7. /\ n - (p + 1) \in Nat /\ (p + 1) + (n - (p + 1)) <= n /\ p + (n - (p + 1)) <= n - 1
        /\ p + 1 \in Nat
    BY <1>2, <1>7
  <2>8. GrowAlike(d, l, p + 1, e, r, p, n - (p + 1))
    BY <1>2, <1>5, <2>6, <2>7, SumsShift
  <2>9. ASSUME NEW j \in 0 .. n - (p + 1) PROVE Prefix(e, r, p + j) = Prefix(d, l, (p + 1) + j)
    <3>1. Prefix(d, l, (p + 1) + j) - Prefix(d, l, p + 1) = Prefix(e, r, p + j) - Prefix(e, r, p)
      BY <2>8 DEF GrowAlike
    <3>2. (p + 1) + j \in 0 .. n /\ p + 1 \in 0 .. n /\ p + j \in 0 .. n - 1 /\ p \in 0 .. n - 1
      BY <1>2, <1>7
    <3>3. /\ Prefix(d, l, (p + 1) + j) \in Int /\ Prefix(d, l, p + 1) \in Int
          /\ Prefix(e, r, p + j) \in Int /\ Prefix(e, r, p) \in Int
      BY <1>5, <3>2
    <3> QED
      BY <2>5, <3>1, <3>3
  <2> QED
    BY <2>9
<1>8. ASSUME NEW k \in 1 .. n - 1
      PROVE  Prefix(e, r, k) = IF k < p THEN Prefix(d, l, k) ELSE Prefix(d, l, k + 1)
  <2>1. CASE k < p
    <3>1. k \in 0 .. p - 1
      BY <1>2, <2>1
    <3> QED
      BY <1>6, <2>1, <3>1
  <2>2. CASE ~(k < p)
    <3> DEFINE j == k - p
    <3>1. p < n /\ j \in 0 .. n - (p + 1) /\ p + j = k /\ (p + 1) + j = k + 1
      BY <1>2, <2>2
    <3> HIDE DEF j
    <3>2. Prefix(e, r, p + j) = Prefix(d, l, (p + 1) + j)
      BY <1>7, <3>1
    <3> QED
      BY <2>2, <3>1, <3>2
  <2> QED
    BY <2>1, <2>2
<1> QED
  BY <1>8 DEF r

-----------------------------------------------------------------------------
(* Every step keeps time                                                   *)

(* The deltas as the service counts them: in select() the kernel holds     *)
(* what is left of the first one.                                          *)
HeadHeld == IF list = <<>> THEN dur ELSE [dur EXCEPT ![Head(list)] = tv]
Counted == IF svc = "select" THEN HeadHeld ELSE dur

LEMMA CountedTime ==
    ASSUME TypeInv, Once(list)
    PROVE  /\ Counted \in [Timers -> Int]
           /\ \A k \in 1 .. Len(list) : TimeLeft(k) = Prefix(Counted, list, k)
<1>1. /\ list \in Seq(Timers) /\ dur \in [Timers -> Int] /\ tv \in Int
  BY DEF TypeInv, BlockTypes, ServiceTypes
<1>2. HeadHeld \in [Timers -> Int]
  BY <1>1, HeadTailProperties DEF HeadHeld
<1>3. ASSUME NEW k \in 1 .. Len(list) PROVE TimeLeft(k) = Prefix(Counted, list, k)
  <2>1. list # <<>> /\ Head(list) = list[1] /\ k \in 0 .. Len(list) /\ 1 \in 1 .. Len(list)
    BY <1>1
  <2>2. Prefix(dur, list, k) \in Int /\ dur[list[1]] \in Int
    BY <1>1, <2>1, ListDeltas
  <2>3. CASE svc = "select"
    <3>1. HeadHeld = [dur EXCEPT ![list[1]] = tv]
      BY <2>1 DEF HeadHeld
    <3>2. Prefix(HeadHeld, list, k) = Prefix(dur, list, k) + tv - dur[list[1]]
      BY <1>1, <2>1, <3>1, HeadShift
    <3> QED
      BY <1>1, <2>2, <2>3, <3>2 DEF TimeLeft, Counted
  <2>4. CASE svc # "select"
    BY <2>2, <2>4 DEF TimeLeft, Counted
  <2> QED
    BY <2>3, <2>4
<1> QED
  BY <1>1, <1>2, <1>3 DEF Counted

InTime == now < MaxTime => Due(Counted, list, deadline, early, now, lag)

LEMMA OnTimeDue == TypeInv /\ Once(list) => (OnTime <=> InTime)
<1> SUFFICES ASSUME TypeInv, Once(list) PROVE OnTime <=> InTime
  OBVIOUS
<1>1. \A k \in 1 .. Len(list) : TimeLeft(k) = Prefix(Counted, list, k)
  BY CountedTime
<1> QED
  BY <1>1 DEF OnTime, InTime, Due

(* select() starts from the delta of the head. *)
LEMMA EnterCounted ==
    ASSUME list' \in Seq(Timers), dur' \in [Timers -> Int],
           svc' # "select" \/ tv' = IF list' = <<>> THEN 0 ELSE dur'[Head(list')]
    PROVE  Counted' = dur'
<1>1. CASE svc' = "select" /\ list' # <<>>
  <2>1. Head(list') \in Timers
    BY <1>1, HeadTailProperties
  <2>2. HeadHeld' = [dur' EXCEPT ![Head(list')] = dur'[Head(list')]]
    BY <1>1 DEF HeadHeld
  <2> QED
    BY <1>1, <2>1, <2>2 DEF Counted
<1>2. CASE svc' # "select" \/ list' = <<>>
  BY <1>2 DEF Counted, HeadHeld
<1> QED
  BY <1>1, <1>2

(* What every command read costs. *)
Cut == [u \in Timers |-> early[u] + (Grain - 1)]

(* The rest of a millisecond is taken off the head, and so off all timers. *)
LEMMA CutDue ==
    ASSUME TypeInv, Once(list), svc = "select", Due(Counted, list, deadline, early, now, lag)
    PROVE  HeadLeft \in [Timers -> Int] /\ Due(HeadLeft, list, deadline, Cut, now, lag)
<1>1. /\ list \in Seq(Timers) /\ dur \in [Timers -> Int] /\ tv \in Int
      /\ deadline \in [Timers -> Int] /\ early \in [Timers -> Nat]
      /\ now \in Int /\ lag \in Int /\ Grain \in Int
  BY TimersAssumption DEF TypeInv, BlockTypes, ServiceTypes, ClockTypes
<1>2. HeadLeft \in [Timers -> Int]
  BY <1>1, HeadLeftType
<1>3. Whole(tv) \in Int /\ Whole(tv) <= tv /\ tv - (Grain - 1) <= Whole(tv)
  BY <1>1, WholeTime
<1>4. ASSUME NEW k \in 1 .. Len(list)
      PROVE  /\ Prefix(HeadLeft, list, k) >= deadline[list[k]] - now - Cut[list[k]]
             /\ Prefix(HeadLeft, list, k) <= deadline[list[k]] - now + lag
  <2>1. list # <<>> /\ Head(list) = list[1] /\ k \in 0 .. Len(list) /\ 1 \in 1 .. Len(list)
    BY <1>1
  <2>2. list[1] \in Timers /\ list[k] \in Timers
    BY <1>1, <2>1, ListDeltas
  <2>3. /\ HeadLeft = [dur EXCEPT ![list[1]] = Whole(tv)]
        /\ Counted = [dur EXCEPT ![list[1]] = tv]
    BY <2>1 DEF HeadLeft, Counted, HeadHeld
  <2>4. /\ Prefix(HeadLeft, list, k) = Prefix(dur, list, k) + Whole(tv) - dur[list[1]]
        /\ Prefix(Counted, list, k) = Prefix(dur, list, k) + tv - dur[list[1]]
    BY <1>1, <1>3, <2>1, <2>3, HeadShift
  <2>5. /\ Prefix(dur, list, k) \in Int /\ dur[list[1]] \in Int /\ deadline[list[k]] \in Int
        /\ early[list[k]] \in Int /\ Cut[list[k]] = early[list[k]] + (Grain - 1)
    <3>1. Prefix(dur, list, k) \in Int
      BY <1>1, <2>1, ListDeltas
    <3>2. /\ dur[list[1]] \in Int /\ deadline[list[k]] \in Int
          /\ early[list[k]] \in Nat /\ Cut[list[k]] = early[list[k]] + (Grain - 1)
      BY <1>1, <2>2 DEF Cut
    <3> QED
      BY <3>1, <3>2
  <2>6. /\ Prefix(Counted, list, k) >= deadline[list[k]] - now - early[list[k]]
        /\ Prefix(Counted, list, k) <= deadline[list[k]] - now + lag
    BY DEF Due
  <2>7. \A x, w, y, p, dl, er, g, h, n \in Int :
           /\ w <= y /\ y - (g - 1) <= w
           /\ p + y - x >= dl - n - er /\ p + y - x <= dl - n + h
           => p + w - x >= dl - n - (er + (g - 1)) /\ p + w - x <= dl - n + h
    OBVIOUS
  <2>8. /\ Prefix(dur, list, k) + Whole(tv) - dur[list[1]]
             >= deadline[list[k]] - now - (early[list[k]] + (Grain - 1))
        /\ Prefix(dur, list, k) + Whole(tv) - dur[list[1]] <= deadline[list[k]] - now + lag
    <3>1. /\ Prefix(dur, list, k) + tv - dur[list[1]] >= deadline[list[k]] - now - early[list[k]]
          /\ Prefix(dur, list, k) + tv - dur[list[1]] <= deadline[list[k]] - now + lag
      BY <2>4, <2>6, Zenon
    <3> QED
      BY <1>1, <1>3, <2>5, <2>7, <3>1, Zenon
  <2> QED
    BY <2>4, <2>5, <2>8, Zenon
<1> QED
  BY <1>2, <1>4 DEF Due

LEMMA AddTimerLinks ==
    ASSUME list \in Seq(Timers), NEW durs \in [Timers -> Int], NEW D \in Int,
           NEW t \in Timers, NEW dt, AddTimer(durs, t, D, dt)
    PROVE  \E k \in 1 .. Len(list) + 1 :
              list' = InsertedAt(list, k, t) /\ Linked(durs, list, t, D, k, dur')
<1>1. TimerAdded(durs, t, D)
  BY AddTimerEffect
<1> QED
  BY <1>1 DEF Linked, TimerAdded

LEMMA InsertDue ==
    ASSUME NEW d \in [Timers -> Int], NEW l \in Seq(Timers), Once(l), NEW u \in Timers,
           ~Has(l, u), NEW D \in Int, NEW p \in 1 .. Len(l) + 1, NEW e, Linked(d, l, u, D, p, e),
           NEW dl \in [Timers -> Int], NEW er \in [Timers -> Nat], NEW t \in Int, NEW g \in Nat,
           Due(d, l, dl, er, t, g)
    PROVE  Due(e, InsertedAt(l, p, u), [dl EXCEPT ![u] = t + D], er, t, g)
<1> DEFINE r == InsertedAt(l, p, u)
           dm == [dl EXCEPT ![u] = t + D]
<1> HIDE DEF r, dm
<1>s. SumsAfter(d, l, u, D, p, e)
  BY InsertSums
<1>1. \A k \in 1 .. Len(l) + 1 :
         Prefix(e, r, k) = IF k < p THEN Prefix(d, l, k)
                           ELSE IF k = p THEN D ELSE Prefix(d, l, k - 1)
  BY <1>s DEF SumsAfter, r
<1>2. /\ Len(r) = Len(l) + 1
      /\ \A i \in 1 .. Len(l) + 1 : r[i] = IF i < p THEN l[i] ELSE IF i = p THEN u ELSE l[i - 1]
  BY <1>s DEF SumsAfter, r
<1>3. \A k \in 1 .. Len(l) : l[k] \in Timers /\ l[k] # u
  BY ListDeltas DEF Has
<1>4. dm[u] = t + D /\ \A k \in 1 .. Len(l) : dm[l[k]] = dl[l[k]]
  BY <1>3 DEF dm
<1>5. Len(l) \in Nat
  OBVIOUS
<1>6. ASSUME NEW k \in 1 .. Len(l) + 1
      PROVE  /\ Prefix(e, r, k) >= dm[r[k]] - t - er[r[k]]
             /\ Prefix(e, r, k) <= dm[r[k]] - t + g
  <2>1. CASE k < p
    <3>1. k \in 1 .. Len(l)
      BY <1>5, <2>1
    <3> QED
      BY <1>1, <1>2, <1>4, <2>1, <3>1 DEF Due
  <2>2. CASE k = p
    <3>1. Prefix(e, r, k) = D /\ r[k] = u /\ dm[r[k]] = t + D /\ er[u] \in Nat
      BY <1>1, <1>2, <1>4, <2>2
    <3> QED
      BY <3>1
  <2>3. CASE k > p
    <3>1. k - 1 \in 1 .. Len(l) /\ ~(k < p) /\ k # p
      BY <1>5, <2>3
    <3>2. Prefix(e, r, k) = Prefix(d, l, k - 1) /\ r[k] = l[k - 1]
      BY <1>1, <1>2, <3>1
    <3> QED
      BY <1>4, <3>1, <3>2 DEF Due
  <2> QED
    BY <1>5, <2>1, <2>2, <2>3
<1> QED
  BY <1>2, <1>6 DEF Due, r, dm

LEMMA RemoveDue ==
    ASSUME NEW d \in [Timers -> Int], NEW l \in Seq(Timers), Once(l),
           NEW p \in 1 .. Len(l), NEW e, Unlinked(d, l, p, e),
           NEW dl \in [Timers -> Int], NEW er, NEW t \in Int, NEW g \in Nat,
           Due(d, l, dl, er, t, g)
    PROVE  Due(e, Without(l, p), [dl EXCEPT ![l[p]] = 0], er, t, g)
<1> DEFINE r == Without(l, p)
           dm == [dl EXCEPT ![l[p]] = 0]
<1>1. \A k \in 1 .. Len(l) - 1 :
         Prefix(e, r, k) = IF k < p THEN Prefix(d, l, k) ELSE Prefix(d, l, k + 1)
  BY RemoveSums
<1>2. /\ Len(r) = Len(l) - 1
      /\ \A i \in 1 .. Len(l) - 1 : r[i] = IF i < p THEN l[i] ELSE l[i + 1]
  BY WithoutProperties
<1>3. \A k \in 1 .. Len(l) : k # p => l[k] \in Timers /\ l[k] # l[p]
  BY ListDeltas DEF Once
<1>4. \A k \in 1 .. Len(l) : k # p => dm[l[k]] = dl[l[k]]
  BY <1>3
<1>5. Len(l) \in Nat
  OBVIOUS
<1> HIDE DEF r, dm
<1>6. ASSUME NEW k \in 1 .. Len(l) - 1
      PROVE  /\ Prefix(e, r, k) >= dm[r[k]] - t - er[r[k]]
             /\ Prefix(e, r, k) <= dm[r[k]] - t + g
  <2>1. k \in 1 .. Len(l) /\ k + 1 \in 1 .. Len(l)
    BY <1>5
  <2>2. CASE k < p
    <3>1. k # p
      BY <2>2
    <3> QED
      BY <1>1, <1>2, <1>4, <2>1, <2>2, <3>1 DEF Due
  <2>3. CASE ~(k < p)
    <3>1. k + 1 # p
      BY <2>3
    <3> QED
      BY <1>1, <1>2, <1>4, <2>1, <2>3, <3>1 DEF Due
  <2> QED
    BY <2>2, <2>3
<1> QED
  BY <1>2, <1>6 DEF Due, r, dm

LEMMA TickedOnce ==
    \A x, y, z, g, r \in Int :
        x >= y - z - r /\ x <= y - z + g =>
           /\ x - 1 >= y - (z + 1) - r /\ x - 1 <= y - (z + 1) + g
           /\ x >= y - (z + 1) - r /\ x <= y - (z + 1) + (g + 1)
OBVIOUS

(* While select() waits, a tick takes one off what is left. *)
LEMMA TickDue ==
    ASSUME TypeInv, Once(list), TickWaiting, now < MaxTime,
           Due(Counted, list, deadline, early, now, lag)
    PROVE  Due(Counted', list', deadline', early', now', lag')
<1>1. /\ svc = "select" /\ list # <<>> /\ svc' = svc /\ tv' = tv - 1 /\ now' = now + 1
      /\ UNCHANGED <<dur, list, deadline, lag, early>>
  BY DEF TickWaiting, Waiting, blocks
<1>2. /\ list \in Seq(Timers) /\ dur \in [Timers -> Int] /\ tv \in Int /\ now \in Int /\ lag \in Int
      /\ deadline \in [Timers -> Int] /\ early \in [Timers -> Nat]
  BY TimersAssumption DEF TypeInv, BlockTypes, ServiceTypes, ClockTypes
<1>3. 1 \in 1 .. Len(list) /\ Head(list) = list[1]
  BY <1>1, <1>2
<1>4. Counted = [dur EXCEPT ![list[1]] = tv] /\ Counted' = [dur EXCEPT ![list[1]] = tv - 1]
  BY <1>1, <1>3 DEF Counted, HeadHeld
<1>5. /\ \A k \in 1 .. Len(list) : Prefix([dur EXCEPT ![list[1]] = tv], list, k)
                                      = Prefix(dur, list, k) + tv - dur[list[1]]
      /\ \A k \in 1 .. Len(list) : Prefix([dur EXCEPT ![list[1]] = tv - 1], list, k)
                                      = Prefix(dur, list, k) + (tv - 1) - dur[list[1]]
  <2>1. tv - 1 \in Int
    BY <1>2
  <2> QED
    BY <1>1, <1>2, <2>1, HeadShift
<1>6. \A k \in 1 .. Len(list) : Prefix(Counted', list, k) = Prefix(Counted, list, k) - 1
  <2> SUFFICES ASSUME NEW k \in 1 .. Len(list)
               PROVE  Prefix(Counted', list, k) = Prefix(Counted, list, k) - 1
    OBVIOUS
  <2>1. k \in 0 .. Len(list)
    OBVIOUS
  <2>2. Prefix(dur, list, k) \in Int /\ dur[list[1]] \in Int
    BY <1>2, <1>3, <2>1, ListDeltas
  <2>3. /\ Prefix(Counted, list, k) = Prefix(dur, list, k) + tv - dur[list[1]]
        /\ Prefix(Counted', list, k) = Prefix(dur, list, k) + (tv - 1) - dur[list[1]]
    BY <1>4, <1>5
  <2>4. \A x, y, z \in Int : x + (z - 1) - y = (x + z - y) - 1
    OBVIOUS
  <2>5. Prefix(dur, list, k) + (tv - 1) - dur[list[1]] = (Prefix(dur, list, k) + tv - dur[list[1]]) - 1
    BY <1>2, <2>2, <2>4, SMTT(20)
  <2> QED
    BY <2>3, <2>5, Zenon
<1>7. \A k \in 1 .. Len(list) : /\ Prefix(Counted, list, k) \in Int /\ deadline[list[k]] \in Int
                                /\ early[list[k]] \in Int
  <2>1. Counted \in [Timers -> Int]
    BY CountedTime
  <2>2. \A k \in 1 .. Len(list) : k \in 0 .. Len(list)
    OBVIOUS
  <2>3. /\ \A k \in 1 .. Len(list) : list[k] \in Timers
        /\ \A k \in 0 .. Len(list) : Prefix(Counted, list, k) \in Int
    BY <1>2, <2>1, ListDeltas
  <2>4. \A u \in Timers : deadline[u] \in Int /\ early[u] \in Int
    BY <1>2
  <2> QED
    BY <2>2, <2>3, <2>4
<1> HIDE DEF Counted
<1>8. ASSUME NEW k \in 1 .. Len(list)
      PROVE  /\ Prefix(Counted', list, k) >= deadline[list[k]] - (now + 1) - early[list[k]]
             /\ Prefix(Counted', list, k) <= deadline[list[k]] - (now + 1) + lag
  <2>1. /\ Prefix(Counted, list, k) >= deadline[list[k]] - now - early[list[k]]
        /\ Prefix(Counted, list, k) <= deadline[list[k]] - now + lag
    BY DEF Due
  <2>2. Prefix(Counted, list, k) \in Int /\ deadline[list[k]] \in Int /\ early[list[k]] \in Int
    BY <1>7
  <2>3. Prefix(Counted', list, k) = Prefix(Counted, list, k) - 1
    BY <1>6
  <2>4. /\ Prefix(Counted, list, k) - 1 >= deadline[list[k]] - (now + 1) - early[list[k]]
        /\ Prefix(Counted, list, k) - 1 <= deadline[list[k]] - (now + 1) + lag
    BY <1>2, <2>1, <2>2, TickedOnce, Zenon
  <2> QED
    BY <2>3, <2>4, Zenon
<1> QED
  BY <1>1, <1>8 DEF Due

(* Elsewhere it makes the service later. *)
LEMMA LateDue ==
    ASSUME NEW d \in [Timers -> Int], NEW l \in Seq(Timers), NEW dl \in [Timers -> Int],
           NEW er \in [Timers -> Nat], NEW t \in Int, NEW g \in Int, Due(d, l, dl, er, t, g)
    PROVE  Due(d, l, dl, er, t + 1, g + 1)
<1>1. \A k \in 1 .. Len(l) : Prefix(d, l, k) \in Int /\ dl[l[k]] \in Int /\ er[l[k]] \in Int
  <2>1. \A k \in 1 .. Len(l) : k \in 0 .. Len(l)
    OBVIOUS
  <2>2. /\ \A k \in 1 .. Len(l) : l[k] \in Timers
        /\ \A k \in 0 .. Len(l) : Prefix(d, l, k) \in Int
    BY ListDeltas
  <2>3. \A u \in Timers : dl[u] \in Int /\ er[u] \in Int
    OBVIOUS
  <2> QED
    BY <2>1, <2>2, <2>3
<1>2. ASSUME NEW k \in 1 .. Len(l)
      PROVE  /\ Prefix(d, l, k) >= dl[l[k]] - (t + 1) - er[l[k]]
             /\ Prefix(d, l, k) <= dl[l[k]] - (t + 1) + (g + 1)
  <2>1. Prefix(d, l, k) >= dl[l[k]] - t - er[l[k]] /\ Prefix(d, l, k) <= dl[l[k]] - t + g
    BY DEF Due
  <2>2. Prefix(d, l, k) \in Int /\ dl[l[k]] \in Int /\ er[l[k]] \in Int /\ t \in Int /\ g \in Int
    BY <1>1
  <2> QED
    BY <2>1, <2>2, TickedOnce, Zenon
<1> QED
  BY <1>2 DEF Due

LEMMA TimeStep ==
    ASSUME RaceFreeInv, RaceFreeInv', InTime, [Next]_vars
    PROVE  InTime'
<1>t. TypeInv /\ TypeInv' /\ ListInv /\ Once(list) /\ Once(list')
  BY DEF RaceFreeInv, ListInv
<1>s. /\ list \in Seq(Timers) /\ dur \in [Timers -> Int] /\ deadline \in [Timers -> Int]
      /\ tv \in Int /\ Counted \in [Timers -> Int] /\ early \in [Timers -> Nat]
  BY <1>t, CountedTime DEF TypeInv, BlockTypes, ServiceTypes, ClockTypes
<1>z. list' \in Seq(Timers) /\ dur' \in [Timers -> Int] /\ early' \in [Timers -> Nat]
  BY <1>t DEF TypeInv, BlockTypes, ClockTypes
<1>c. now \in Nat /\ lag \in Nat /\ MaxTime \in Nat /\ now \in Int /\ lag \in Int
  BY <1>t, TimersAssumption DEF TypeInv, ClockTypes
<1> SUFFICES ASSUME now' < MaxTime PROVE Due(Counted', list', deadline', early', now', lag')
  BY DEF InTime
<1> USE DEF blocks, service, clients, clock
<1>n. now < MaxTime
  <2>1. CASE TickWaiting
    BY <1>c, <2>1 DEF TickWaiting
  <2>2. CASE TickElsewhere
    BY <2>2 DEF TickElsewhere
  <2>3. ASSUME now' = now PROVE now < MaxTime
    BY <2>3
  <2>4. ASSUME NEW c \in Clients, ClientStep(c) PROVE now' = now
    BY <2>4
       DEF ClientStep, CountId, TestActive, SendCmd, SendFails, ReceiveResult, FreeTimer,
           HandleExpiry
  <2>5. ASSUME NEW c \in Clients, ClientCall(c) PROVE now' = now
    BY <2>5
       DEF ClientCall, CreateTimer, StartTimer, CancelTimer, UpdateTimer, DestroyTimer, Begin
  <2>6. ASSUME ServiceStep PROVE now' = now
    BY <2>6
       DEF ServiceStep, ReadAdd, ReadRemove, Timeout, SendExpiry, Deactivate, ClearData
  <2> QED
    BY <2>1, <2>2, <2>3, <2>4, <2>5, <2>6 DEF Next, vars
<1>d. Due(Counted, list, deadline, early, now, lag)
  BY <1>n DEF InTime
<1>1. ASSUME UNCHANGED <<dur, list, svc, tv, deadline, early, now, lag>>
      PROVE  Due(Counted', list', deadline', early', now', lag')
  BY <1>1, <1>d DEF Counted, HeadHeld
<1>2. ASSUME Counted' = Counted, UNCHANGED <<list, deadline, early, now, lag>>
      PROVE  Due(Counted', list', deadline', early', now', lag')
  BY <1>2, <1>d
<1>e. EnterSelect => Counted' = dur'
  BY <1>z, EnterCounted DEF EnterSelect
<1>3. ASSUME NEW c \in Clients, NEW t \in Timers, CreateTimer(c, t)
      PROVE  Due(Counted', list', deadline', early', now', lag')
  <2>1. ~active[t]
    BY <1>3, <1>t DEF CreateTimer, ListInv
  <2>2. ~Has(list, t)
    BY <1>t, <2>1 DEF ListInv
  <2>3. \A u \in Timers : u # t => dur'[u] = dur[u]
    BY <1>3, <1>s DEF CreateTimer
  <2>4. UNCHANGED <<list, svc, tv, deadline, early, now, lag>>
    BY <1>3 DEF CreateTimer
  <2>5. Counted' \in [Timers -> Int]
    <3>1. HeadHeld' \in [Timers -> Int]
      BY <1>s, <1>z, <2>4, HeadTailProperties DEF HeadHeld
    <3> QED
      BY <1>z, <3>1 DEF Counted
  <2>6. SameOn(list, Counted, Counted')
    <3> SUFFICES ASSUME NEW u \in Timers, Has(list, u) PROVE Counted'[u] = Counted[u]
      BY DEF SameOn
    <3>1. u # t
      BY <2>2
    <3>2. CASE list = <<>> \/ svc # "select"
      BY <2>3, <2>4, <3>1, <3>2 DEF Counted, HeadHeld
    <3>3. CASE list # <<>> /\ svc = "select"
      <4>1. Counted = [dur EXCEPT ![Head(list)] = tv] /\ Counted' = [dur' EXCEPT ![Head(list)] = tv]
        BY <2>4, <3>3 DEF Counted, HeadHeld
      <4> QED
        BY <1>s, <1>z, <2>3, <3>1, <4>1
    <3> QED
      BY <3>2, <3>3
  <2>7. Due(Counted', list, deadline, early, now, lag)
    BY <1>d, <1>s, <2>5, <2>6, DueElsewhere
  <2> QED
    BY <2>4, <2>7
<1>h. svc = "select" => HeadLeft \in [Timers -> Int] /\ Due(HeadLeft, list, deadline, Cut, now, lag)
  BY <1>d, <1>t, CutDue
<1>a. \A u \in Timers : /\ (Has(list, u) <=> active[u]) /\ (Has(list', u) <=> active'[u])
  BY <1>t DEF RaceFreeInv, ListInv
<1>4. CASE ReadAdd
  <2>1. svc = "select" /\ Counted' = dur' /\ now' = now /\ lag' = lag /\ CountCut
    BY <1>4, <1>e DEF ReadAdd
  <2>2. CASE active[cmd.timer]
    <3>1. dur' = HeadLeft /\ UNCHANGED <<list, active, deadline>>
      BY <1>4, <2>2 DEF ReadAdd
    <3>2. SameOn(list, Cut, early')
      BY <1>a, <2>1, <3>1 DEF SameOn, Cut, CountCut
    <3>3. Due(HeadLeft, list, deadline, early', now, lag)
      BY <1>h, <1>s, <2>1, <3>2, DueFor
    <3> QED
      BY <2>1, <3>1, <3>3
  <2>3. CASE ~active[cmd.timer]
    <3> DEFINE t == cmd.timer
               D == Ticks(cmd.duration)
    <3>1. t \in Timers /\ cmd \in Commands
      <4>1. cmd.op # None
        BY <1>4 DEF ReadAdd, None
      <4> QED
        BY <1>t, <4>1 DEF TypeInv, ServiceTypes
    <3>2. D \in Int
      <4>1. Durations \union {0} \subseteq Nat
        BY TimersAssumption
      <4>2. cmd.duration \in Durations \union {0}
        BY <3>1 DEF Commands
      <4>3. cmd.duration \in Nat
        BY <4>1, <4>2, Zenon
      <4> QED
        BY <4>3, TicksType
    <3>3. ~Has(list, t)
      BY <1>a, <2>3, <3>1
    <3>4. AddTimer(HeadLeft, t, D, cmd.data)
      BY <1>4, <2>3 DEF ReadAdd
    <3> HIDE DEF t, D
    <3>5. SameOn(list, Cut, early')
      <4>1. active \in [Timers -> BOOLEAN] /\ active' = [active EXCEPT ![t] = TRUE]
        BY <1>t, <3>4 DEF AddTimer, TypeInv, BlockTypes
      <4>2. \A u \in Timers : active[u] => active'[u]
        BY <4>1
      <4> QED
        BY <1>a, <2>1, <4>2 DEF SameOn, Cut, CountCut
    <3>6. HeadLeft \in [Timers -> Int] /\ Due(HeadLeft, list, deadline, early', now, lag)
      BY <1>h, <1>s, <2>1, <3>5, DueFor
    <3>7. PICK k \in 1 .. Len(list) + 1 :
             list' = InsertedAt(list, k, t) /\ Linked(HeadLeft, list, t, D, k, dur')
      BY <1>s, <3>1, <3>2, <3>4, <3>6, AddTimerLinks
    <3>8. deadline' = [deadline EXCEPT ![t] = now + D]
      BY <3>4 DEF AddTimer
    <3>9. Due(dur', InsertedAt(list, k, t), [deadline EXCEPT ![t] = now + D], early', now, lag)
      BY <1>c, <1>s, <1>t, <1>z, <3>1, <3>2, <3>3, <3>6, <3>7, InsertDue
    <3> QED
      BY <2>1, <3>7, <3>8, <3>9
  <2> QED
    BY <2>2, <2>3
<1>5. ASSUME NEW k \in 1 .. Len(list), NEW d \in [Timers -> Int], NEW er,
             Due(d, list, deadline, er, now, lag), RemoveAt(d, k), SameOn(list', er, early'),
             Counted' = dur', UNCHANGED <<now, lag>>
      PROVE  Due(Counted', list', deadline', early', now', lag')
  <2>1. /\ list' = Without(list, k) /\ deadline' = [deadline EXCEPT ![list[k]] = 0]
        /\ Unlinked(d, list, k, dur')
    BY <1>5 DEF RemoveAt, Unlinked
  <2>2. Due(dur', Without(list, k), [deadline EXCEPT ![list[k]] = 0], er, now, lag)
    BY <1>5, <1>c, <1>s, <1>t, <2>1, RemoveDue
  <2>3. Due(dur', list', deadline', er, now, lag)
    BY <2>1, <2>2
  <2>4. Due(dur', list', deadline', early', now, lag)
    BY <1>5, <1>z, <2>3, DueFor
  <2> QED
    BY <1>5, <2>4
<1>6. CASE ReadRemove
  <2> DEFINE t == cmd.timer
             found == {k \in 1 .. Len(list) : id[list[k]] = id[t]}
             first == CHOOSE k \in found : \A j \in found : k <= j
  <2>1. svc = "select" /\ Counted' = dur' /\ now' = now /\ lag' = lag /\ CountCut
    BY <1>6, <1>e DEF ReadRemove
  <2>a. active \in [Timers -> BOOLEAN]
    BY <1>t DEF TypeInv, BlockTypes
  <2>b. ASSUME NEW u \in Timers, active' = [active EXCEPT ![u] = FALSE]
        PROVE  SameOn(list', Cut, early')
    <3>1. \A v \in Timers : active'[v] => active[v]
      BY <2>a, <2>b
    <3> QED
      BY <1>a, <2>1, <3>1 DEF SameOn, Cut, CountCut
  <2>2. CASE found # {}
    <3>1. found \in SUBSET Nat /\ found \subseteq 1 .. Len(list)
      OBVIOUS
    <3>2. RemoveAt(HeadLeft, first)
      BY <1>6, <2>2 DEF ReadRemove
    <3> HIDE DEF found
    <3>3. \E k \in found : \A j \in found : k <= j
      BY <2>2, <3>1, LeastNumber
    <3>4. first \in found
      BY <3>3
    <3> HIDE DEF first
    <3>5. first \in 1 .. Len(list) /\ list[first] \in Timers
      BY <1>s, <3>1, <3>4, ElementOfSeq
    <3>6. SameOn(list', Cut, early')
      BY <2>b, <3>2, <3>5 DEF RemoveAt
    <3> QED
      BY <1>5, <1>h, <2>1, <3>2, <3>5, <3>6
  <2>3. CASE found = {}
    <3>1. /\ dur' = [HeadLeft EXCEPT ![t] = -1] /\ active' = [active EXCEPT ![t] = FALSE]
          /\ UNCHANGED <<list, deadline>>
      BY <1>6, <2>3 DEF ReadRemove
    <3>2. ~Has(list, t)
      BY <2>3 DEF Has
    <3>3. SameOn(list, HeadLeft, dur')
      BY <1>h, <2>1, <3>1, <3>2 DEF SameOn
    <3>4. Due(dur', list, deadline, Cut, now, lag)
      BY <1>h, <1>s, <1>z, <2>1, <3>3, DueElsewhere
    <3>5. t \in Timers
      <4>1. cmd.op # None
        BY <1>6 DEF ReadRemove, None
      <4> QED
        BY <1>t, <4>1 DEF TypeInv, ServiceTypes
    <3> HIDE DEF t
    <3>6. SameOn(list, Cut, early')
      BY <2>b, <3>1, <3>5
    <3>7. Due(dur', list, deadline, early', now, lag)
      BY <1>s, <3>4, <3>6, DueFor
    <3> QED
      BY <2>1, <3>1, <3>7
  <2> QED
    BY <2>2, <2>3
<1>7. CASE Timeout
  BY <1>2, <1>7 DEF Timeout, Counted, HeadHeld
<1>8. CASE SendExpiry
  BY <1>2, <1>8 DEF SendExpiry, Counted
<1>9. CASE Deactivate
  <2>1. 1 \in 1 .. Len(list)
    BY <1>9, <1>s, <1>t DEF Deactivate, TypeInv, ServiceTypes
  <2>2. /\ RemoveAt(Counted, 1) /\ Counted' = dur' /\ UNCHANGED <<now, lag>>
        /\ early' = [early EXCEPT ![Head(list)] = 0] /\ Head(list) = list[1]
    BY <1>9, <1>s, <2>1 DEF Deactivate, Counted
  <2>3. list[1] \in Timers /\ active \in [Timers -> BOOLEAN]
    BY <1>s, <1>t, <2>1, ElementOfSeq DEF TypeInv, BlockTypes
  <2>4. ~active'[list[1]]
    BY <2>2, <2>3 DEF RemoveAt
  <2>5. SameOn(list', early, early')
    BY <1>a, <1>s, <2>2, <2>3, <2>4 DEF SameOn
  <2> QED
    BY <1>5, <1>d, <1>s, <2>1, <2>2, <2>5
<1>10. CASE ClearData
  <2>1. Counted = dur /\ UNCHANGED <<dur, list, deadline, early, now, lag>>
    BY <1>10 DEF ClearData, Counted
  <2>2. svc' # "select" \/ tv' = IF list' = <<>> THEN 0 ELSE dur'[Head(list')]
    BY <1>10 DEF ClearData
  <2>3. Counted' = dur'
    BY <1>z, <2>2, EnterCounted
  <2> QED
    BY <1>2, <2>1, <2>3
<1>11. CASE TickWaiting
  BY <1>11, <1>d, <1>n, <1>t, TickDue
<1>12. CASE TickElsewhere
  <2>1. /\ now' = now + 1 /\ lag' = IF list = <<>> THEN lag ELSE lag + 1
        /\ UNCHANGED <<list, deadline, early>> /\ Counted' = Counted
    BY <1>12 DEF TickElsewhere, Counted, HeadHeld
  <2>2. CASE list = <<>>
    BY <2>1, <2>2 DEF Due
  <2>3. CASE list # <<>>
    <3>1. Due(Counted, list, deadline, early, now + 1, lag + 1)
      BY <1>c, <1>d, <1>s, LateDue
    <3> QED
      BY <2>1, <2>3, <3>1
  <2> QED
    BY <2>2, <2>3
<1>13. ASSUME NEW c \in Clients, ClientStep(c) PROVE Due(Counted', list', deadline', early', now', lag')
  BY <1>1, <1>13
     DEF ClientStep, CountId, TestActive, SendCmd, SendFails, ReceiveResult, FreeTimer,
           HandleExpiry
<1>14. ASSUME NEW c \in Clients, ClientCall(c) PROVE Due(Counted', list', deadline', early', now', lag')
  BY <1>1, <1>3, <1>14
     DEF ClientCall, StartTimer, CancelTimer, UpdateTimer, DestroyTimer, Begin
<1> QED
  BY <1>1, <1>4, <1>6, <1>7, <1>8, <1>9, <1>10, <1>11, <1>12, <1>13, <1>14
     DEF Next, ServiceStep, vars

(* The deltas add up (OnTime): whatever the order in which timers are      *)
(* started, cancelled and expire, none is later than the time the service  *)
(* thread spent outside select(), and none earlier than the fractions of a *)
(* millisecond that the commands read since its start have cost.           *)
THEOREM TimersOnTime ==
    ASSUME ~CreateRace
    PROVE  Spec => []OnTime
<1>1. Init => InTime
  BY DEF Init, InTime, Due
<1>2. RaceFreeInv /\ RaceFreeInv' /\ InTime /\ [Next]_vars => InTime'
  BY TimeStep
<1>3. RaceFreeInv /\ InTime => OnTime
  BY OnTimeDue DEF RaceFreeInv, ListInv
<1>4. Spec => []RaceFreeInv
  BY RaceFreeHolds
<1> QED
  BY <1>1, <1>2, <1>3, <1>4, PTL DEF Spec

-----------------------------------------------------------------------------
(* What the users see                                                      *)

(* An expiry is posted for a head that is due.  A timer that is being      *)
(* cleared runs no more.                                                   *)
ExpiryInv ==
    /\ svc = "send" => dur[Head(list)] <= 0
    /\ svc = "clear" => expiring \in Timers /\ ~active[expiring]

KeepsTime == RaceFreeInv /\ InTime /\ ExpiryInv

LEMMA ExpiryStep ==
    ASSUME KeepsTime, [Next]_vars, RaceFreeInv'
    PROVE  ExpiryInv'
<1>t. TypeInv /\ TypeInv' /\ ListInv /\ ExpiryInv
  BY DEF KeepsTime, RaceFreeInv
<1>s. /\ list \in Seq(Timers) /\ dur \in [Timers -> Int] /\ active \in [Timers -> BOOLEAN]
      /\ svc \in {"send", "deactivate"} => list # <<>>
  BY <1>t DEF TypeInv, BlockTypes, ServiceTypes
<1>h. list # <<>> => Head(list) \in Timers /\ list[1] = Head(list) /\ 1 \in 1 .. Len(list)
  BY <1>s, HeadTailProperties
<1> USE DEF blocks, service, clients, clock
<1>1. ASSUME UNCHANGED <<svc, dur, list, expiring, active>> PROVE ExpiryInv'
  BY <1>1, <1>t DEF ExpiryInv
<1>2. ASSUME NEW c \in Clients, NEW t \in Timers, CreateTimer(c, t) PROVE ExpiryInv'
  <2>1. ~active[t]
    BY <1>2, <1>t DEF CreateTimer, ListInv
  <2>2. list # <<>> => Head(list) # t
    <3>1. ~Has(list, t)
      BY <1>t, <2>1 DEF ListInv
    <3> QED
      BY <1>h, <3>1 DEF Has
  <2>3. active' = active /\ dur' = [dur EXCEPT ![t] = -1] /\ UNCHANGED <<svc, list, expiring>>
    BY <1>2, <1>s, <2>1 DEF CreateTimer
  <2> QED
    BY <1>h, <1>s, <1>t, <2>2, <2>3 DEF ExpiryInv
<1>3. CASE ReadAdd \/ ReadRemove
  <2>1. svc' \in {"select", "dead"}
    BY <1>3 DEF ReadAdd, ReadRemove, EnterSelect
  <2> QED
    BY <2>1 DEF ExpiryInv
<1>4. CASE Timeout
  <2>1. svc' = "send" /\ list' = list /\ list # <<>> /\ dur'[Head(list)] = 0
    BY <1>4, <1>h, <1>s DEF Timeout
  <2> QED
    BY <2>1 DEF ExpiryInv
<1>5. CASE SendExpiry
  <2>1. svc' = "deactivate"
    BY <1>5 DEF SendExpiry
  <2> QED
    BY <2>1 DEF ExpiryInv
<1>6. CASE Deactivate
  <2>1. svc' = "clear" /\ expiring' = Head(list) /\ list # <<>> /\ RemoveAt(dur, 1)
    BY <1>6, <1>s DEF Deactivate
  <2>2. active' = [active EXCEPT ![list[1]] = FALSE]
    BY <2>1 DEF RemoveAt
  <2> QED
    BY <1>h, <1>s, <2>1, <2>2 DEF ExpiryInv
<1>7. CASE ClearData
  <2>1. /\ svc' = "select" \/ (svc' = "send" /\ dur[Head(list)] <= 0)
        /\ UNCHANGED <<dur, list>>
    BY <1>7 DEF ClearData
  <2> QED
    BY <2>1 DEF ExpiryInv
<1>8. CASE TickWaiting \/ TickElsewhere
  BY <1>1, <1>8 DEF TickWaiting, TickElsewhere
<1>9. ASSUME NEW c \in Clients, ClientStep(c) PROVE ExpiryInv'
  BY <1>1, <1>9
     DEF ClientStep, CountId, TestActive, SendCmd, SendFails, ReceiveResult, FreeTimer,
         HandleExpiry
<1>10. ASSUME NEW c \in Clients, ClientCall(c) PROVE ExpiryInv'
  BY <1>1, <1>2, <1>10
     DEF ClientCall, StartTimer, CancelTimer, UpdateTimer, DestroyTimer, Begin
<1> QED
  BY <1>1, <1>3, <1>4, <1>5, <1>6, <1>7, <1>8, <1>9, <1>10 DEF Next, ServiceStep, vars

LEMMA KeepsTimeHolds ==
    ASSUME ~CreateRace
    PROVE  Spec => []KeepsTime
<1>1. Init => InTime /\ ExpiryInv
  BY DEF Init, InTime, Due, ExpiryInv
<1>2. RaceFreeInv /\ RaceFreeInv' /\ InTime /\ ExpiryInv /\ [Next]_vars => InTime' /\ ExpiryInv'
  BY TimeStep, ExpiryStep DEF KeepsTime
<1> QED
  BY <1>1, <1>2, RaceFreeHolds, PTL DEF Spec, KeepsTime

(* Steps that the users do not see. *)
Unseen == UNCHANGED <<Alarms, Firing, queue, now>>

LEMMA SameUnseen ==
    ASSUME UNCHANGED <<active, deadline, early, svc, list, queue, now>>,
           \A t \in Timers : active[t] => data'[t] = data[t]
    PROVE  Unseen
BY DEF Unseen, Alarms, Firing

LEMMA UserStep ==
    ASSUME TypeInv, ListInv, NEW c \in Clients, ClientCall(c) \/ ClientStep(c)
    PROVE  Unseen \/ Service!Handle(c)
<1> USE DEF blocks, service, clients, clock
<1>1. CASE HandleExpiry(c)
  BY <1>1 DEF HandleExpiry, Service!Handle, Alarms, Firing
<1>2. ASSUME NEW t \in Timers, CreateTimer(c, t) PROVE Unseen
  <2>1. ~active[t] /\ active \in [Timers -> BOOLEAN] /\ data \in [Timers -> {0, 1}]
    BY <1>2 DEF CreateTimer, TypeInv, BlockTypes, ListInv
  <2>2. active' = active /\ \A u \in Timers : active[u] => data'[u] = data[u]
    BY <1>2, <2>1 DEF CreateTimer
  <2> QED
    BY <1>2, <2>2, SameUnseen DEF CreateTimer
<1>3. ASSUME UNCHANGED <<active, deadline, early, svc, list, queue, now, data>> PROVE Unseen
  BY <1>3, SameUnseen
<1>4. CASE ClientCall(c)
  BY <1>2, <1>3, <1>4
     DEF ClientCall, StartTimer, CancelTimer, UpdateTimer, DestroyTimer, Begin
<1> QED
  BY <1>1, <1>3, <1>4
     DEF ClientStep, CountId, TestActive, SendCmd, SendFails, ReceiveResult, FreeTimer

(* A command brings the timers forward that it leaves alone. *)
LEMMA LeftAlone ==
    ASSUME TypeInv, CountCut, NEW u \in Timers, active'[u] <=> active[u],
           active[u] => deadline'[u] = deadline[u] /\ data'[u] = data[u]
    PROVE  Alarms'[u] = Service!Forward(u)
<1>1. active[u] \in BOOLEAN /\ early[u] \in Nat
  BY DEF TypeInv, BlockTypes, ClockTypes
<1>2. CASE active[u]
  <2>1. early'[u] = early[u] + (Grain - 1)
    BY <1>2 DEF CountCut
  <2>2. Alarms[u] = [on |-> TRUE, due |-> deadline[u], early |-> early[u], data |-> data[u]]
    BY <1>2 DEF Alarms
  <2>3. Alarms'[u] = [on |-> TRUE, due |-> deadline[u], early |-> early'[u], data |-> data[u]]
    BY <1>2 DEF Alarms
  <2>4. Service!Forward(u) = [on |-> TRUE, due |-> deadline[u],
                              early |-> early[u] + (Grain - 1), data |-> data[u]]
    BY <2>2 DEF Service!Forward, Service!Running, Rounding
  <2> QED
    BY <2>1, <2>3, <2>4
<1>3. CASE ~active[u]
  <2>1. Alarms[u] = Service!Off /\ Alarms'[u] = Service!Off
    BY <1>3 DEF Alarms, Service!Off
  <2> QED
    BY <2>1 DEF Service!Forward, Service!Running, Service!Off
<1> QED
  BY <1>2, <1>3

\* All of them, or all but t.
LEMMA AllLeftAlone ==
    ASSUME \A u \in Timers : Alarms'[u] = Service!Forward(u)
    PROVE  Alarms' = [u \in Timers |-> Service!Forward(u)]
<1>1. Alarms' = [u \in Timers |-> Alarms'[u]]
  BY DEF Alarms
<1> QED
  BY <1>1

LEMMA OthersLeftAlone ==
    ASSUME NEW t \in Timers, \A u \in Timers : u # t => Alarms'[u] = Service!Forward(u)
    PROVE  Alarms' = Service!Handled(t, Alarms'[t])
<1>1. Alarms' = [u \in Timers |-> Alarms'[u]]
  BY DEF Alarms
<1> QED
  BY <1>1 DEF Service!Handled

(* A command starts a timer, stops one, or does neither. *)
LEMMA StartSeen ==
    ASSUME RaceFreeInv, ReadAdd
    PROVE  Service!Idle \/ \E t \in Timers, d \in Delays, x \in {0, 1} : Service!Start(t, d, x)
<1> DEFINE t == cmd.timer
           D == Ticks(cmd.duration)
<1> USE DEF blocks, service, clients, clock
<1>1. TypeInv /\ svc = "select" /\ svc' # "deactivate" /\ CountCut /\ UNCHANGED <<queue, now>>
  BY DEF RaceFreeInv, ReadAdd, EnterSelect
<1>2. /\ active \in [Timers -> BOOLEAN] /\ data \in [Timers -> {0, 1}]
      /\ deadline \in [Timers -> Int]
  BY <1>1 DEF TypeInv, BlockTypes
<1>3. Firing = None /\ Firing' = None
  BY <1>1 DEF Firing
<1>4. t \in Timers /\ D \in Delays /\ cmd.data \in {0, 1}
  <2>1. cmd.op # None
    BY DEF ReadAdd, None
  <2>2. cmd \in Commands /\ cmd.timer \in Timers
    BY <1>1, <2>1 DEF TypeInv, ServiceTypes
  <2> QED
    BY <2>2 DEF Commands, Delays
<1>5. CASE active[t]
  <2>1. UNCHANGED <<active, data, deadline>>
    BY <1>5 DEF ReadAdd
  <2>2. \A u \in Timers : Alarms'[u] = Service!Forward(u)
    BY <1>1, <2>1, LeftAlone
  <2>3. Alarms' = [u \in Timers |-> Service!Forward(u)]
    BY <2>2, AllLeftAlone
  <2> QED
    BY <1>1, <1>3, <2>3 DEF Service!Idle
<1>6. CASE ~active[t]
  <2>1. /\ active' = [active EXCEPT ![t] = TRUE]
        /\ data' = [data EXCEPT ![t] = cmd.data]
        /\ deadline' = [deadline EXCEPT ![t] = now + D]
    BY <1>6 DEF ReadAdd, AddTimer
  <2> HIDE DEF t, D
  <2>2. Alarms'[t] = Service!For(D, cmd.data)
    <3>1. active'[t] /\ deadline'[t] = now + D /\ data'[t] = cmd.data
      BY <1>2, <1>4, <2>1
    <3>2. early'[t] = 0
      BY <1>1, <1>4, <1>6 DEF CountCut
    <3> QED
      BY <1>4, <3>1, <3>2 DEF Alarms, Service!For
  <2>3. ASSUME NEW u \in Timers, u # t PROVE Alarms'[u] = Service!Forward(u)
    <3>1. active'[u] = active[u] /\ deadline'[u] = deadline[u] /\ data'[u] = data[u]
      BY <1>2, <2>1, <2>3
    <3> QED
      BY <1>1, <3>1, LeftAlone
  <2>4. Alarms' = Service!Handled(t, Service!For(D, cmd.data))
    <3>1. Alarms' = Service!Handled(t, Alarms'[t])
      BY <1>4, <2>3, OthersLeftAlone
    <3> QED
      BY <2>2, <3>1
  <2>5. ~Alarms[t].on
    BY <1>4, <1>6 DEF Alarms
  <2>6. Service!Start(t, D, cmd.data)
    BY <1>1, <1>3, <2>4, <2>5 DEF Service!Start, Service!Running
  <2> QED
    BY <1>4, <2>6
<1> QED
  BY <1>5, <1>6

(* A timer that is taken off the list runs no more. *)
LEMMA OffTheList ==
    ASSUME TypeInv, ListInv, NEW durs, NEW k \in 1 .. Len(list), RemoveAt(durs, k)
    PROVE  /\ list[k] \in Timers /\ Alarms[list[k]].on /\ ~active'[list[k]]
           /\ Alarms'[list[k]] = Service!Off
           /\ \A u \in Timers : u # list[k] => active'[u] = active[u] /\ deadline'[u] = deadline[u]
<1>1. /\ list \in Seq(Timers) /\ active \in [Timers -> BOOLEAN] /\ list[k] \in Timers
      /\ deadline \in [Timers -> Int]
  BY ElementOfSeq DEF TypeInv, BlockTypes
<1>2. active[list[k]]
  BY <1>1 DEF ListInv, Has
<1>3. /\ active' = [active EXCEPT ![list[k]] = FALSE]
      /\ deadline' = [deadline EXCEPT ![list[k]] = 0]
  BY DEF RemoveAt
<1>4. /\ ~active'[list[k]]
      /\ \A u \in Timers : u # list[k] => active'[u] = active[u] /\ deadline'[u] = deadline[u]
  BY <1>1, <1>3
<1> QED
  BY <1>1, <1>2, <1>4 DEF Alarms, Service!Off

LEMMA StopSeen ==
    ASSUME RaceFreeInv, ReadRemove
    PROVE  Service!Idle \/ \E t \in Timers : Service!Stop(t)
<1> DEFINE t == cmd.timer
           found == {k \in 1 .. Len(list) : id[list[k]] = id[t]}
           first == CHOOSE k \in found : \A j \in found : k <= j
<1> USE DEF blocks, service, clients, clock
<1>t. TypeInv /\ ExchangeInv /\ CallInv /\ IdInv /\ ListInv
  BY DEF RaceFreeInv
<1>1. /\ svc = "select" /\ svc' # "deactivate" /\ UNCHANGED <<queue, now>> /\ cmd.op = "remove"
      /\ CountCut
  BY DEF ReadRemove, EnterSelect
<1>2. /\ list \in Seq(Timers) /\ active \in [Timers -> BOOLEAN] /\ data \in [Timers -> {0, 1}]
  BY <1>t DEF TypeInv, BlockTypes
<1>3. Firing = None /\ Firing' = None
  BY <1>1 DEF Firing
<1>4. t \in Timers /\ exists[t]
  <2>1. apiMutex # None /\ t = call[apiMutex].timer
    BY <1>1, <1>t DEF ExchangeInv, None
  <2>2. apiMutex \in Clients /\ pc[apiMutex] = "wait"
    BY <1>t, <2>1 DEF ExchangeInv, TypeInv, ClientTypes
  <2> QED
    BY <1>t, <2>1, <2>2 DEF CallInv, TypeInv, ClientTypes
<1>5. \A k \in 1 .. Len(list) : k \in found <=> list[k] = t
  <2>1. \A k \in 1 .. Len(list) : list[k] \in Timers /\ Has(list, list[k])
    BY <1>2, ElementOfSeq DEF Has
  <2>2. \A k \in 1 .. Len(list) : exists[list[k]]
    BY <1>t, <2>1 DEF ListInv
  <2> QED
    BY <1>4, <1>t, <2>1, <2>2 DEF IdInv, IdsDiffer
<1>6. \A u \in Timers : u # t => data'[u] = data[u]
  BY <1>2 DEF ReadRemove
<1>7. CASE found # {}
  <2>1. found \in SUBSET Nat /\ found \subseteq 1 .. Len(list)
    OBVIOUS
  <2>2. RemoveAt(HeadLeft, first)
    BY <1>7 DEF ReadRemove
  <2> HIDE DEF found
  <2>3. \E k \in found : \A j \in found : k <= j
    BY <1>7, <2>1, LeastNumber
  <2>4. first \in found
    BY <2>3
  <2> HIDE DEF first
  <2>5. first \in 1 .. Len(list) /\ list[first] = t
    BY <1>5, <2>1, <2>4
  <2> HIDE DEF t
  <2>6. /\ Alarms[t].on /\ Alarms'[t] = Service!Off
        /\ \A u \in Timers : u # t => active'[u] = active[u] /\ deadline'[u] = deadline[u]
    BY <1>t, <2>2, <2>5, OffTheList
  <2>7. \A u \in Timers : u # t => Alarms'[u] = Service!Forward(u)
    BY <1>1, <1>6, <1>t, <2>6, LeftAlone
  <2>8. Alarms' = Service!Handled(t, Service!Off)
    <3>1. Alarms' = Service!Handled(t, Alarms'[t])
      BY <1>4, <2>7, OthersLeftAlone
    <3> QED
      BY <2>6, <3>1
  <2>9. Service!Stop(t)
    BY <1>1, <1>3, <2>6, <2>8 DEF Service!Stop, Service!Running
  <2> QED
    BY <1>4, <2>9
<1>8. CASE found = {}
  <2>1. ~active[t]
    BY <1>4, <1>5, <1>8, <1>t DEF ListInv, Has
  <2>2. active' = [active EXCEPT ![t] = FALSE] /\ deadline' = deadline
    BY <1>8 DEF ReadRemove
  <2>3. active' = active
    BY <1>2, <2>1, <2>2
  <2>4. \A u \in Timers : active[u] => data'[u] = data[u]
    BY <1>6, <2>1
  <2>5. \A u \in Timers : Alarms'[u] = Service!Forward(u)
    BY <1>1, <1>t, <2>2, <2>3, <2>4, LeftAlone
  <2>6. Alarms' = [u \in Timers |-> Service!Forward(u)]
    BY <2>5, AllLeftAlone
  <2> QED
    BY <1>1, <1>3, <2>6 DEF Service!Idle
<1> QED
  BY <1>7, <1>8

(* When its expiry is posted the head is due, but for what the commands    *)
(* have cost.                                                              *)
LEMMA ExpireSeen ==
    ASSUME KeepsTime, SendExpiry
    PROVE  \E t \in Timers : Service!Expire(t)
<1> DEFINE t == Head(list)
<1> USE DEF blocks, service, clients, clock
<1>t. TypeInv /\ ListInv /\ InTime /\ ExpiryInv
  BY DEF KeepsTime, RaceFreeInv
<1>1. svc = "send" /\ svc' = "deactivate" /\ UNCHANGED <<active, deadline, early, data, list, now>>
  BY DEF SendExpiry
<1>2. /\ list \in Seq(Timers) /\ list # <<>> /\ dur \in [Timers -> Int]
      /\ deadline \in [Timers -> Int] /\ early \in [Timers -> Nat]
      /\ now \in Int /\ MaxTime \in Int /\ now <= MaxTime
  BY <1>1, <1>t, TimersAssumption DEF TypeInv, BlockTypes, ServiceTypes, ClockTypes
<1>3. t \in Timers /\ list[1] = t /\ 1 \in 1 .. Len(list) /\ Len(list) \in Nat
  BY <1>2, HeadTailProperties
<1>4. active[t]
  BY <1>3, <1>t DEF ListInv, Has
<1>5. Firing = None /\ Firing' = t
  BY <1>1 DEF Firing
<1>6. deadline[t] - early[t] <= now \/ now = MaxTime
  <2> SUFFICES ASSUME now < MaxTime PROVE deadline[t] - early[t] <= now
    BY <1>2
  <2>1. Due(dur, list, deadline, early, now, lag)
    BY <1>1, <1>t DEF InTime, Counted
  <2>2. Prefix(dur, list, 1) = dur[t]
    <3>1. Deltas(dur, list, 1)
      BY <1>2, <1>3 DEF Deltas
    <3>2. Prefix(dur, list, 0) = 0 /\ Prefix(dur, list, 1) = Prefix(dur, list, 1 - 1) + dur[list[1]]
      BY <3>1, DeltaSums
    <3> QED
      BY <1>2, <1>3, <3>2
  <2>3. dur[t] <= 0
    BY <1>1, <1>t DEF ExpiryInv
  <2>4. Prefix(dur, list, 1) >= deadline[list[1]] - now - early[list[1]]
    BY <1>3, <2>1 DEF Due
  <2>5. dur[t] \in Int /\ deadline[t] \in Int /\ early[t] \in Int
    BY <1>2, <1>3
  <2> QED
    BY <1>2, <1>3, <2>2, <2>3, <2>4, <2>5
<1>7. /\ Alarms[t] = [on |-> TRUE, due |-> deadline[t], early |-> early[t], data |-> data[t]]
      /\ Alarms' = Alarms
  BY <1>1, <1>3, <1>4 DEF Alarms
<1>8. queue' = IF Len(queue[UserOf[t]]) < QCap
              THEN [queue EXCEPT ![UserOf[t]] = Append(@, [timer |-> t, data |-> data[t]])]
              ELSE queue
  BY DEF SendExpiry
<1> HIDE DEF t
<1>9. Service!Expire(t)
  BY <1>1, <1>5, <1>6, <1>7, <1>8 DEF Service!Expire, Service!Running
<1> QED
  BY <1>3, <1>9

LEMMA EndSeen == ASSUME RaceFreeInv, Deactivate PROVE Service!End
<1> USE DEF blocks, service, clients, clock
<1>t. TypeInv /\ ListInv
  BY DEF RaceFreeInv
<1>1. svc = "deactivate" /\ svc' = "clear" /\ RemoveAt(dur, 1) /\ UNCHANGED <<data, queue, now>>
  BY DEF Deactivate
<1>2. list \in Seq(Timers) /\ list # <<>>
  BY <1>1, <1>t DEF TypeInv, BlockTypes, ServiceTypes
<1>3. list[1] = Head(list) /\ 1 \in 1 .. Len(list)
  BY <1>2
<1>4. list[1] \in Timers /\ Alarms' = [Alarms EXCEPT ![list[1]] = Service!Off]
  <2>1. /\ list[1] \in Timers /\ Alarms'[list[1]] = Service!Off
        /\ \A u \in Timers : u # list[1] => active'[u] = active[u] /\ deadline'[u] = deadline[u]
    BY <1>1, <1>3, <1>t, OffTheList
  <2>2. early' = [early EXCEPT ![list[1]] = 0] /\ early \in [Timers -> Nat]
    BY <1>3, <1>t DEF Deactivate, TypeInv, ClockTypes
  <2>3. ASSUME NEW u \in Timers, u # list[1] PROVE Alarms'[u] = Alarms[u]
    <3>1. early'[u] = early[u] /\ data'[u] = data[u]
      BY <1>1, <2>2, <2>3
    <3> QED
      BY <2>1, <2>3, <3>1 DEF Alarms
  <2>4. Alarms = [u \in Timers |-> Alarms[u]] /\ Alarms' = [u \in Timers |-> Alarms'[u]]
    BY DEF Alarms
  <2> QED
    BY <2>1, <2>3, <2>4
<1>5. Firing = list[1] /\ Firing' = None
  BY <1>1, <1>3 DEF Firing
<1>6. list[1] # None
  BY <1>4, NoneAssumption
<1> QED
  BY <1>1, <1>4, <1>5, <1>6 DEF Service!End

LEMMA ServiceSees ==
    ASSUME KeepsTime, [Next]_vars
    PROVE  [Service!Next]_<<Alarms, Firing, queue, now>>
<1>t. RaceFreeInv /\ TypeInv /\ ListInv /\ ExpiryInv
  BY DEF KeepsTime, RaceFreeInv
<1> USE DEF blocks, service, clients, clock
<1>0. ASSUME Unseen PROVE [Service!Next]_<<Alarms, Firing, queue, now>>
  BY <1>0 DEF Unseen
<1>1. ASSUME NEW c \in Clients, ClientCall(c) \/ ClientStep(c)
      PROVE  [Service!Next]_<<Alarms, Firing, queue, now>>
  BY <1>0, <1>1, <1>t, UserStep DEF Service!Next
<1>2. CASE ReadAdd
  BY <1>2, <1>t, StartSeen DEF Service!Next
<1>3. CASE ReadRemove
  BY <1>3, <1>t, StopSeen DEF Service!Next
<1>4. CASE Timeout
  <2>1. svc = "select" /\ svc' = "send" /\ UNCHANGED <<active, deadline, early, data, queue, now>>
    BY <1>4 DEF Timeout
  <2> QED
    BY <1>0, <2>1 DEF Unseen, Alarms, Firing
<1>5. CASE SendExpiry
  BY <1>5, ExpireSeen DEF Service!Next
<1>6. CASE Deactivate
  BY <1>6, <1>t, EndSeen DEF Service!Next
<1>7. CASE ClearData
  <2>1. /\ svc = "clear" /\ svc' # "deactivate" /\ UNCHANGED <<active, deadline, early, queue, now>>
        /\ data' = [data EXCEPT ![expiring] = 0]
    BY <1>7 DEF ClearData
  <2>2. data \in [Timers -> {0, 1}] /\ expiring \in Timers /\ ~active[expiring]
    BY <1>t, <2>1 DEF TypeInv, BlockTypes, ExpiryInv
  <2>3. \A u \in Timers : active[u] => data'[u] = data[u]
    BY <2>1, <2>2
  <2>4. Alarms' = Alarms /\ Firing' = Firing
    BY <2>1, <2>3 DEF Alarms, Firing
  <2> QED
    BY <1>0, <2>1, <2>4 DEF Unseen
<1>8. CASE TickWaiting
  <2>1. /\ UNCHANGED <<active, deadline, early, data, svc, list, queue>>
        /\ now' = IF now < MaxTime THEN now + 1 ELSE now
    BY <1>8 DEF TickWaiting
  <2>2. Alarms' = Alarms /\ Firing' = Firing
    BY <2>1 DEF Alarms, Firing
  <2> QED
    BY <1>0, <2>1, <2>2 DEF Unseen, Service!Next, Service!Tick
<1>9. CASE TickElsewhere
  <2>1. /\ UNCHANGED <<active, deadline, early, data, svc, list, queue>>
        /\ now < MaxTime /\ now' = now + 1
    BY <1>9 DEF TickElsewhere
  <2>2. Alarms' = Alarms /\ Firing' = Firing
    BY <2>1 DEF Alarms, Firing
  <2> QED
    BY <2>1, <2>2 DEF Service!Next, Service!Tick
<1>10. CASE UNCHANGED vars
  BY <1>0, <1>10, SameUnseen DEF vars
<1> QED
  BY <1>1, <1>2, <1>3, <1>4, <1>5, <1>6, <1>7, <1>8, <1>9, <1>10 DEF Next, ServiceStep

(* The timers do what their users are promised (IsTimerService): for each  *)
(* start that is not cancelled one expiry message, with its data and not   *)
(* before it is due but for less than a millisecond for each command read  *)
(* meanwhile; the deltas, the socket and the two writes at expiry are not  *)
(* seen.                                                                   *)
THEOREM TimersImplemented ==
    ASSUME ~CreateRace
    PROVE  Spec => IsTimerService
<1>1. Init => Service!Init
  <2> SUFFICES ASSUME Init PROVE Service!Init
    OBVIOUS
  <2>1. Alarms = [t \in Timers |-> Service!Off]
    BY DEF Init, Alarms, Service!Off
  <2> QED
    BY <2>1 DEF Init, Service!Init, Firing
<1>2. KeepsTime /\ [Next]_vars => [Service!Next]_<<Alarms, Firing, queue, now>>
  BY ServiceSees
<1> QED
  BY <1>1, <1>2, KeepsTimeHolds, PTL DEF Spec, IsTimerService, Service!Spec
=============================================================================
