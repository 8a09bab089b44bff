-------------------------- MODULE CprTimersProofs --------------------------
(***************************************************************************)
(* TLAPS proofs about CprTimers, for any number of threads and timers, any *)
(* durations and any calls: the types, the exchange of commands and        *)
(* results, the list of running timers, and what a cancel means.  The last *)
(* two are about a program in which threads do not race in cprCreateTimer. *)
(***************************************************************************)
EXTENDS CprTimers, SequenceTheorems, WellFoundedInduction, TLAPS

-----------------------------------------------------------------------------
(* Induction over numbers, and the sums of deltas it defines.              *)

LEMMA LeastNumber ==
    ASSUME NEW S \in SUBSET Nat, S # {}
    PROVE  \E m \in S : \A k \in S : m <= k
<1> DEFINE R == OpToRel(<, Nat)
<1>1. IsWellFoundedOn(R, Nat)
  BY NatLessThanWellFounded
<1>2. \A x, y \in Nat : <<x, y>> \in R <=> x < y
  BY DEF OpToRel
<1> HIDE DEF R
<1>3. PICK m \in S : \A y \in S : <<y, m>> \notin R
  BY <1>1, WFMin
<1>4. ASSUME NEW k \in S PROVE m <= k
  <2>1. m \in Nat /\ k \in Nat
    OBVIOUS
  <2>2. ~(k < m)
    BY <1>2, <1>3, <2>1
  <2> QED
    BY <2>1, <2>2
<1> QED
  BY <1>4

(* A set that has 0, and with each number below n the next one, has all    *)
(* numbers up to n.                                                        *)
LEMMA UpTo ==
    ASSUME NEW n \in Nat, NEW S, 0 \in S,
           \A k \in 0 .. n - 1 : k \in S => k + 1 \in S
    PROVE  0 .. n \subseteq S
<1> DEFINE Out == {k \in 0 .. n : k \notin S}
<1>1. Out \subseteq Nat
  OBVIOUS
<1>2. CASE Out # {}
  <2>1. PICK m \in Out : \A k \in Out : m <= k
    BY <1>1, <1>2, LeastNumber
  <2>2. m \in 1 .. n /\ m - 1 \in 0 .. n - 1 /\ ~(m <= m - 1)
    <3>1. m \in 0 .. n /\ m # 0
      OBVIOUS
    <3> QED
      BY <3>1
  <2>3. m - 1 \in S
    BY <2>1, <2>2
  <2>4. (m - 1) + 1 \in S
    BY <2>2, <2>3
  <2>5. (m - 1) + 1 = m
    BY <2>2
  <2> QED
    BY <2>4, <2>5
<1> QED
  BY <1>2

(* f holds the sums of the deltas d of the first 0, 1, ..., n timers of l. *)
Sums(f, d, l, n) == f = [j \in 0 .. n |-> IF j = 0 THEN 0 ELSE f[j - 1] + d[l[j]]]

LEMMA SumsExist ==
    ASSUME NEW d, NEW l, NEW n \in Nat, \A j \in 1 .. n : d[l[j]] \in Int
    PROVE  \E f \in [0 .. n -> Int] : Sums(f, d, l, n)
<1> DEFINE S == {k \in 0 .. n : \E f \in [0 .. k -> Int] : Sums(f, d, l, k)}
<1>1. 0 \in S
  <2> DEFINE f == [j \in 0 .. 0 |-> 0]
  <2>1. f \in [0 .. 0 -> Int]
    OBVIOUS
  <2>2. f = [j \in 0 .. 0 |-> IF j = 0 THEN 0 ELSE f[j - 1] + d[l[j]]]
    OBVIOUS
  <2>3. Sums(f, d, l, 0)
    BY <2>2 DEF Sums
  <2>4. 0 \in 0 .. n
    OBVIOUS
  <2> HIDE DEF f
  <2> QED
    BY <2>1, <2>3, <2>4
<1>2. ASSUME NEW k \in 0 .. n - 1, k \in S PROVE k + 1 \in S
  <2>1. PICK f \in [0 .. k -> Int] : Sums(f, d, l, k)
    BY <1>2
  <2>2. k + 1 \in 1 .. n /\ d[l[k + 1]] \in Int /\ k \in Nat /\ k + 1 \in 0 .. n
    OBVIOUS
  <2> DEFINE g == [j \in 0 .. k + 1 |-> IF j = k + 1 THEN f[k] + d[l[k + 1]] ELSE f[j]]
  <2>3. \A j \in 0 .. k + 1 : (j = k + 1 \/ j \in 0 .. k) /\ ~(j = k + 1 /\ j \in 0 .. k)
    BY <2>2
  <2>4. g \in [0 .. k + 1 -> Int]
    <3>1. f[k] \in Int /\ f[k] + d[l[k + 1]] \in Int
      BY <2>2
    <3> QED
      BY <2>3, <3>1
  <2>5. \A j \in 0 .. k : f[j] = IF j = 0 THEN 0 ELSE f[j - 1] + d[l[j]]
    BY <2>1 DEF Sums
  <2>6. ASSUME NEW j \in 0 .. k + 1
        PROVE  g[j] = IF j = 0 THEN 0 ELSE g[j - 1] + d[l[j]]
    <3>1. CASE j = k + 1
      <4>1. j - 1 = k /\ j # 0 /\ k \in 0 .. k + 1 /\ k # k + 1
        BY <3>1, <2>2
      <4>2. g[j] = f[k] + d[l[k + 1]] /\ g[k] = f[k]
        BY <3>1, <4>1
      <4> QED
        BY <3>1, <4>1, <4>2
    <3>2. CASE j \in 0 .. k
      <4>1. g[j] = f[j]
        BY <3>2, <2>3
      <4>2. j # 0 => j - 1 \in 0 .. k + 1 /\ j - 1 # k + 1
        BY <3>2
      <4>3. j # 0 => g[j - 1] = f[j - 1]
        BY <4>2
      <4> QED
        BY <3>2, <4>1, <4>3, <2>5
    <3> QED
      BY <3>1, <3>2, <2>3
  <2>7. Sums(g, d, l, k + 1)
    BY <2>6 DEF Sums
  <2> HIDE DEF g
  <2> QED
    BY <2>2, <2>4, <2>7
<1> HIDE DEF S
<1>3. n \in S
  BY <1>1, <1>2, UpTo
<1> QED
  BY <1>3 DEF S

(* Two of them agree as far as both go. *)
LEMMA SumsAgree ==
    ASSUME NEW d, NEW l, NEW m \in Nat, NEW n \in Nat, m <= n,
           NEW f, NEW g, Sums(f, d, l, m), Sums(g, d, l, n)
    PROVE  \A k \in 0 .. m : f[k] = g[k]
<1> DEFINE S == {k \in 0 .. m : f[k] = g[k]}
<1>1. /\ \A j \in 0 .. m : f[j] = IF j = 0 THEN 0 ELSE f[j - 1] + d[l[j]]
      /\ \A j \in 0 .. n : g[j] = IF j = 0 THEN 0 ELSE g[j - 1] + d[l[j]]
  BY DEF Sums
<1>2. 0 \in S
  BY <1>1
<1>3. ASSUME NEW k \in 0 .. m - 1, k \in S PROVE k + 1 \in S
  <2>1. k + 1 \in 0 .. m /\ k + 1 \in 0 .. n /\ k + 1 # 0 /\ (k + 1) - 1 = k
    OBVIOUS
  <2>2. f[k + 1] = f[k] + d[l[k + 1]] /\ g[k + 1] = g[k] + d[l[k + 1]]
    BY <1>1, <2>1
  <2> QED
    BY <1>3, <2>1, <2>2
<1> HIDE DEF S
<1>4. 0 .. m \subseteq S
  BY <1>2, <1>3, UpTo
<1> QED
  BY <1>4 DEF S

(* Where they exist, they are what Prefix computes. *)
LEMMA PrefixIsSum ==
    ASSUME NEW d, NEW l, NEW m \in Nat, NEW n \in Nat, m <= n,
           NEW f, Sums(f, d, l, n), \E h : Sums(h, d, l, m)
    PROVE  Prefix(d, l, m) = f[m]
<1> DEFINE sum == CHOOSE h : h = [j \in 0 .. m |-> IF j = 0 THEN 0 ELSE h[j - 1] + d[l[j]]]
<1>1. Prefix(d, l, m) = sum[m]
  BY DEF Prefix
<1>2. \E h : h = [j \in 0 .. m |-> IF j = 0 THEN 0 ELSE h[j - 1] + d[l[j]]]
  BY DEF Sums
<1>3. sum = [j \in 0 .. m |-> IF j = 0 THEN 0 ELSE sum[j - 1] + d[l[j]]]
  BY <1>2, Zenon
<1> HIDE DEF sum
<1>4. Sums(sum, d, l, m)
  BY <1>3 DEF Sums
<1>5. \A j \in 0 .. m : sum[j] = f[j]
  BY <1>4, SumsAgree
<1> QED
  BY <1>1, <1>5

(* The recursion of Prefix. *)
LEMMA PrefixSums ==
    ASSUME NEW d, NEW l, NEW n \in Nat, \A j \in 1 .. n : d[l[j]] \in Int
    PROVE  /\ Prefix(d, l, 0) = 0
           /\ \A k \in 0 .. n : Prefix(d, l, k) \in Int
           /\ \A k \in 1 .. n : Prefix(d, l, k) = Prefix(d, l, k - 1) + d[l[k]]
<1>1. PICK f \in [0 .. n -> Int] : Sums(f, d, l, n)
  BY SumsExist
<1>2. ASSUME NEW k \in 0 .. n PROVE Prefix(d, l, k) = f[k]
  <2>1. k \in Nat /\ k <= n /\ \A j \in 1 .. k : d[l[j]] \in Int
    OBVIOUS
  <2>2. \E h : Sums(h, d, l, k)
    BY <2>1, SumsExist
  <2> QED
    BY <2>1, <2>2, <1>1, PrefixIsSum
<1>3. \A j \in 0 .. n : f[j] = IF j = 0 THEN 0 ELSE f[j - 1] + d[l[j]]
  BY <1>1 DEF Sums
<1>4. Prefix(d, l, 0) = 0 /\ \A k \in 0 .. n : Prefix(d, l, k) \in Int
  BY <1>1, <1>2, <1>3
<1>5. ASSUME NEW k \in 1 .. n PROVE Prefix(d, l, k) = Prefix(d, l, k - 1) + d[l[k]]
  <2>1. k \in 0 .. n /\ k # 0 /\ k - 1 \in 0 .. n
    OBVIOUS
  <2> QED
    BY <2>1, <1>2, <1>3
<1> QED
  BY <1>4, <1>5

-----------------------------------------------------------------------------
(* The list: taking the k-th timer off, and putting one in at place k.     *)

InsertedAt(s, k, t) == SubSeq(s, 1, k - 1) \o <<t>> \o SubSeq(s, k, Len(s))

LEMMA WithoutProperties ==
    ASSUME NEW S, NEW s \in Seq(S), NEW k \in 1 .. Len(s)
    PROVE  /\ Without(s, k) \in Seq(S) /\ Len(Without(s, k)) = Len(s) - 1
           /\ \A i \in 1 .. Len(s) - 1 : Without(s, k)[i] = IF i < k THEN s[i] ELSE s[i + 1]
<1> DEFINE a == SubSeq(s, 1, k - 1)
           b == SubSeq(s, k + 1, Len(s))
<1>1. k \in Nat /\ Len(s) \in Nat /\ 1 <= k /\ k <= Len(s)
  OBVIOUS
<1>2. /\ a \in Seq(S) /\ Len(a) = k - 1
      /\ \A i \in 1 .. k - 1 : a[i] = s[i]
  <2>1. 1 \in 1 .. Len(s) + 1 /\ k - 1 \in 1 - 1 .. Len(s)
    BY <1>1
  <2>2. /\ a \in Seq(S) /\ Len(a) = (k - 1) - 1 + 1
        /\ \A i \in 1 .. (k - 1) - 1 + 1 : a[i] = s[1 + i - 1]
    BY <2>1, SubSeqProperties
  <2> QED
    BY <2>2, <1>1
<1>3. /\ b \in Seq(S) /\ Len(b) = Len(s) - k
      /\ \A i \in 1 .. Len(s) - k : b[i] = s[k + i]
  <2>1. k + 1 \in 1 .. Len(s) + 1 /\ Len(s) \in (k + 1) - 1 .. Len(s)
    BY <1>1
  <2>2. /\ b \in Seq(S) /\ Len(b) = Len(s) - (k + 1) + 1
        /\ \A i \in 1 .. Len(s) - (k + 1) + 1 : b[i] = s[(k + 1) + i - 1]
    BY <2>1, SubSeqProperties
  <2> QED
    BY <2>2, <1>1
<1> HIDE DEF a, b
<1>4. /\ a \o b \in Seq(S) /\ Len(a \o b) = Len(a) + Len(b)
      /\ \A i \in 1 .. Len(a) + Len(b) : (a \o b)[i] = IF i <= Len(a) THEN a[i] ELSE b[i - Len(a)]
  BY <1>2, <1>3, ConcatProperties
<1>5. Len(a \o b) = Len(s) - 1
  BY <1>1, <1>2, <1>3, <1>4
<1>6. ASSUME NEW i \in 1 .. Len(s) - 1 PROVE (a \o b)[i] = IF i < k THEN s[i] ELSE s[i + 1]
  <2>1. CASE i < k
    BY <2>1, <1>1, <1>2, <1>3, <1>4
  <2>2. CASE ~(i < k)
    <3>1. i - (k - 1) \in 1 .. Len(s) - k /\ k + (i - (k - 1)) = i + 1 /\ ~(i <= k - 1)
      BY <2>2, <1>1
    <3>2. i \in 1 .. Len(a) + Len(b) /\ ~(i <= Len(a)) /\ i - Len(a) = i - (k - 1)
      BY <3>1, <1>1, <1>2, <1>3
    <3>3. (a \o b)[i] = b[i - (k - 1)]
      BY <3>2, <1>4
    <3>4. b[i - (k - 1)] = s[k + (i - (k - 1))]
      BY <3>1, <1>3
    <3> QED
      BY <2>2, <3>1, <3>3, <3>4
  <2> QED
    BY <2>1, <2>2
<1> QED
  BY <1>4, <1>5, <1>6 DEF Without, a, b

InsertedAs(S, s, k, t) ==
    /\ InsertedAt(s, k, t) \in Seq(S) /\ Len(InsertedAt(s, k, t)) = Len(s) + 1
    /\ \A i \in 1 .. Len(s) + 1 :
          InsertedAt(s, k, t)[i] = IF i < k THEN s[i] ELSE IF i = k THEN t ELSE s[i - 1]

LEMMA InsertedProperties ==
    ASSUME NEW S, NEW s \in Seq(S), NEW t \in S, NEW k \in 1 .. Len(s) + 1
    PROVE  InsertedAs(S, s, k, t)
<1> DEFINE a == SubSeq(s, 1, k - 1)
           b == SubSeq(s, k, Len(s))
           c == a \o <<t>>
<1>1. k \in Nat /\ Len(s) \in Nat /\ 1 <= k /\ k <= Len(s) + 1
  OBVIOUS
<1>2. /\ a \in Seq(S) /\ Len(a) = k - 1
      /\ \A i \in 1 .. k - 1 : a[i] = s[i]
  <2>1. 1 \in 1 .. Len(s) + 1 /\ k - 1 \in 1 - 1 .. Len(s)
    BY <1>1
  <2>2. /\ a \in Seq(S) /\ Len(a) = (k - 1) - 1 + 1
        /\ \A i \in 1 .. (k - 1) - 1 + 1 : a[i] = s[1 + i - 1]
    BY <2>1, SubSeqProperties
  <2> QED
    BY <2>2, <1>1
<1>3. /\ b \in Seq(S) /\ Len(b) = Len(s) - k + 1
      /\ \A i \in 1 .. Len(s) - k + 1 : b[i] = s[k + i - 1]
  <2>1. k \in 1 .. Len(s) + 1 /\ Len(s) \in k - 1 .. Len(s)
    BY <1>1
  <2> QED
    BY <2>1, SubSeqProperties
<1> HIDE DEF a, b
<1>4. /\ c \in Seq(S) /\ Len(c) = k /\ c[k] = t
      /\ \A i \in 1 .. k - 1 : c[i] = s[i]
  <2>1. c = Append(a, t)
    BY <1>2, AppendIsConcat
  <2>2. /\ Append(a, t) \in Seq(S) /\ Len(Append(a, t)) = Len(a) + 1
        /\ Append(a, t)[Len(a) + 1] = t
        /\ \A i \in 1 .. Len(a) : Append(a, t)[i] = a[i]
    BY <1>2, AppendProperties
  <2> HIDE DEF c
  <2> QED
    BY <2>1, <2>2, <1>1, <1>2
<1> HIDE DEF c
<1>5. /\ c \o b \in Seq(S) /\ Len(c \o b) = Len(c) + Len(b)
      /\ \A i \in 1 .. Len(c) + Len(b) : (c \o b)[i] = IF i <= Len(c) THEN c[i] ELSE b[i - Len(c)]
  BY <1>3, <1>4, ConcatProperties
<1>6. Len(c \o b) = Len(s) + 1
  BY <1>1, <1>3, <1>4, <1>5
<1>7. ASSUME NEW i \in 1 .. Len(s) + 1
      PROVE  (c \o b)[i] = IF i < k THEN s[i] ELSE IF i = k THEN t ELSE s[i - 1]
  <2>1. CASE i <= k
    BY <2>1, <1>1, <1>3, <1>4, <1>5
  <2>2. CASE ~(i <= k)
    <3>1. i - k \in 1 .. Len(s) - k + 1 /\ k + (i - k) - 1 = i - 1
      BY <2>2, <1>1
    <3> QED
      BY <2>2, <3>1, <1>1, <1>3, <1>4, <1>5
  <2> QED
    BY <2>1, <2>2
<1> QED
  BY <1>5, <1>6, <1>7 DEF InsertedAt, InsertedAs, a, b, c

(* What is listed, and that each timer is listed once. *)
Has(s, t) == \E k \in 1 .. Len(s) : s[k] = t
Once(s) == \A j, k \in 1 .. Len(s) : s[j] = s[k] => j = k

LEMMA WithoutHas ==
    ASSUME NEW S, NEW s \in Seq(S), NEW k \in 1 .. Len(s), Once(s)
    PROVE  Once(Without(s, k)) /\ \A t : Has(Without(s, k), t) <=> Has(s, t) /\ t # s[k]
<1> DEFINE r == Without(s, k)
<1>1. /\ r \in Seq(S) /\ Len(r) = Len(s) - 1 /\ Len(s) \in Nat
      /\ \A i \in 1 .. Len(s) - 1 : r[i] = IF i < k THEN s[i] ELSE s[i + 1]
  BY WithoutProperties
<1> HIDE DEF r
<1>2. Once(r)
  <2> SUFFICES ASSUME NEW i \in 1 .. Len(r), NEW j \in 1 .. Len(r), r[i] = r[j] PROVE i = j
    BY DEF Once
  <2>1. /\ i \in 1 .. Len(s) /\ i + 1 \in 1 .. Len(s)
        /\ j \in 1 .. Len(s) /\ j + 1 \in 1 .. Len(s)
    BY <1>1
  <2>2. (IF i < k THEN i ELSE i + 1) = (IF j < k THEN j ELSE j + 1)
    BY <1>1, <2>1 DEF Once
  <2> QED
    BY <2>1, <2>2
<1>3. ASSUME NEW t, Has(r, t) PROVE Has(s, t) /\ t # s[k]
  <2>1. PICK i \in 1 .. Len(r) : r[i] = t
    BY <1>3 DEF Has
  <2>2. i \in 1 .. Len(s) /\ i + 1 \in 1 .. Len(s)
    BY <1>1
  <2>3. CASE i < k
    BY <1>1, <2>1, <2>2, <2>3 DEF Has, Once
  <2>4. CASE ~(i < k)
    <3>1. r[i] = s[i + 1] /\ i + 1 # k
      BY <1>1, <2>4
    <3> QED
      BY <2>1, <2>2, <3>1 DEF Has, Once
  <2> QED
    BY <2>3, <2>4
<1>4. ASSUME NEW t, Has(s, t), t # s[k] PROVE Has(r, t)
  <2>1. PICK i \in 1 .. Len(s) : s[i] = t
    BY <1>4 DEF Has
  <2>2. CASE i < k
    BY <1>1, <2>1, <2>2 DEF Has
  <2>3. CASE i > k
    <3>1. i - 1 \in 1 .. Len(r) /\ ~(i - 1 < k) /\ (i - 1) + 1 = i
      BY <1>1, <2>3
    <3> QED
      BY <1>1, <2>1, <3>1 DEF Has
  <2>4. i # k
    BY <1>4, <2>1
  <2> QED
    BY <2>2, <2>3, <2>4
<1> QED
  BY <1>2, <1>3, <1>4 DEF r

LEMMA InsertedHas ==
    ASSUME NEW S, NEW s \in Seq(S), NEW t \in S, NEW k \in 1 .. Len(s) + 1, Once(s), ~Has(s, t)
    PROVE  Once(InsertedAt(s, k, t)) /\ \A u : Has(InsertedAt(s, k, t), u) <=> Has(s, u) \/ u = t
<1> DEFINE r == InsertedAt(s, k, t)
<1>1. /\ r \in Seq(S) /\ Len(r) = Len(s) + 1 /\ Len(s) \in Nat
      /\ \A i \in 1 .. Len(s) + 1 : r[i] = IF i < k THEN s[i] ELSE IF i = k THEN t ELSE s[i - 1]
  <2>1. InsertedAs(S, s, k, t)
    BY InsertedProperties
  <2> QED
    BY <2>1 DEF InsertedAs
<1> HIDE DEF r
<1>2. \A i \in 1 .. Len(r) : i # k => (IF i < k THEN i ELSE i - 1) \in 1 .. Len(s)
  BY <1>1
<1>3. \A i \in 1 .. Len(r) : i # k => r[i] = s[IF i < k THEN i ELSE i - 1]
  BY <1>1
<1>4. r[k] = t /\ k \in 1 .. Len(r)
  BY <1>1
<1>5. \A i \in 1 .. Len(r) : i # k => r[i] # t
  BY <1>2, <1>3 DEF Has
<1>6. Once(r)
  <2> SUFFICES ASSUME NEW i \in 1 .. Len(r), NEW j \in 1 .. Len(r), r[i] = r[j] PROVE i = j
    BY DEF Once
  <2>1. CASE i = k \/ j = k
    BY <2>1, <1>4, <1>5
  <2>2. CASE i # k /\ j # k
    <3>1. (IF i < k THEN i ELSE i - 1) = (IF j < k THEN j ELSE j - 1)
      BY <2>2, <1>2, <1>3 DEF Once
    <3> QED
      BY <3>1, <2>2, <1>1
  <2> QED
    BY <2>1, <2>2
<1>7. ASSUME NEW u, Has(r, u), u # t PROVE Has(s, u)
  <2>1. PICK i \in 1 .. Len(r) : r[i] = u
    BY <1>7 DEF Has
  <2>2. i # k
    BY <1>4, <1>7, <2>1
  <2> QED
    BY <1>2, <1>3, <2>1, <2>2 DEF Has
<1>8. ASSUME NEW u, Has(s, u) PROVE Has(r, u)
  <2>1. PICK i \in 1 .. Len(s) : s[i] = u
    BY <1>8 DEF Has
  <2>2. CASE i < k
    BY <1>1, <2>1, <2>2 DEF Has
  <2>3. CASE ~(i < k)
    <3>1. i + 1 \in 1 .. Len(r) /\ ~(i + 1 < k) /\ i + 1 # k /\ (i + 1) - 1 = i
      BY <1>1, <2>3
    <3> QED
      BY <1>1, <2>1, <3>1 DEF Has
  <2> QED
    BY <2>2, <2>3
<1>9. Has(r, t)
  BY <1>4 DEF Has
<1> QED
  BY <1>6, <1>7, <1>8, <1>9 DEF r

-----------------------------------------------------------------------------
(* Types                                                                   *)

Commands == [op : {None, "add", "remove"}, timer : Timers \union {None},
             duration : Durations \union {0}, data : {0, 1}]
Results == [op : {None, "add", "remove"}, timer : Timers \union {None}, ok : BOOLEAN]

(* TypeOK by parts.  With it: what is in the sockets, that a call and a    *)
(* command are for a timer, and that the service expires only what is on   *)
(* the list.                                                               *)
BlockTypes ==
    /\ exists \in [Timers -> BOOLEAN] /\ active \in [Timers -> BOOLEAN]
    /\ id \in [Timers -> Nat] /\ nextId \in Nat
    /\ dur \in [Timers -> Int] /\ data \in [Timers -> {0, 1}]
    /\ list \in Seq(Timers) /\ deadline \in [Timers -> Int]

ServiceTypes ==
    /\ svc \in {"select", "send", "deactivate", "clear", "dead"}
    /\ tv \in Int /\ expiring \in Timers \union {None}
    /\ cmd \in Commands /\ rsp \in Results
    /\ cmd.op # None => cmd.timer \in Timers
    /\ svc \in {"send", "deactivate"} => list # <<>>

Labels == {"idle", "created", "cancel", "add", "remove", "wait", "free"}

ClientTypes ==
    /\ pc \in [Clients -> Labels] /\ call \in [Clients -> CallTypes]
    /\ calls \in [Clients -> Nat] /\ apiMutex \in Clients \union {None}
    /\ \A c \in Clients : pc[c] # "idle" => call[c].timer \in Timers

ClockTypes ==
    /\ now \in 0 .. MaxTime /\ lag \in 0 .. MaxTime /\ lag <= now
    /\ early \in [Timers -> Nat]

TypeInv == BlockTypes /\ ServiceTypes /\ ClientTypes /\ ClockTypes

LEMMA TypesKept ==
    ASSUME TypeInv
    PROVE  /\ UNCHANGED <<blocks, nextId, deadline>> => BlockTypes'
           /\ UNCHANGED <<service, rsp, list>> => ServiceTypes'
           /\ UNCHANGED <<pc, call, calls, apiMutex>> => ClientTypes'
           /\ UNCHANGED <<now, lag, early>> => ClockTypes'
<1> USE DEF TypeInv, blocks, service
<1>1. UNCHANGED <<blocks, nextId, deadline>> => BlockTypes'
  BY DEF BlockTypes
<1>2. UNCHANGED <<service, rsp, list>> => ServiceTypes'
  BY DEF ServiceTypes
<1>3. UNCHANGED <<pc, call, calls, apiMutex>> => ClientTypes'
  BY DEF ClientTypes
<1>4. UNCHANGED <<now, lag, early>> => ClockTypes'
  BY DEF ClockTypes
<1> QED
  BY <1>1, <1>2, <1>3, <1>4

(* A command that is read only adds to how early a timer may be. *)
LEMMA CountCutTypes ==
    ASSUME ClockTypes, UNCHANGED <<now, lag>>, CountCut
    PROVE  ClockTypes'
<1>1. ASSUME NEW t \in Timers PROVE early[t] + (Grain - 1) \in Nat
  BY TimersAssumption DEF ClockTypes
<1>2. early' \in [Timers -> Nat]
  BY <1>1 DEF ClockTypes, CountCut
<1> QED
  BY <1>2 DEF ClockTypes

(* Milliseconds as ticks, and what tv_usec/1000 leaves of a time. *)
LEMMA TicksType == ASSUME NEW d \in Nat PROVE Ticks(d) \in Int
<1>1. ToInt32(d) \in Int /\ Grain \in Int
  BY TimersAssumption DEF ToInt32
<1> QED
  BY <1>1 DEF Ticks

LEMMA WholeTime ==
    ASSUME NEW x \in Int
    PROVE  Whole(x) \in Int /\ Whole(x) <= x /\ x - (Grain - 1) <= Whole(x)
<1>1. Grain \in Nat /\ Grain > 0
  BY TimersAssumption
<1>2. x % Grain \in 0 .. Grain - 1
  BY <1>1
<1> QED
  BY <1>1, <1>2 DEF Whole

(* Where addTimer puts a timer, and the delta it gets. *)
LEMMA InsertAtPlace ==
    ASSUME list \in Seq(Timers), NEW durs \in [Timers -> Int], NEW D \in Int
    PROVE  LET at == InsertAt(durs, D)
           IN  /\ at.pos \in 1 .. Len(list) + 1
               /\ at.delta = D - Prefix(durs, list, at.pos - 1) /\ at.delta \in Int
<1> DEFINE later == {k \in 1 .. Len(list) : D - Prefix(durs, list, k - 1) < durs[list[k]]}
           pos == IF later = {} THEN Len(list) + 1
                  ELSE CHOOSE k \in later : \A j \in later : k <= j
<1>1. InsertAt(durs, D) = [pos |-> pos, delta |-> D - Prefix(durs, list, pos - 1)]
  BY DEF InsertAt
<1>2. Len(list) \in Nat
  OBVIOUS
<1>3. pos \in 1 .. Len(list) + 1
  <2>1. CASE later = {}
    BY <2>1, <1>2
  <2>2. CASE later # {}
    <3>1. later \in SUBSET Nat /\ later \subseteq 1 .. Len(list)
      OBVIOUS
    <3> HIDE DEF later
    <3>2. \E k \in later : \A j \in later : k <= j
      BY <2>2, <3>1, LeastNumber
    <3>3. pos \in later
      BY <2>2, <3>2
    <3> HIDE DEF pos
    <3> QED
      BY <3>1, <3>3, <1>2
  <2> QED
    BY <2>1, <2>2
<1> HIDE DEF pos
<1>4. \A j \in 1 .. Len(list) : durs[list[j]] \in Int
  BY ElementOfSeq
<1>5. pos - 1 \in 0 .. Len(list)
  BY <1>2, <1>3
<1>6. Prefix(durs, list, pos - 1) \in Int
  BY <1>2, <1>4, <1>5, PrefixSums
<1> QED
  BY <1>1, <1>3, <1>6

TimerAdded(durs, t, D) ==
    \E k \in 1 .. Len(list) + 1, delta \in Int :
        /\ delta = D - Prefix(durs, list, k - 1)
        /\ list' = InsertedAt(list, k, t)
        /\ dur' = IF k <= Len(list)
                  THEN [[durs EXCEPT ![t] = delta] EXCEPT ![list[k]] = @ - delta]
                  ELSE [durs EXCEPT ![t] = delta]

LEMMA AddTimerEffect ==
    ASSUME list \in Seq(Timers), NEW durs \in [Timers -> Int], NEW D \in Int,
           NEW t \in Timers, NEW dt, AddTimer(durs, t, D, dt)
    PROVE  TimerAdded(durs, t, D)
<1> DEFINE k == InsertAt(durs, D).pos
           delta == InsertAt(durs, D).delta
<1>1. k \in 1 .. Len(list) + 1 /\ delta = D - Prefix(durs, list, k - 1) /\ delta \in Int
  BY InsertAtPlace
<1>2. list' = InsertedAt(list, k, t)
  BY DEF AddTimer, InsertedAt
<1>3. dur' = IF k <= Len(list)
             THEN [[durs EXCEPT ![t] = delta] EXCEPT ![list[k]] = @ - delta]
             ELSE [durs EXCEPT ![t] = delta]
  BY DEF AddTimer
<1> HIDE DEF k, delta
<1> QED
  BY <1>1, <1>2, <1>3 DEF TimerAdded

LEMMA AddTimerTypes ==
    ASSUME list \in Seq(Timers), NEW durs \in [Timers -> Int], NEW D \in Int,
           NEW t \in Timers, NEW dt, AddTimer(durs, t, D, dt)
    PROVE  list' \in Seq(Timers) /\ dur' \in [Timers -> Int]
<1>1. PICK k \in 1 .. Len(list) + 1, delta \in Int :
         /\ delta = D - Prefix(durs, list, k - 1)
         /\ list' = InsertedAt(list, k, t)
         /\ dur' = IF k <= Len(list)
                   THEN [[durs EXCEPT ![t] = delta] EXCEPT ![list[k]] = @ - delta]
                   ELSE [durs EXCEPT ![t] = delta]
  <2>1. TimerAdded(durs, t, D)
    BY AddTimerEffect
  <2> QED
    BY <2>1 DEF TimerAdded
<1>2. list' \in Seq(Timers)
  <2>1. InsertedAs(Timers, list, k, t)
    BY <1>1, InsertedProperties
  <2> QED
    BY <1>1, <2>1 DEF InsertedAs
<1>3. [durs EXCEPT ![t] = delta] \in [Timers -> Int]
  OBVIOUS
<1>4. k <= Len(list) => list[k] \in Timers
  BY ElementOfSeq
<1> QED
  BY <1>1, <1>2, <1>3, <1>4

LEMMA RemoveAtTypes ==
    ASSUME list \in Seq(Timers), NEW durs \in [Timers -> Int], NEW k \in 1 .. Len(list),
           active \in [Timers -> BOOLEAN], deadline \in [Timers -> Int], RemoveAt(durs, k)
    PROVE  /\ list' \in Seq(Timers) /\ dur' \in [Timers -> Int]
           /\ active' \in [Timers -> BOOLEAN] /\ deadline' \in [Timers -> Int]
<1>1. list' \in Seq(Timers)
  BY WithoutProperties DEF RemoveAt
<1>2. list[k] \in Timers /\ (k < Len(list) => list[k + 1] \in Timers)
  <2>1. k < Len(list) => k + 1 \in 1 .. Len(list)
    OBVIOUS
  <2> QED
    BY <2>1, ElementOfSeq
<1>3. [durs EXCEPT ![list[k]] = -1] \in [Timers -> Int] /\ durs[list[k]] \in Int
  BY <1>2
<1>4. active' \in [Timers -> BOOLEAN] /\ deadline' \in [Timers -> Int]
  BY <1>2 DEF RemoveAt
<1>5. dur' \in [Timers -> Int]
  <2> DEFINE new == [durs EXCEPT ![list[k]] = -1]
  <2>1. CASE k < Len(list)
    <3>1. new[list[k + 1]] \in Int
      BY <1>2, <1>3, <2>1
    <3>2. dur' = [new EXCEPT ![list[k + 1]] = @ + durs[list[k]]]
      BY <2>1 DEF RemoveAt
    <3> HIDE DEF new
    <3>3. new \in [Timers -> Int]
      BY <1>3 DEF new
    <3> QED
      BY <1>2, <1>3, <2>1, <3>1, <3>2, <3>3, SMTT(20)
  <2>2. CASE ~(k < Len(list))
    BY <1>3, <2>2 DEF RemoveAt
  <2> QED
    BY <2>1, <2>2
<1> QED
  BY <1>1, <1>4, <1>5

LEMMA HeadLeftType ==
    ASSUME list \in Seq(Timers), dur \in [Timers -> Int], tv \in Int
    PROVE  HeadLeft \in [Timers -> Int]
BY HeadTailProperties, WholeTime DEF HeadLeft

LEMMA EnterSelectTypes ==
    ASSUME list' \in Seq(Timers), dur' \in [Timers -> Int], EnterSelect
    PROVE  tv' \in Int /\ svc' \in {"select", "dead"}
<1>1. list' # <<>> => Head(list') \in Timers
  BY HeadTailProperties
<1> QED
  BY <1>1 DEF EnterSelect

(* A call goes on, or ends. *)
LEMMA GotoTypes ==
    ASSUME ClientTypes, NEW c \in Clients, NEW label \in Labels, Goto(c, label),
           call[c].timer \in Timers, calls' \in [Clients -> Nat],
           apiMutex' \in Clients \union {None}
    PROVE  ClientTypes'
<1>1. NoCall \in CallTypes
  BY DEF NoCall, CallTypes
<1>2. call' \in [Clients -> CallTypes] /\ pc' \in [Clients -> Labels]
  BY <1>1 DEF Goto, ClientTypes
<1>3. ASSUME NEW b \in Clients, pc'[b] # "idle" PROVE call'[b].timer \in Timers
  <2>1. CASE b = c
    BY <1>3, <2>1 DEF Goto, ClientTypes
  <2>2. CASE b # c
    BY <1>3, <2>2 DEF Goto, ClientTypes
  <2> QED
    BY <2>1, <2>2
<1> QED
  BY <1>2, <1>3 DEF ClientTypes

LEMMA AfterCancelTypes ==
    ASSUME ClientTypes, NEW c \in Clients, AfterCancel(c), call[c].timer \in Timers,
           calls' \in [Clients -> Nat], apiMutex' \in Clients \union {None}
    PROVE  ClientTypes'
<1>1. PICK label \in {"idle", "add", "free"} : Goto(c, label)
  BY DEF AfterCancel
<1> QED
  BY <1>1, GotoTypes DEF Labels

(* The first part of a call, common to all of them. *)
LEMMA BeginTypes ==
    ASSUME ClientTypes, NEW c \in Clients, NEW op, NEW t \in Timers,
           NEW d \in Durations \union {0}, NEW dt \in {0, 1}, NEW label \in {"add", "cancel"},
           Begin(c, op, t, d, dt, label)
    PROVE  ClientTypes'
<1>1. op \in {"start", "cancel", "update", "destroy"}
  BY TimersAssumption DEF Begin
<1>2. [op |-> op, timer |-> t, duration |-> d, data |-> dt] \in CallTypes
  BY <1>1 DEF CallTypes
<1>3. call' \in [Clients -> CallTypes] /\ pc' \in [Clients -> Labels] /\ calls' \in [Clients -> Nat]
  BY <1>2 DEF Begin, ClientTypes, Labels
<1>4. \A b \in Clients : pc'[b] # "idle" => call'[b].timer \in Timers
  BY DEF Begin, ClientTypes
<1> QED
  BY <1>3, <1>4 DEF Begin, ClientTypes

LEMMA TypeInvStep == TypeInv /\ [Next]_vars => TypeInv'
<1> SUFFICES ASSUME TypeInv, [Next]_vars PROVE TypeInv'
  OBVIOUS
<1>t. BlockTypes /\ ServiceTypes /\ ClientTypes /\ ClockTypes
  BY DEF TypeInv
<1>k. /\ UNCHANGED <<blocks, nextId, deadline>> => BlockTypes'
      /\ UNCHANGED <<service, rsp, list>> => ServiceTypes'
      /\ UNCHANGED <<pc, call, calls, apiMutex>> => ClientTypes'
      /\ UNCHANGED <<now, lag, early>> => ClockTypes'
  BY TypesKept
<1>n. NoCall \in Commands /\ NoCall.op = None /\ NoResult \in Results
  BY DEF NoCall, NoResult, Commands, Results
<1>p. "add" # None /\ "remove" # None
  BY DEF None
<1>c. ClientTypes => calls \in [Clients -> Nat] /\ apiMutex \in Clients \union {None}
  BY DEF ClientTypes
<1> USE DEF blocks, service, clients, clock
<1>1. CASE UNCHANGED vars
  BY <1>1, <1>k DEF TypeInv, vars
<1>2. ASSUME NEW c \in Clients, NEW t \in Timers, CreateTimer(c, t) PROVE TypeInv'
  <2>1. [op |-> "create", timer |-> t, duration |-> 0, data |-> 0] \in CallTypes
    BY DEF CallTypes
  <2>2. call' \in [Clients -> CallTypes] /\ pc' \in [Clients -> Labels]
    BY <1>2, <1>t, <2>1 DEF CreateTimer, ClientTypes, Labels
  <2>3. \A b \in Clients : pc'[b] # "idle" => call'[b].timer \in Timers
    BY <1>2, <1>t DEF CreateTimer, ClientTypes
  <2>4. ClientTypes'
    BY <1>2, <1>t, <2>2, <2>3 DEF CreateTimer, ClientTypes
  <2>5. BlockTypes'
    BY <1>2, <1>t DEF CreateTimer, BlockTypes
  <2> QED
    BY <1>2, <1>k, <2>4, <2>5 DEF CreateTimer, TypeInv
<1>3. ASSUME NEW c \in Clients, NEW t \in Timers, NEW d \in Durations, StartTimer(c, t, d)
      PROVE  TypeInv'
  <2>1. ClientTypes'
    BY <1>3, <1>t, BeginTypes DEF StartTimer
  <2> QED
    BY <1>3, <1>k, <2>1 DEF StartTimer, Begin, TypeInv
<1>4. ASSUME NEW c \in Clients, NEW t \in Timers, CancelTimer(c, t) PROVE TypeInv'
  <2>1. ClientTypes'
    BY <1>4, <1>t, BeginTypes DEF CancelTimer
  <2> QED
    BY <1>4, <1>k, <2>1 DEF CancelTimer, Begin, TypeInv
<1>5. ASSUME NEW c \in Clients, NEW t \in Timers, NEW d \in Durations, UpdateTimer(c, t, d)
      PROVE  TypeInv'
  <2>1. data[t] \in {0, 1}
    BY <1>t DEF BlockTypes
  <2>2. ClientTypes'
    BY <1>5, <1>t, <2>1, BeginTypes DEF UpdateTimer
  <2> QED
    BY <1>5, <1>k, <2>2 DEF UpdateTimer, Begin, TypeInv
<1>6. ASSUME NEW c \in Clients, NEW t \in Timers, DestroyTimer(c, t) PROVE TypeInv'
  <2>1. ClientTypes'
    BY <1>6, <1>t, BeginTypes DEF DestroyTimer
  <2> QED
    BY <1>6, <1>k, <2>1 DEF DestroyTimer, Begin, TypeInv
<1>7. ASSUME NEW c \in Clients, CountId(c) PROVE TypeInv'
  <2>1. call[c].timer \in Timers
    BY <1>7, <1>t DEF CountId, ClientTypes
  <2>2. ClientTypes'
    BY <1>7, <1>t, <1>c, <2>1, GotoTypes DEF CountId, Labels
  <2>3. nextId' \in Nat
    BY <1>7, <1>t, <2>1 DEF CountId, BlockTypes
  <2>4. BlockTypes'
    BY <1>7, <1>t, <2>3 DEF CountId, BlockTypes
  <2> QED
    BY <1>7, <1>k, <2>2, <2>4 DEF CountId, TypeInv
<1>8. ASSUME NEW c \in Clients, TestActive(c) PROVE TypeInv'
  <2>1. call[c].timer \in Timers
    BY <1>8, <1>t DEF TestActive, ClientTypes
  <2>2. ClientTypes'
    BY <1>8, <1>t, <1>c, <2>1, AfterCancelTypes, GotoTypes DEF TestActive, Labels
  <2> QED
    BY <1>8, <1>k, <2>2 DEF TestActive, TypeInv
<1>9. ASSUME NEW c \in Clients, SendCmd(c) PROVE TypeInv'
  <2>1. call[c] \in CallTypes /\ call[c].timer \in Timers /\ pc[c] \in {"add", "remove"}
    BY <1>9, <1>t DEF SendCmd, ClientTypes
  <2>2. cmd' \in Commands /\ cmd'.timer \in Timers
    BY <1>9, <2>1 DEF SendCmd, CallTypes, Commands
  <2>3. ClientTypes'
    BY <1>9, <1>t, <1>c, <2>1, GotoTypes DEF SendCmd, Labels
  <2>4. ServiceTypes'
    BY <1>9, <1>t, <2>2 DEF SendCmd, ServiceTypes
  <2> QED
    BY <1>9, <1>k, <2>3, <2>4 DEF SendCmd, TypeInv
<1>f. ASSUME NEW c \in Clients, SendFails(c) PROVE TypeInv'
  <2>1. call[c].timer \in Timers
    BY <1>f, <1>t DEF SendFails, ClientTypes
  <2>2. ClientTypes'
    BY <1>f, <1>t, <1>c, <2>1, GotoTypes DEF SendFails, Labels
  <2> QED
    BY <1>f, <1>k, <2>2 DEF SendFails, TypeInv
<1>10. ASSUME NEW c \in Clients, ReceiveResult(c) PROVE TypeInv'
  <2>1. call[c].timer \in Timers
    BY <1>10, <1>t DEF ReceiveResult, ClientTypes
  <2>2. ClientTypes'
    BY <1>10, <1>t, <1>c, <2>1, AfterCancelTypes, GotoTypes DEF ReceiveResult, Labels
  <2>3. ServiceTypes'
    BY <1>10, <1>t, <1>n DEF ReceiveResult, ServiceTypes
  <2> QED
    BY <1>10, <1>k, <2>2, <2>3 DEF ReceiveResult, TypeInv
<1>11. ASSUME NEW c \in Clients, FreeTimer(c) PROVE TypeInv'
  <2>1. call[c].timer \in Timers
    BY <1>11, <1>t DEF FreeTimer, ClientTypes
  <2>2. ClientTypes'
    BY <1>11, <1>t, <1>c, <2>1, GotoTypes DEF FreeTimer, Labels
  <2>3. BlockTypes'
    BY <1>11, <1>t DEF FreeTimer, BlockTypes
  <2> QED
    BY <1>11, <1>k, <2>2, <2>3 DEF FreeTimer, TypeInv
<1>12. ASSUME NEW c \in Clients, HandleExpiry(c) PROVE TypeInv'
  BY <1>12, <1>k DEF HandleExpiry, TypeInv
<1>13. HeadLeft \in [Timers -> Int]
  BY <1>t, HeadLeftType DEF BlockTypes, ServiceTypes
<1>14. CASE ReadAdd
  <2>1. cmd.timer \in Timers /\ cmd.duration \in Nat /\ cmd.data \in {0, 1} /\ cmd.op = "add"
    <3>1. cmd \in Commands /\ cmd.timer \in Timers /\ cmd.op = "add"
      BY <1>14, <1>t, <1>p DEF ReadAdd, ServiceTypes
    <3>2. cmd.duration \in Durations \union {0} /\ cmd.data \in {0, 1}
      BY <3>1 DEF Commands
    <3>3. Durations \subseteq Nat
      BY TimersAssumption
    <3>4. Durations \union {0} \subseteq Nat
      BY <3>3
    <3>5. cmd.duration \in Nat
      BY <3>2, <3>4, Zenon
    <3> QED
      BY <3>1, <3>2, <3>5
  <2>2. Ticks(cmd.duration) \in Int
    BY <2>1, TicksType
  <2>3. rsp' \in Results
    <3>1. PICK result \in BOOLEAN : Reply(result)
      BY <1>14 DEF ReadAdd
    <3> QED
      BY <2>1, <3>1 DEF Reply, Results
  <2>4. BlockTypes'
    <3>1. CASE active[cmd.timer]
      BY <1>13, <1>14, <1>t, <3>1 DEF ReadAdd, BlockTypes
    <3>2. CASE AddTimer(HeadLeft, cmd.timer, Ticks(cmd.duration), cmd.data)
      <4>1. list' \in Seq(Timers) /\ dur' \in [Timers -> Int]
        BY <1>13, <1>t, <2>1, <2>2, <3>2, AddTimerTypes DEF BlockTypes
      <4>2. now + Ticks(cmd.duration) \in Int
        BY <1>t, <2>2, TimersAssumption DEF ClockTypes
      <4>3. /\ active' \in [Timers -> BOOLEAN] /\ data' \in [Timers -> {0, 1}]
            /\ deadline' \in [Timers -> Int]
        BY <3>2, <4>2, <1>t, <2>1 DEF AddTimer, BlockTypes
      <4> QED
        BY <1>14, <4>1, <4>3, <1>t DEF ReadAdd, BlockTypes
    <3> QED
      BY <1>14, <3>1, <3>2 DEF ReadAdd
  <2>5. tv' \in Int /\ svc' \in {"select", "dead"}
    BY <1>14, <2>4, EnterSelectTypes DEF ReadAdd, BlockTypes
  <2>6. ServiceTypes'
    BY <1>14, <1>n, <1>t, <2>3, <2>5 DEF ReadAdd, ServiceTypes
  <2>7. ClockTypes'
    BY <1>14, <1>t, CountCutTypes DEF ReadAdd
  <2> QED
    BY <1>14, <1>k, <2>4, <2>6, <2>7 DEF ReadAdd, TypeInv
<1>15. CASE ReadRemove
  <2>1. cmd.timer \in Timers /\ cmd.op = "remove"
    BY <1>15, <1>t, <1>p DEF ReadRemove, ServiceTypes
  <2>2. rsp' \in Results
    BY <1>15, <2>1 DEF ReadRemove, Reply, Results
  <2> DEFINE found == {k \in 1 .. Len(list) : id[list[k]] = id[cmd.timer]}
             first == CHOOSE k \in found : \A j \in found : k <= j
  <2>3. data' \in [Timers -> {0, 1}]
    BY <1>15, <1>t DEF ReadRemove, BlockTypes
  <2>4. /\ list' \in Seq(Timers) /\ dur' \in [Timers -> Int]
        /\ active' \in [Timers -> BOOLEAN] /\ deadline' \in [Timers -> Int]
    <3>1. CASE found # {}
      <4>1. found \in SUBSET Nat /\ found \subseteq 1 .. Len(list)
        OBVIOUS
      <4>2. RemoveAt(HeadLeft, first)
        BY <1>15, <3>1 DEF ReadRemove
      <4> HIDE DEF found
      <4>3. \E k \in found : \A j \in found : k <= j
        BY <3>1, <4>1, LeastNumber
      <4>4. first \in found
        BY <4>3
      <4> HIDE DEF first
      <4>5. first \in 1 .. Len(list)
        BY <4>1, <4>4
      <4> QED
        BY <1>13, <1>t, <4>2, <4>5, RemoveAtTypes DEF BlockTypes
    <3>2. CASE found = {}
      <4>1. /\ active' = [active EXCEPT ![cmd.timer] = FALSE]
            /\ dur' = [HeadLeft EXCEPT ![cmd.timer] = -1]
            /\ UNCHANGED <<list, deadline>>
        BY <1>15, <3>2 DEF ReadRemove
      <4>2. list' \in Seq(Timers) /\ deadline' \in [Timers -> Int]
        BY <1>t, <4>1 DEF BlockTypes
      <4>3. active' \in [Timers -> BOOLEAN]
        <5>1. active \in [Timers -> BOOLEAN]
          BY <1>t DEF BlockTypes
        <5> QED
          BY <4>1, <5>1
      <4>4. dur' \in [Timers -> Int]
        <5>1. \A f \in [Timers -> Int], t \in Timers : [f EXCEPT ![t] = -1] \in [Timers -> Int]
          OBVIOUS
        <5> QED
          BY <1>13, <2>1, <4>1, <5>1, Zenon
      <4> QED
        BY <4>2, <4>3, <4>4
    <3> QED
      BY <3>1, <3>2
  <2>5. tv' \in Int /\ svc' \in {"select", "dead"}
    BY <1>15, <2>4, EnterSelectTypes DEF ReadRemove
  <2>6. BlockTypes'
    BY <1>15, <1>t, <2>3, <2>4 DEF ReadRemove, BlockTypes
  <2>7. ServiceTypes'
    BY <1>15, <1>n, <1>t, <2>2, <2>5 DEF ReadRemove, ServiceTypes
  <2>8. ClockTypes'
    BY <1>15, <1>t, CountCutTypes DEF ReadRemove
  <2> QED
    BY <1>15, <1>k, <2>6, <2>7, <2>8 DEF ReadRemove, TypeInv
<1>16. CASE Timeout
  <2>1. BlockTypes' /\ ServiceTypes'
    BY <1>16, <1>t DEF Timeout, BlockTypes, ServiceTypes
  <2> QED
    BY <1>16, <1>k, <2>1 DEF Timeout, TypeInv
<1>17. CASE SendExpiry
  <2>1. ServiceTypes'
    BY <1>17, <1>t DEF SendExpiry, ServiceTypes
  <2> QED
    BY <1>17, <1>k, <2>1 DEF SendExpiry, TypeInv
<1>18. CASE Deactivate
  <2>1. list # <<>> /\ Head(list) \in Timers /\ 1 \in 1 .. Len(list)
    BY <1>18, <1>t, HeadTailProperties DEF Deactivate, BlockTypes, ServiceTypes
  <2>2. /\ list' \in Seq(Timers) /\ dur' \in [Timers -> Int]
        /\ active' \in [Timers -> BOOLEAN] /\ deadline' \in [Timers -> Int]
    BY <1>18, <1>t, <2>1, RemoveAtTypes DEF Deactivate, BlockTypes
  <2>3. BlockTypes'
    BY <1>18, <1>t, <2>2 DEF Deactivate, BlockTypes
  <2>4. ServiceTypes'
    BY <1>18, <1>t, <2>1 DEF Deactivate, ServiceTypes
  <2>5. ClockTypes'
    BY <1>18, <1>t, <2>1 DEF Deactivate, ClockTypes
  <2> QED
    BY <1>18, <1>k, <2>3, <2>4, <2>5 DEF Deactivate, TypeInv
<1>19. CASE ClearData
  <2>1. list # <<>> => Head(list) \in Timers
    BY <1>t, HeadTailProperties DEF BlockTypes
  <2>2. BlockTypes'
    BY <1>19, <1>t DEF ClearData, BlockTypes
  <2>3. tv' \in Int /\ svc' \in {"select", "send"} /\ (svc' = "send" => list' # <<>>)
    BY <1>19, <1>t, <2>1 DEF ClearData, BlockTypes, ServiceTypes
  <2>4. ServiceTypes'
    BY <1>19, <1>t, <2>3 DEF ClearData, ServiceTypes
  <2> QED
    BY <1>19, <1>k, <2>2, <2>4 DEF ClearData, TypeInv
<1>20. CASE TickWaiting
  <2>1. ServiceTypes'
    BY <1>20, <1>t DEF TickWaiting, ServiceTypes
  <2>2. ClockTypes'
    <3>1. now' \in 0 .. MaxTime /\ now <= now' /\ lag' = lag /\ early' = early
      BY <1>20, <1>t, TimersAssumption DEF TickWaiting, ClockTypes
    <3> QED
      BY <1>t, <3>1, TimersAssumption DEF ClockTypes
  <2> QED
    BY <1>20, <1>k, <2>1, <2>2 DEF TickWaiting, TypeInv
<1>21. CASE TickElsewhere
  <2>1. ClockTypes'
    <3>1. now' \in 0 .. MaxTime /\ now' = now + 1 /\ lag' \in {lag, lag + 1} /\ early' = early
      BY <1>21, <1>t, TimersAssumption DEF TickElsewhere, ClockTypes
    <3> QED
      BY <1>t, <3>1, TimersAssumption DEF ClockTypes
  <2> QED
    BY <1>21, <1>k, <2>1 DEF TickElsewhere, TypeInv
<1> QED
  BY <1>1, <1>2, <1>3, <1>4, <1>5, <1>6, <1>7, <1>8, <1>9, <1>10, <1>11, <1>12,
     <1>14, <1>15, <1>16, <1>17, <1>18, <1>19, <1>20, <1>21, <1>f
     DEF Next, ClientCall, ClientStep, ServiceStep

LEMMA TypeInvHolds == Spec => []TypeInv
<1>1. Init => TypeInv
  <2> SUFFICES ASSUME Init PROVE TypeInv
    OBVIOUS
  <2>1. NoCall \in CallTypes /\ NoCall \in Commands /\ NoCall.op = None /\ NoResult \in Results
    BY DEF NoCall, NoResult, CallTypes, Commands, Results
  <2>2. BlockTypes
    BY DEF Init, BlockTypes
  <2>3. ServiceTypes
    BY <2>1 DEF Init, ServiceTypes
  <2>4. ClientTypes
    BY <2>1 DEF Init, ClientTypes, Labels
  <2>5. ClockTypes
    BY TimersAssumption DEF Init, ClockTypes
  <2> QED
    BY <2>2, <2>3, <2>4, <2>5 DEF TypeInv
<1> QED
  BY <1>1, TypeInvStep, PTL DEF Spec

LEMMA TypeInvTypes == TypeInv => TypeOK
BY DEF TypeInv, BlockTypes, ServiceTypes, ClientTypes, ClockTypes, Labels, TypeOK

(* The types of the timer service for any durations: what a walk along the *)
(* list of deltas computes is a number (TypeOK).                           *)
THEOREM TypeCorrect == Spec => []TypeOK
BY TypeInvHolds, TypeInvTypes, PTL

-----------------------------------------------------------------------------
(* One command at a time                                                   *)

(* Who waits is who holds api_mutex; a command or a result in the sockets  *)
(* is the holder's, and there is at most one of them.                      *)
ExchangeInv ==
    /\ \A c \in Clients : pc[c] = "wait" <=> apiMutex = c
    /\ cmd.op # None \/ cmd.timer # None =>
          rsp = NoResult /\ apiMutex # None /\ cmd.timer = call[apiMutex].timer
    /\ rsp.op # None \/ rsp.timer # None =>
          cmd = NoCall /\ apiMutex # None /\ rsp.timer = call[apiMutex].timer
    /\ cmd.op = None => cmd = NoCall
    /\ rsp.op = None => rsp = NoResult

(* What a step of client c leaves alone. *)
OthersStay(c) == \A b \in Clients \ {c} : pc'[b] = pc[b] /\ call'[b] = call[b]

LEMMA GotoMoves ==
    ASSUME TypeInv, NEW c \in Clients, NEW label, Goto(c, label)
    PROVE  /\ OthersStay(c) /\ pc'[c] = label
           /\ label # "idle" => call'[c] = call[c]
BY DEF Goto, OthersStay, TypeInv, ClientTypes

LEMMA AfterCancelMoves ==
    ASSUME TypeInv, NEW c \in Clients, AfterCancel(c)
    PROVE  /\ OthersStay(c) /\ pc'[c] \in {"idle", "add", "free"}
           /\ pc'[c] # "idle" => call'[c] = call[c]
<1>1. PICK label \in {"idle", "add", "free"} : Goto(c, label)
  BY DEF AfterCancel
<1> QED
  BY <1>1, GotoMoves

LEMMA BeginMoves ==
    ASSUME TypeInv, NEW c \in Clients, NEW op, NEW t \in Timers, NEW d, NEW dt, NEW label,
           Begin(c, op, t, d, dt, label)
    PROVE  /\ OthersStay(c) /\ pc[c] = "idle" /\ pc'[c] = label
           /\ call'[c].timer = t /\ UserOf[t] = c
BY DEF Begin, OthersStay, TypeInv, ClientTypes

LEMMA ExchangeKept ==
    ASSUME TypeInv, ExchangeInv, NEW c \in Clients, OthersStay(c),
           pc[c] # "wait", pc'[c] # "wait", UNCHANGED <<apiMutex, cmd, rsp>>
    PROVE  ExchangeInv'
<1>1. apiMutex # c /\ apiMutex \in Clients \union {None}
  BY DEF ExchangeInv, TypeInv, ClientTypes
<1>2. apiMutex # None => call'[apiMutex] = call[apiMutex]
  BY <1>1 DEF OthersStay
<1>3. \A b \in Clients : pc'[b] = "wait" <=> apiMutex = b
  BY <1>1 DEF OthersStay, ExchangeInv
<1> QED
  BY <1>2, <1>3 DEF ExchangeInv

LEMMA ExchangeStep == TypeInv /\ ExchangeInv /\ [Next]_vars => ExchangeInv'
<1> SUFFICES ASSUME TypeInv, ExchangeInv, [Next]_vars PROVE ExchangeInv'
  OBVIOUS
<1> USE DEF blocks, service, clients, clock
<1>n. NoCall.op = None /\ NoCall.timer = None /\ NoResult.op = None /\ NoResult.timer = None
  BY DEF NoCall, NoResult
<1>p. "add" # None /\ "remove" # None /\ None \notin Clients
  BY NoneAssumption DEF None
<1>1. ASSUME UNCHANGED <<pc, call, apiMutex, cmd, rsp>> PROVE ExchangeInv'
  BY <1>1 DEF ExchangeInv
<1>2. ASSUME NEW c \in Clients, ClientCall(c) PROVE ExchangeInv'
  <2>1. ASSUME NEW t \in Timers, CreateTimer(c, t) PROVE ExchangeInv'
    <3>1. OthersStay(c) /\ pc[c] = "idle" /\ pc'[c] = "created"
      BY <2>1 DEF CreateTimer, OthersStay, TypeInv, ClientTypes
    <3> QED
      BY <2>1, <3>1, ExchangeKept DEF CreateTimer
  <2>2. ASSUME NEW t \in Timers, NEW op, NEW d, NEW dt, NEW label \in {"add", "cancel"},
               Begin(c, op, t, d, dt, label), UNCHANGED <<blocks, service, nextId>>
        PROVE  ExchangeInv'
    <3>1. OthersStay(c) /\ pc[c] # "wait" /\ pc'[c] # "wait"
      BY <2>2, BeginMoves
    <3> QED
      BY <2>2, <3>1, ExchangeKept DEF Begin
  <2> QED
    BY <1>2, <2>1, <2>2
       DEF ClientCall, StartTimer, CancelTimer, UpdateTimer, DestroyTimer
<1>3. ASSUME NEW c \in Clients, CountId(c) \/ SendFails(c) \/ FreeTimer(c) PROVE ExchangeInv'
  <2>1. pc[c] # "wait" /\ Goto(c, "idle")
    BY <1>3 DEF CountId, SendFails, FreeTimer
  <2>2. OthersStay(c) /\ pc'[c] # "wait"
    BY <2>1, GotoMoves
  <2> QED
    BY <1>3, <2>1, <2>2, ExchangeKept DEF CountId, SendFails, FreeTimer
<1>4. ASSUME NEW c \in Clients, TestActive(c) PROVE ExchangeInv'
  <2>1. pc[c] # "wait" /\ (AfterCancel(c) \/ Goto(c, "remove"))
    BY <1>4 DEF TestActive
  <2>2. OthersStay(c) /\ pc'[c] # "wait"
    BY <2>1, GotoMoves, AfterCancelMoves
  <2> QED
    BY <1>4, <2>1, <2>2, ExchangeKept DEF TestActive
<1>5. ASSUME NEW c \in Clients, SendCmd(c) PROVE ExchangeInv'
  <2>1. apiMutex = None /\ apiMutex' = c /\ rsp' = rsp /\ pc[c] \in {"add", "remove"}
    BY <1>5 DEF SendCmd
  <2>2. cmd = NoCall /\ rsp = NoResult
    BY <2>1 DEF ExchangeInv
  <2>3. OthersStay(c) /\ pc'[c] = "wait" /\ call'[c] = call[c]
    BY <1>5, GotoMoves DEF SendCmd
  <2>4. cmd'.op # None /\ cmd'.timer = call[c].timer
    BY <1>5, <1>p DEF SendCmd
  <2>5. \A b \in Clients : pc'[b] = "wait" <=> apiMutex' = b
    BY <1>p, <2>1, <2>3 DEF OthersStay, ExchangeInv
  <2> QED
    BY <1>n, <1>p, <2>1, <2>2, <2>3, <2>4, <2>5 DEF ExchangeInv
<1>6. ASSUME NEW c \in Clients, ReceiveResult(c) PROVE ExchangeInv'
  <2>1. apiMutex = c /\ apiMutex' = None /\ rsp' = NoResult /\ cmd' = cmd /\ rsp.op # None
    BY <1>6 DEF ReceiveResult
  <2>2. OthersStay(c) /\ pc'[c] # "wait"
    BY <1>6, GotoMoves, AfterCancelMoves DEF ReceiveResult
  <2>3. cmd = NoCall
    BY <2>1 DEF ExchangeInv
  <2>4. \A b \in Clients : pc'[b] = "wait" <=> apiMutex' = b
    BY <1>p, <2>1, <2>2 DEF OthersStay, ExchangeInv
  <2> QED
    BY <1>n, <2>1, <2>3, <2>4 DEF ExchangeInv
<1>7. CASE ReadAdd \/ ReadRemove
  <2>1. PICK result : Reply(result)
    BY <1>7 DEF ReadAdd, ReadRemove
  <2>2. cmd.op # None /\ cmd' = NoCall /\ UNCHANGED <<pc, call, apiMutex>>
    BY <1>7, <1>p DEF ReadAdd, ReadRemove
  <2>3. rsp'.op = cmd.op /\ rsp'.timer = cmd.timer
    BY <2>1 DEF Reply
  <2> QED
    BY <1>n, <2>2, <2>3 DEF ExchangeInv
<1> QED
  BY <1>1, <1>2, <1>3, <1>4, <1>5, <1>6, <1>7
     DEF Next, ClientStep, ServiceStep, HandleExpiry, Timeout, SendExpiry, Deactivate,
         ClearData, TickWaiting, TickElsewhere, vars

LEMMA ExchangeHolds == Spec => []ExchangeInv
<1>1. Init => ExchangeInv
  <2> SUFFICES ASSUME Init PROVE ExchangeInv
    OBVIOUS
  <2>1. NoCall.op = None /\ NoCall.timer = None /\ NoResult.op = None /\ NoResult.timer = None
    BY DEF NoCall, NoResult
  <2>2. \A c \in Clients : pc[c] # "wait" /\ apiMutex # c
    BY NoneAssumption DEF Init
  <2> QED
    BY <2>1, <2>2 DEF Init, ExchangeInv
<1> QED
  BY <1>1, ExchangeStep, TypeInvHolds, PTL DEF Spec

(* The result a client reads is the answer to its own command: the shared  *)
(* sockets carry one request at a time (OwnResult).                        *)
THEOREM ResultsMatch == Spec => []OwnResult
<1>1. TypeInv /\ ExchangeInv => OwnResult
  <2> SUFFICES ASSUME TypeInv, ExchangeInv PROVE OwnResult
    OBVIOUS
  <2>1. ASSUME NEW t \in {cmd.timer, rsp.timer} \ {None}
        PROVE  apiMutex # None /\ pc[apiMutex] = "wait" /\ call[apiMutex].timer = t
    <3>1. apiMutex # None /\ call[apiMutex].timer = t
      BY <2>1 DEF ExchangeInv
    <3>2. apiMutex \in Clients
      BY <3>1 DEF TypeInv, ClientTypes
    <3> QED
      BY <3>1, <3>2 DEF ExchangeInv
  <2> QED
    BY <2>1 DEF ExchangeInv, OwnResult
<1> QED
  BY <1>1, TypeInvHolds, ExchangeHolds, PTL

-----------------------------------------------------------------------------
(* The list, when no two threads are in cprCreateTimer() at once           *)

(* A thread is in a call for a timer of its own, which exists; it frees    *)
(* one that does not run.                                                  *)
CallInv ==
    \A c \in Clients :
        /\ pc[c] # "idle" => UserOf[call[c].timer] = c /\ exists[call[c].timer]
        /\ pc[c] = "free" => ~active[call[c].timer]

(* Each timer has an id of its own, below the counter unless the thread    *)
(* that created it has still to count it.                                  *)
IdCreated == \A c \in Clients : pc[c] = "created" => id[call[c].timer] = nextId
OneCreates == \A b, c \in Clients : pc[b] = "created" /\ pc[c] = "created" => b = c
IdsBelow ==
    \A t \in Timers :
        exists[t] => \/ id[t] < nextId
                     \/ pc[UserOf[t]] = "created" /\ call[UserOf[t]].timer = t
IdsDiffer == \A t, u \in Timers : exists[t] /\ exists[u] /\ id[t] = id[u] => t = u
IdInv == IdCreated /\ OneCreates /\ IdsBelow /\ IdsDiffer

(* timerActive says what is listed; what is listed exists. *)
ListInv ==
    /\ Once(list)
    /\ \A t \in Timers : active[t] <=> Has(list, t)
    /\ \A t \in Timers : active[t] => exists[t]

(* The result of a removal finds the timer stopped. *)
CancelInv == rsp.op = "remove" => ~active[rsp.timer]

RaceFreeInv == TypeInv /\ ExchangeInv /\ CallInv /\ IdInv /\ ListInv /\ CancelInv

(* A client goes on with its call, or ends it.                             *)
LEMMA CallStep ==
    ASSUME TypeInv, CallInv, IdInv, NEW c \in Clients, OthersStay(c),
           pc[c] # "created", pc'[c] # "created", UNCHANGED <<exists, id, nextId, active>>,
           pc'[c] # "idle" => /\ call'[c].timer \in Timers /\ UserOf[call'[c].timer] = c
                              /\ exists[call'[c].timer],
           pc'[c] = "free" => ~active[call'[c].timer]
    PROVE  CallInv' /\ IdInv'
<1>1. CallInv'
  <2> SUFFICES ASSUME NEW b \in Clients
               PROVE  /\ pc'[b] # "idle" => UserOf[call'[b].timer] = b /\ exists[call'[b].timer]
                      /\ pc'[b] = "free" => ~active[call'[b].timer]
    BY DEF CallInv
  <2>1. CASE b = c
    BY <2>1
  <2>2. CASE b # c
    BY <2>2 DEF OthersStay, CallInv
  <2> QED
    BY <2>1, <2>2
<1>2. \A b \in Clients : /\ pc'[b] = "created" <=> pc[b] = "created"
                         /\ pc[b] = "created" => call'[b] = call[b]
  BY DEF OthersStay
<1>3. \A t \in Timers : UserOf[t] \in Clients
  BY TimersAssumption
<1>4. IdCreated' /\ OneCreates' /\ IdsDiffer'
  BY <1>2 DEF IdInv, IdCreated, OneCreates, IdsDiffer
<1>5. IdsBelow'
  BY <1>2, <1>3 DEF IdInv, IdsBelow
<1> QED
  BY <1>1, <1>4, <1>5 DEF IdInv

(* The service adds or removes a timer. *)
LEMMA ServiceKeepsCalls ==
    ASSUME TypeInv, CallInv, IdInv, UNCHANGED <<pc, call, exists, id, nextId>>,
           \A c \in Clients : pc[c] = "free" => ~active'[call[c].timer]
    PROVE  CallInv' /\ IdInv'
BY DEF CallInv, IdInv, IdCreated, OneCreates, IdsBelow, IdsDiffer

LEMMA RemoveAtEffect ==
    ASSUME TypeInv, ListInv, NEW durs, NEW k \in 1 .. Len(list), RemoveAt(durs, k)
    PROVE  /\ Once(list')
           /\ \A t \in Timers : active'[t] <=> Has(list', t)
           /\ \A t \in Timers : active'[t] <=> active[t] /\ t # list[k]
<1>1. list \in Seq(Timers) /\ active \in [Timers -> BOOLEAN] /\ list[k] \in Timers
  BY ElementOfSeq DEF TypeInv, BlockTypes
<1>2. list' = Without(list, k) /\ active' = [active EXCEPT ![list[k]] = FALSE]
  BY DEF RemoveAt
<1>3. Once(Without(list, k)) /\ \A t : Has(Without(list, k), t) <=> Has(list, t) /\ t # list[k]
  BY <1>1, WithoutHas DEF ListInv
<1>4. \A t \in Timers : active'[t] <=> active[t] /\ t # list[k]
  BY <1>1, <1>2
<1> QED
  BY <1>2, <1>3, <1>4 DEF ListInv

LEMMA AddTimerList ==
    ASSUME TypeInv, ListInv, NEW durs \in [Timers -> Int], NEW D \in Int, NEW t \in Timers,
           NEW dt, AddTimer(durs, t, D, dt), ~active[t]
    PROVE  /\ Once(list')
           /\ \A u \in Timers : active'[u] <=> Has(list', u)
           /\ \A u \in Timers : active'[u] <=> active[u] \/ u = t
<1>1. list \in Seq(Timers) /\ active \in [Timers -> BOOLEAN]
  BY DEF TypeInv, BlockTypes
<1>2. PICK k \in 1 .. Len(list) + 1 : list' = InsertedAt(list, k, t)
  <2>1. TimerAdded(durs, t, D)
    BY <1>1, AddTimerEffect
  <2> QED
    BY <2>1 DEF TimerAdded
<1>3. ~Has(list, t) /\ Once(list)
  BY DEF ListInv
<1>4. /\ Once(InsertedAt(list, k, t))
      /\ \A u : Has(InsertedAt(list, k, t), u) <=> Has(list, u) \/ u = t
  BY <1>1, <1>3, InsertedHas
<1>5. \A u \in Timers : active'[u] <=> active[u] \/ u = t
  BY <1>1 DEF AddTimer
<1> QED
  BY <1>2, <1>4, <1>5 DEF ListInv

LEMMA RaceFreeStep ==
    ASSUME ~CreateRace
    PROVE  RaceFreeInv /\ [Next]_vars => RaceFreeInv'
<1> SUFFICES ASSUME RaceFreeInv, [Next]_vars PROVE RaceFreeInv'
  OBVIOUS
<1>t. TypeInv /\ ExchangeInv /\ CallInv /\ IdInv /\ ListInv /\ CancelInv
  BY DEF RaceFreeInv
<1>e. TypeInv' /\ ExchangeInv'
  BY <1>t, TypeInvStep, ExchangeStep
<1> SUFFICES CallInv' /\ IdInv' /\ ListInv' /\ CancelInv'
  BY <1>e DEF RaceFreeInv
<1> USE DEF blocks, service, clients, clock
<1>u. UserOf \in [Timers -> Clients] /\ None \notin Clients /\ "remove" # None /\ "add" # None
  BY TimersAssumption, NoneAssumption DEF None
<1>s. /\ exists \in [Timers -> BOOLEAN] /\ active \in [Timers -> BOOLEAN]
      /\ id \in [Timers -> Nat] /\ nextId \in Nat /\ list \in Seq(Timers)
  BY <1>t DEF TypeInv, BlockTypes
<1>c. \A c \in Clients : pc[c] # "idle" => call[c].timer \in Timers
  BY <1>t DEF TypeInv, ClientTypes
<1>l. ASSUME UNCHANGED <<exists, active, list, rsp>> PROVE ListInv' /\ CancelInv'
  BY <1>l, <1>t DEF ListInv, CancelInv
<1>1. ASSUME UNCHANGED <<exists, id, active, list, pc, call, nextId, rsp>>
      PROVE  CallInv' /\ IdInv' /\ ListInv' /\ CancelInv'
  BY <1>1, <1>t DEF CallInv, IdInv, IdCreated, OneCreates, IdsBelow, IdsDiffer, ListInv, CancelInv
<1>2. ASSUME NEW c \in Clients, NEW t \in Timers, CreateTimer(c, t)
      PROVE  CallInv' /\ IdInv' /\ ListInv' /\ CancelInv'
  <2>1. /\ ~exists[t] /\ pc[c] = "idle" /\ UserOf[t] = c
        /\ \A b \in Clients : pc[b] # "created"
    BY <1>2 DEF CreateTimer
  <2>2. OthersStay(c) /\ pc'[c] = "created" /\ call'[c].timer = t
    BY <1>2, <1>t DEF CreateTimer, OthersStay, TypeInv, ClientTypes
  <2>3. /\ \A u \in Timers : exists'[u] <=> exists[u] \/ u = t
        /\ \A u \in Timers : id'[u] = IF u = t THEN nextId ELSE id[u]
        /\ nextId' = nextId /\ list' = list /\ rsp' = rsp
    BY <1>2, <1>s DEF CreateTimer
  <2>4. active' = active
    <3>1. ~active[t]
      BY <1>t, <2>1 DEF ListInv
    <3> QED
      BY <1>2, <1>s, <3>1 DEF CreateTimer
  <2>5. \A b \in Clients : pc[b] # "idle" => call[b].timer \in Timers \ {t}
    BY <1>c, <1>t, <2>1 DEF CallInv
  <2>6. CallInv'
    <3> SUFFICES ASSUME NEW b \in Clients
                 PROVE  /\ pc'[b] # "idle" => UserOf[call'[b].timer] = b /\ exists'[call'[b].timer]
                        /\ pc'[b] = "free" => ~active'[call'[b].timer]
      BY DEF CallInv
    <3>1. CASE b = c
      BY <2>1, <2>2, <2>3, <3>1
    <3>2. CASE b # c
      BY <1>t, <2>2, <2>3, <2>4, <2>5, <3>2 DEF OthersStay, CallInv
    <3> QED
      BY <3>1, <3>2
  <2>7. IdInv'
    <3>1. \A b \in Clients : pc'[b] = "created" <=> b = c
      BY <2>1, <2>2 DEF OthersStay
    <3>2. \A u \in Timers : exists[u] => id[u] < nextId
      BY <1>t, <1>u, <2>1 DEF IdInv, IdsBelow
    <3>3. \A u \in Timers : exists'[u] => IF u = t THEN id'[u] = nextId ELSE id'[u] < nextId
      BY <2>3, <3>2
    <3>4. \A u, v \in Timers : exists'[u] /\ exists'[v] /\ id'[u] = id'[v] => u = v
      <4> SUFFICES ASSUME NEW u \in Timers, NEW v \in Timers,
                          exists'[u] /\ exists'[v] /\ id'[u] = id'[v]
                   PROVE  u = v
        OBVIOUS
      <4>1. CASE u = t \/ v = t
        BY <1>s, <3>3, <4>1
      <4>2. CASE u # t /\ v # t
        BY <1>t, <2>3, <4>2 DEF IdInv, IdsDiffer
      <4> QED
        BY <4>1, <4>2
    <3>5. IdCreated' /\ OneCreates'
      BY <2>2, <2>3, <3>1 DEF IdCreated, OneCreates
    <3>6. IdsBelow'
      BY <2>1, <2>2, <2>3, <3>3 DEF IdsBelow
    <3> QED
      BY <3>4, <3>5, <3>6 DEF IdInv, IdsDiffer
  <2> QED
    BY <1>t, <2>3, <2>4, <2>6, <2>7 DEF ListInv, CancelInv
<1>3. ASSUME NEW c \in Clients, NEW t \in Timers, NEW op, NEW d, NEW dt,
             NEW label \in {"add", "cancel"}, exists[t], Begin(c, op, t, d, dt, label),
             UNCHANGED <<blocks, service, nextId>>
      PROVE  CallInv' /\ IdInv' /\ ListInv' /\ CancelInv'
  <2>1. /\ OthersStay(c) /\ pc[c] = "idle" /\ pc'[c] = label
        /\ call'[c].timer = t /\ UserOf[t] = c
    BY <1>3, <1>t, BeginMoves
  <2>2. CallInv' /\ IdInv'
    BY <1>3, <1>t, <2>1, CallStep
  <2> QED
    BY <1>3, <1>l, <2>2 DEF Begin
<1>4. ASSUME NEW c \in Clients, CountId(c) PROVE CallInv' /\ IdInv' /\ ListInv' /\ CancelInv'
  <2>1. pc[c] = "created" /\ call[c].timer \in Timers
    BY <1>4, <1>c DEF CountId
  <2>2. OthersStay(c) /\ pc'[c] = "idle"
    BY <1>4, <1>t, GotoMoves DEF CountId
  <2>3. nextId' = nextId + 1 /\ UNCHANGED <<exists, id, active, list, rsp>>
    BY <1>4, <1>t, <2>1 DEF CountId, IdInv, IdCreated
  <2>4. CallInv'
    <3>1. \A b \in Clients : pc'[b] # "idle" => pc'[b] = pc[b] /\ call'[b] = call[b]
      BY <2>2 DEF OthersStay
    <3> QED
      BY <1>t, <2>3, <3>1 DEF CallInv
  <2>5. \A b \in Clients : pc'[b] # "created"
    BY <1>t, <2>1, <2>2 DEF OthersStay, IdInv, OneCreates
  <2>6. \A u \in Timers : exists[u] => id[u] < nextId + 1
    <3> SUFFICES ASSUME NEW u \in Timers, exists[u] PROVE id[u] < nextId + 1
      OBVIOUS
    <3>1. CASE id[u] < nextId
      BY <1>s, <3>1
    <3>2. CASE pc[UserOf[u]] = "created" /\ call[UserOf[u]].timer = u
      <4>1. id[u] = nextId
        BY <1>t, <1>u, <3>2 DEF IdInv, IdCreated
      <4> QED
        BY <1>s, <4>1
    <3> QED
      BY <1>t, <3>1, <3>2 DEF IdInv, IdsBelow
  <2>7. IdInv'
    <3>1. IdCreated' /\ OneCreates'
      BY <2>5 DEF IdCreated, OneCreates
    <3>2. IdsBelow'
      BY <2>3, <2>6 DEF IdsBelow
    <3> QED
      BY <1>t, <2>3, <3>1, <3>2 DEF IdInv, IdsDiffer
  <2> QED
    BY <1>l, <2>3, <2>4, <2>7
<1>5. ASSUME NEW c \in Clients, TestActive(c) PROVE CallInv' /\ IdInv' /\ ListInv' /\ CancelInv'
  <2>1. pc[c] = "cancel" /\ call[c].timer \in Timers
    BY <1>5, <1>c DEF TestActive
  <2>2. UserOf[call[c].timer] = c /\ exists[call[c].timer]
    BY <1>t, <2>1 DEF CallInv
  <2>3. /\ OthersStay(c) /\ pc'[c] \in {"idle", "add", "free", "remove"}
        /\ pc'[c] # "idle" => call'[c] = call[c]
        /\ pc'[c] = "free" => ~active[call[c].timer]
    BY <1>5, <1>t, GotoMoves, AfterCancelMoves DEF TestActive
  <2>4. CallInv' /\ IdInv'
    BY <1>5, <1>t, <2>1, <2>2, <2>3, CallStep DEF TestActive
  <2> QED
    BY <1>5, <1>l, <2>4 DEF TestActive
<1>6. ASSUME NEW c \in Clients, SendCmd(c) PROVE CallInv' /\ IdInv' /\ ListInv' /\ CancelInv'
  <2>1. pc[c] \in {"add", "remove"} /\ call[c].timer \in Timers
    BY <1>6, <1>c DEF SendCmd
  <2>2. UserOf[call[c].timer] = c /\ exists[call[c].timer]
    BY <1>t, <2>1 DEF CallInv
  <2>3. OthersStay(c) /\ pc'[c] = "wait" /\ call'[c] = call[c]
    BY <1>6, <1>t, GotoMoves DEF SendCmd
  <2>4. CallInv' /\ IdInv'
    BY <1>6, <1>t, <2>1, <2>2, <2>3, CallStep DEF SendCmd
  <2> QED
    BY <1>6, <1>l, <2>4 DEF SendCmd
<1>f. ASSUME NEW c \in Clients, SendFails(c) PROVE CallInv' /\ IdInv' /\ ListInv' /\ CancelInv'
  <2>1. pc[c] \in {"add", "remove"} /\ call[c].timer \in Timers
    BY <1>f, <1>c DEF SendFails
  <2>2. UserOf[call[c].timer] = c /\ exists[call[c].timer]
    BY <1>t, <2>1 DEF CallInv
  <2>3. OthersStay(c) /\ pc'[c] = "idle"
    BY <1>f, <1>t, GotoMoves DEF SendFails
  <2>4. CallInv' /\ IdInv'
    BY <1>f, <1>t, <2>1, <2>2, <2>3, CallStep DEF SendFails
  <2> QED
    BY <1>f, <1>l, <2>4 DEF SendFails
<1>7. ASSUME NEW c \in Clients, ReceiveResult(c) PROVE CallInv' /\ IdInv' /\ ListInv' /\ CancelInv'
  <2>1. pc[c] = "wait" /\ call[c].timer \in Timers /\ apiMutex = c /\ rsp.op # None
    BY <1>7, <1>c DEF ReceiveResult
  <2>2. UserOf[call[c].timer] = c /\ exists[call[c].timer]
    BY <1>t, <2>1 DEF CallInv
  <2>3. rsp.timer = call[c].timer
    BY <1>t, <2>1 DEF ExchangeInv
  <2>4. /\ OthersStay(c) /\ pc'[c] \in {"idle", "add", "free"}
        /\ pc'[c] # "idle" => call'[c] = call[c] /\ rsp.op = "remove"
    BY <1>7, <1>t, GotoMoves, AfterCancelMoves DEF ReceiveResult
  <2>5. pc'[c] = "free" => ~active[call'[c].timer]
    BY <1>t, <2>3, <2>4 DEF CancelInv
  <2>6. CallInv' /\ IdInv'
    BY <1>7, <1>t, <2>1, <2>2, <2>4, <2>5, CallStep DEF ReceiveResult
  <2>7. ListInv'
    BY <1>7, <1>t DEF ReceiveResult, ListInv
  <2>8. CancelInv'
    BY <1>7, <1>u DEF ReceiveResult, NoResult, CancelInv
  <2> QED
    BY <2>6, <2>7, <2>8
<1>8. ASSUME NEW c \in Clients, FreeTimer(c) PROVE CallInv' /\ IdInv' /\ ListInv' /\ CancelInv'
  <2> DEFINE t == call[c].timer
  <2>1. pc[c] = "free" /\ t \in Timers
    BY <1>8, <1>c DEF FreeTimer
  <2>2. UserOf[t] = c /\ ~active[t]
    BY <1>t, <2>1 DEF CallInv
  <2>3. OthersStay(c) /\ pc'[c] = "idle"
    BY <1>8, <1>t, GotoMoves DEF FreeTimer
  <2>4. /\ \A u \in Timers : exists'[u] <=> exists[u] /\ u # t
        /\ \A u \in Timers \ {t} : id'[u] = id[u]
        /\ UNCHANGED <<active, list, rsp, nextId>>
    BY <1>8, <1>s, <2>1 DEF FreeTimer
  <2>5. \A b \in Clients \ {c} : pc[b] # "idle" => call[b].timer \in Timers \ {t}
    BY <1>c, <1>t, <2>2 DEF CallInv
  <2> HIDE DEF t
  <2>6. \A b \in Clients : pc'[b] # "idle" => b # c /\ pc'[b] = pc[b] /\ call'[b] = call[b]
    BY <2>3 DEF OthersStay
  <2>7. CallInv'
    BY <1>t, <2>4, <2>5, <2>6 DEF CallInv
  <2>8. \A b \in Clients : pc'[b] = "created" <=> pc[b] = "created"
    BY <2>1, <2>3 DEF OthersStay
  <2>9. IdInv'
    <3>1. \A b \in Clients : pc[b] = "created" => b # c /\ call'[b] = call[b]
      BY <2>6, <2>8
    <3>2. IdCreated' /\ OneCreates'
      BY <1>t, <2>4, <2>5, <2>8, <3>1 DEF IdInv, IdCreated, OneCreates
    <3>3. IdsBelow'
      BY <1>t, <1>u, <2>4, <2>8, <3>1 DEF IdInv, IdsBelow
    <3>4. IdsDiffer'
      BY <1>t, <2>4 DEF IdInv, IdsDiffer
    <3> QED
      BY <3>2, <3>3, <3>4 DEF IdInv
  <2> QED
    BY <1>t, <2>2, <2>4, <2>7, <2>9 DEF ListInv, CancelInv
<1>9. CASE ReadAdd
  <2>1. cmd.op = "add" /\ UNCHANGED <<pc, call, exists, id, nextId>>
    BY <1>9 DEF ReadAdd
  <2>2. apiMutex # None /\ cmd.timer = call[apiMutex].timer
    BY <1>t, <1>u, <2>1 DEF ExchangeInv
  <2>3. apiMutex \in Clients /\ pc[apiMutex] = "wait"
    BY <1>t, <2>2 DEF ExchangeInv, TypeInv, ClientTypes
  <2>4. cmd.timer \in Timers /\ exists[cmd.timer] /\ UserOf[cmd.timer] = apiMutex
    BY <1>c, <1>t, <2>2, <2>3 DEF CallInv
  <2>5. CancelInv'
    BY <1>9, <1>u DEF ReadAdd, Reply, CancelInv
  <2>6. CASE active[cmd.timer]
    <3>1. UNCHANGED <<active, list>>
      BY <1>9, <2>6 DEF ReadAdd
    <3> QED
      BY <1>t, <2>1, <2>5, <3>1
         DEF CallInv, IdInv, IdCreated, OneCreates, IdsBelow, IdsDiffer, ListInv
  <2>7. CASE ~active[cmd.timer]
    <3>1. /\ Once(list')
          /\ \A u \in Timers : active'[u] <=> Has(list', u)
          /\ \A u \in Timers : active'[u] <=> active[u] \/ u = cmd.timer
      <4>1. AddTimer(HeadLeft, cmd.timer, Ticks(cmd.duration), cmd.data)
        BY <1>9, <2>7 DEF ReadAdd
      <4>2. HeadLeft \in [Timers -> Int] /\ Ticks(cmd.duration) \in Int
        <5>1. cmd.duration \in Durations \union {0} /\ Durations \subseteq Nat /\ MaxInt \in Nat
          BY <1>t, TimersAssumption DEF TypeInv, ServiceTypes, Commands
        <5>2. cmd.duration \in Nat
          <6>1. Durations \union {0} \subseteq Nat
            BY <5>1
          <6> QED
            BY <5>1, <6>1, Zenon
        <5>3. Ticks(cmd.duration) \in Int
          BY <5>2, TicksType
        <5> QED
          BY <1>t, <5>3, HeadLeftType DEF TypeInv, BlockTypes, ServiceTypes
      <4> QED
        BY <1>t, <2>4, <2>7, <4>1, <4>2, AddTimerList
    <3>2. ListInv'
      BY <1>t, <2>1, <2>4, <3>1 DEF ListInv
    <3>3. \A c \in Clients : pc[c] = "free" => ~active'[call[c].timer]
      BY <1>c, <1>t, <2>3, <2>4, <3>1 DEF CallInv
    <3> QED
      BY <1>t, <2>1, <2>5, <3>2, <3>3, ServiceKeepsCalls
  <2> QED
    BY <2>6, <2>7
<1>10. CASE ReadRemove
  <2> DEFINE t == cmd.timer
             found == {k \in 1 .. Len(list) : id[list[k]] = id[t]}
             first == CHOOSE k \in found : \A j \in found : k <= j
  <2>1. cmd.op = "remove" /\ UNCHANGED <<pc, call, exists, id, nextId>>
    BY <1>10 DEF ReadRemove
  <2>2. apiMutex # None /\ t = call[apiMutex].timer
    BY <1>t, <1>u, <2>1 DEF ExchangeInv
  <2>3. apiMutex \in Clients /\ pc[apiMutex] = "wait"
    BY <1>t, <2>2 DEF ExchangeInv, TypeInv, ClientTypes
  <2>4. t \in Timers /\ exists[t]
    BY <1>c, <1>t, <2>2, <2>3 DEF CallInv
  <2>5. \A k \in 1 .. Len(list) : k \in found <=> list[k] = t
    <3>1. \A k \in 1 .. Len(list) : list[k] \in Timers /\ Has(list, list[k])
      BY <1>s, ElementOfSeq DEF Has
    <3>2. \A k \in 1 .. Len(list) : exists[list[k]]
      BY <1>t, <3>1 DEF ListInv
    <3> QED
      BY <1>t, <2>4, <3>1, <3>2 DEF IdInv, IdsDiffer
  <2>6. /\ Once(list')
        /\ \A u \in Timers : active'[u] <=> Has(list', u)
        /\ \A u \in Timers : active'[u] <=> active[u] /\ u # t
    <3>1. CASE found # {}
      <4>1. found \in SUBSET Nat /\ found \subseteq 1 .. Len(list)
        OBVIOUS
      <4>2. RemoveAt(HeadLeft, first)
        BY <1>10, <3>1 DEF ReadRemove
      <4> HIDE DEF found
      <4>3. \E k \in found : \A j \in found : k <= j
        BY <3>1, <4>1, LeastNumber
      <4>4. first \in found
        BY <4>3
      <4> HIDE DEF first
      <4>5. first \in 1 .. Len(list) /\ list[first] = t
        BY <2>5, <4>1, <4>4
      <4> QED
        BY <1>t, <2>1, <4>2, <4>5, RemoveAtEffect
    <3>2. CASE found = {}
      <4>1. ~Has(list, t)
        BY <2>5, <3>2 DEF Has
      <4>2. list' = list /\ active' = [active EXCEPT ![t] = FALSE]
        BY <1>10, <3>2 DEF ReadRemove
      <4> QED
        BY <1>s, <1>t, <2>4, <4>1, <4>2 DEF ListInv
    <3> QED
      BY <3>1, <3>2
  <2>7. ListInv'
    BY <1>t, <2>1, <2>6 DEF ListInv
  <2>8. \A c \in Clients : pc[c] = "free" => ~active'[call[c].timer]
    BY <1>c, <1>t, <2>6 DEF CallInv
  <2>9. CancelInv'
    <3>1. rsp'.timer = t
      BY <1>10 DEF ReadRemove, Reply
    <3> QED
      BY <2>4, <2>6, <3>1 DEF CancelInv
  <2> QED
    BY <1>t, <2>1, <2>7, <2>8, <2>9, ServiceKeepsCalls
<1>11. CASE Deactivate
  <2>1. RemoveAt(dur, 1) /\ UNCHANGED <<pc, call, exists, id, nextId, rsp>> /\ svc = "deactivate"
    BY <1>11 DEF Deactivate
  <2>2. list # <<>> /\ 1 \in 1 .. Len(list)
    BY <1>s, <1>t, <2>1 DEF TypeInv, ServiceTypes
  <2>3. /\ Once(list')
        /\ \A u \in Timers : active'[u] <=> Has(list', u)
        /\ \A u \in Timers : active'[u] <=> active[u] /\ u # list[1]
    BY <1>t, <2>1, <2>2, RemoveAtEffect
  <2>4. ListInv'
    BY <1>t, <2>1, <2>3 DEF ListInv
  <2>5. \A c \in Clients : pc[c] = "free" => ~active'[call[c].timer]
    BY <1>c, <1>t, <2>3 DEF CallInv
  <2>6. CancelInv'
    <3>1. ASSUME rsp.op = "remove" PROVE rsp.timer \in Timers
      <4>1. apiMutex # None /\ rsp.timer = call[apiMutex].timer
        BY <1>t, <1>u, <3>1 DEF ExchangeInv
      <4>2. apiMutex \in Clients /\ pc[apiMutex] = "wait"
        BY <1>t, <4>1 DEF ExchangeInv, TypeInv, ClientTypes
      <4> QED
        BY <1>c, <4>1, <4>2
    <3> QED
      BY <1>t, <2>1, <2>3, <3>1 DEF CancelInv
  <2> QED
    BY <1>t, <2>1, <2>4, <2>5, <2>6, ServiceKeepsCalls
<1> QED
  BY <1>1, <1>2, <1>3, <1>4, <1>5, <1>6, <1>7, <1>8, <1>9, <1>10, <1>11, <1>f
     DEF Next, ClientCall, ClientStep, ServiceStep, StartTimer, CancelTimer, UpdateTimer,
         DestroyTimer, HandleExpiry, Timeout, SendExpiry, ClearData, TickWaiting,
         TickElsewhere, vars

LEMMA RaceFreeHolds ==
    ASSUME ~CreateRace
    PROVE  Spec => []RaceFreeInv
<1>1. Init /\ TypeInv /\ ExchangeInv => RaceFreeInv
  <2> SUFFICES ASSUME Init, TypeInv, ExchangeInv PROVE RaceFreeInv
    OBVIOUS
  <2>1. \A t : ~Has(list, t)
    BY DEF Init, Has
  <2>2. ListInv
    BY <2>1 DEF Init, ListInv, Once
  <2>3. CallInv /\ IdInv
    BY DEF Init, CallInv, IdInv, IdCreated, OneCreates, IdsBelow, IdsDiffer
  <2>4. CancelInv
    BY DEF Init, NoResult, None, CancelInv
  <2> QED
    BY <2>2, <2>3, <2>4 DEF RaceFreeInv
<1>2. RaceFreeInv /\ [Next]_vars => RaceFreeInv'
  BY RaceFreeStep
<1> QED
  BY <1>1, <1>2, TypeInvHolds, ExchangeHolds, PTL DEF Spec

(* The list of addTimer and removeTimer is never corrupt, and timerActive  *)
(* says exactly which timers are on it (ListMatchesActive), whatever the   *)
(* order of calls, commands and expiries; removal is by id, so this needs  *)
(* that ids differ.                                                        *)
THEOREM ListCorrect ==
    ASSUME ~CreateRace
    PROVE  Spec => []ListMatchesActive
<1>1. RaceFreeInv => ListMatchesActive
  BY DEF RaceFreeInv, ListInv, ListMatchesActive, Has, Once, Listed
<1> QED
  BY <1>1, RaceFreeHolds, PTL

(* When a cancel reports success the timer is off the list, also when its  *)
(* expiry was being processed (CancelEffective).                           *)
THEOREM CancelCorrect ==
    ASSUME ~CreateRace
    PROVE  Spec => []CancelEffective
<1>1. RaceFreeInv => CancelEffective
  <2> SUFFICES ASSUME RaceFreeInv, NEW c \in Clients, pc[c] = "wait", apiMutex = c,
                      rsp.op # None, rsp.op = "remove"
               PROVE  ~active[call[c].timer]
    BY DEF CancelEffective
  <2>1. rsp.timer = call[c].timer
    BY DEF RaceFreeInv, ExchangeInv
  <2> QED
    BY <2>1 DEF RaceFreeInv, CancelInv
<1> QED
  BY <1>1, RaceFreeHolds, PTL
=============================================================================
