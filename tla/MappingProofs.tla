------------------------------ MODULE MappingProofs ------------------------------
(***************************************************************************)
(* What mapping.py tells, proved: of amounts, for any integer and decimals, *)
(* of holdings, for any number of pages, assets and slots, and of           *)
(* transactions, for any number of accounts, tokens and nested calls.       *)
(*                                                                         *)
(* An amount: str(n) reads n (DigitsWritten), padding and stripping lose    *)
(* nothing of it (PaddedRead, Rejoined).  Where a definition recurses, the  *)
(* least number for which the claim failed is shown not to exist.           *)
(*                                                                         *)
(* The inductive invariant of HoldingsPage ties three things together: the *)
(* slots of a page and its running lookups, a page's stage and which        *)
(* lookups it can have, and the answer and the lookups it was made from,    *)
(* which are over when it is a 200 but may still run when it is a 500.      *)
(*                                                                         *)
(* The argument for LedgerReplay goes by lemmas about the operators.  What  *)
(* mapping reads from a payload does not depend on how the indexer spelled  *)
(* it (DeedIsTold, QuietIsTold), and what the auditor posts of it is what   *)
(* the chain executed (DeedPosted, QuietPosted).  Books that lack the same  *)
(* rewards keep lacking them, whatever is posted (ShiftPosted).  A mapped   *)
(* transaction and a replay grow by one entry for each inner transaction,   *)
(* however deep (MapGrows, ReplayGrows), so the invariant can say what the  *)
(* auditor would know if it read the transaction under way (Known).         *)
(***************************************************************************)
EXTENDS HoldingsPage, LedgerReplay, FiniteSetTheorems, SequenceTheorems, NaturalsInduction,
        TLAPS

(***************************************************************************)
(* Amounts.                                                                *)
(***************************************************************************)
\* Every nonempty set of numbers has a least one.
LEMMA LeastNumber ==
    ASSUME NEW T, T \subseteq Nat, T # {}
    PROVE  \E n \in T : \A k \in T : n <= k
<1>1. PICK n \in T : \A k \in T : ~(<<k, n>> \in OpToRel(<, Nat))
  BY NatLessThanWellFounded, WFMin
<1>2. \A k \in T : ~(k < n)
  BY <1>1 DEF OpToRel
<1>3. QED
  BY <1>2

\* v is what the digits s are worth, from the first to each.
Reads(v, s) ==
    /\ v \in [0 .. Len(s) -> Int] /\ v[0] = 0
    /\ \A k \in 1 .. Len(s) : v[k] = 10 * v[k - 1] + s[k]

\* h folds the digits s on the sets of their places below n, from the greatest place.
Folding(h, s, n) ==
    h = [S \in SUBSET (1 .. n) |->
           IF S = {} THEN 0 ELSE 10 * h[S \ {Max(S)}] + s[Max(S)]]

LEMMA MaxIs ==
    ASSUME NEW S, NEW n \in S, S \subseteq Int, \A k \in S : k <= n
    PROVE  Max(S) = n
<1>1. n \in Int /\ \A k \in S : n >= k
  OBVIOUS
<1>2. PICK m \in S : Max(S) = m /\ \A k \in S : m >= k
  BY <1>1 DEF Max
<1>3. m \in Int /\ m >= n /\ n >= m
  BY <1>1, <1>2
<1>4. QED
  BY <1>1, <1>2, <1>3

\* There is such a fold, of any length: at the first without one, the fold one
\* place shorter could be continued.
LEMMA FoldExists ==
    ASSUME NEW s, NEW n \in Nat
    PROVE  \E h : Folding(h, s, n)
<1> DEFINE Bad == {k \in 0 .. n : ~\E h : Folding(h, s, k)}
<1>1. SUFFICES ASSUME Bad # {} PROVE FALSE
  OBVIOUS
<1>2. PICK k \in Bad : \A j \in Bad : k <= j
  <2>1. Bad \subseteq Nat
    OBVIOUS
  <2> HIDE DEF Bad
  <2>2. QED
    BY <1>1, <2>1, LeastNumber
<1>3. k # 0
  <2> DEFINE h == [S \in SUBSET (1 .. 0) |-> 0]
  <2>1. \A S \in SUBSET (1 .. 0) : S = {}
    OBVIOUS
  <2>2. Folding(h, s, 0)
    BY <2>1 DEF Folding
  <2>3. QED
    BY <1>2, <2>2
<1>4. k - 1 \in 0 .. n /\ k \in 1 .. n /\ k \in Nat
  BY <1>3
<1>5. PICK h : Folding(h, s, k - 1)
  BY <1>2, <1>4
<1> DEFINE g == [S \in SUBSET (1 .. k) |->
                   IF k \in S THEN 10 * h[S \ {k}] + s[k] ELSE h[S]]
<1>6. ASSUME NEW S \in SUBSET (1 .. k)
      PROVE  g[S] = IF S = {} THEN 0 ELSE 10 * g[S \ {Max(S)}] + s[Max(S)]
  <2>1. CASE k \in S
    <3>1. Max(S) = k
      <4>1. S \subseteq Int /\ \A j \in S : j <= k
        BY <1>4
      <4>2. QED
        BY <2>1, <4>1, MaxIs
    <3>2. g[S \ {k}] = h[S \ {k}]
      OBVIOUS
    <3>3. g[S] = 10 * h[S \ {k}] + s[k]
      BY <2>1
    <3>4. QED
      BY <2>1, <3>1, <3>2, <3>3
  <2>2. CASE k \notin S
    <3>1. S \in SUBSET (1 .. k - 1)
      BY <1>4, <2>2
    <3>2. h[S] = IF S = {} THEN 0 ELSE 10 * h[S \ {Max(S)}] + s[Max(S)]
      BY <1>5, <3>1 DEF Folding
    <3>3. g[S] = h[S] /\ g[S \ {Max(S)}] = h[S \ {Max(S)}]
      BY <2>2
    <3>4. QED
      BY <3>2, <3>3
  <2>3. QED
    BY <2>1, <2>2
<1>7. g = [S \in SUBSET (1 .. k) |->
             IF S = {} THEN 0 ELSE 10 * g[S \ {Max(S)}] + s[Max(S)]]
  BY <1>6
<1>8. Folding(g, s, k)
  BY <1>7 DEF Folding
<1>9. QED
  BY <1>2, <1>8

LEMMA NumberFolds ==
    ASSUME NEW s \in Seq(Int)
    PROVE  \E h : Folding(h, s, Len(s)) /\ Number(s) = h[1 .. Len(s)]
<1> DEFINE Folds(h) ==
            h = [S \in SUBSET (DOMAIN s) |->
                   IF S = {} THEN 0 ELSE 10 * h[S \ {Max(S)}] + s[Max(S)]]
<1>1. Number(s) = (CHOOSE h : Folds(h))[DOMAIN s]
  BY DEF Number, FoldLeft, MapThenFoldSet
<1>2. DOMAIN s = 1 .. Len(s)
  OBVIOUS
<1>3. \A h : Folds(h) <=> Folding(h, s, Len(s))
  BY <1>2 DEF Folding
<1>4. \E h : Folds(h)
  <2>1. \E h : Folding(h, s, Len(s))
    <3>1. Len(s) \in Nat
      OBVIOUS
    <3>2. QED
      BY <3>1, FoldExists
  <2> HIDE DEF Folds
  <2>2. QED
    BY <1>3, <2>1
<1>5. Folds(CHOOSE h : Folds(h))
  <2> HIDE DEF Folds
  <2>1. QED
    BY <1>4
<1> HIDE DEF Folds
<1>6. QED
  BY <1>1, <1>2, <1>3, <1>5

\* Number reads a string digit by digit.
LEMMA NumberRead ==
    ASSUME NEW s \in Seq(Int), NEW v, Reads(v, s)
    PROVE  Number(s) = v[Len(s)]
<1>1. PICK h : Folding(h, s, Len(s)) /\ Number(s) = h[1 .. Len(s)]
  BY NumberFolds
<1> DEFINE Bad == {k \in 0 .. Len(s) : h[1 .. k] # v[k]}
<1>2. SUFFICES ASSUME Bad # {} PROVE FALSE
  BY <1>1
<1>3. PICK k \in Bad : \A j \in Bad : k <= j
  <2>1. Bad \subseteq Nat
    OBVIOUS
  <2> HIDE DEF Bad
  <2>2. QED
    BY <1>2, <2>1, LeastNumber
<1>4. \A S \in SUBSET (1 .. Len(s)) :
         h[S] = IF S = {} THEN 0 ELSE 10 * h[S \ {Max(S)}] + s[Max(S)]
  BY <1>1 DEF Folding
<1>5. CASE k = 0
  <2>1. 1 .. k = {}
    BY <1>5
  <2>2. h[1 .. k] = 0
    BY <1>4, <2>1
  <2>3. QED
    BY <1>3, <1>5, <2>2 DEF Reads
<1>6. CASE k # 0
  <2>1. k \in 1 .. Len(s) /\ k - 1 \in 0 .. Len(s)
    BY <1>6
  <2>2. Max(1 .. k) = k
    <3>1. k \in 1 .. k /\ 1 .. k \subseteq Int /\ \A j \in 1 .. k : j <= k
      BY <2>1
    <3>2. QED
      BY <3>1, MaxIs
  <2>3. /\ (1 .. k) \ {k} = 1 .. k - 1
        /\ 1 .. k \in SUBSET (1 .. Len(s))
        /\ 1 .. k # {}
    <3>1. Len(s) \in Nat /\ k \in Nat /\ 1 <= k /\ k <= Len(s)
      BY <2>1
    <3> HIDE DEF Bad
    <3>2. (1 .. k) \ {k} = 1 .. k - 1
      BY <3>1
    <3>3. 1 .. k \in SUBSET (1 .. Len(s))
      BY <3>1
    <3>4. k \in 1 .. k
      BY <3>1
    <3>5. QED
      BY <3>2, <3>3, <3>4
  <2>4. h[1 .. k] = 10 * h[1 .. k - 1] + s[k]
    BY <1>4, <2>2, <2>3
  <2>5. h[1 .. k - 1] = v[k - 1]
    BY <1>3, <2>1
  <2>6. QED
    BY <1>3, <2>1, <2>4, <2>5 DEF Reads
<1>7. QED
  BY <1>5, <1>6

\* h is str(m) for each m up to n.
Writing(h, n) ==
    h = [m \in 0 .. n |-> IF m < 10 THEN <<m>> ELSE Append(h[m \div 10], m % 10)]

LEMMA Tens ==
    ASSUME NEW m \in Nat
    PROVE  /\ m \div 10 \in Nat /\ m % 10 \in 0 .. 9
           /\ m = 10 * (m \div 10) + (m % 10)
           /\ m >= 10 => m \div 10 > 0 /\ m \div 10 < m
OBVIOUS

LEMMA WritingExists ==
    ASSUME NEW n \in Nat
    PROVE  \E h : Writing(h, n)
<1> DEFINE Bad == {k \in 0 .. n : ~\E h : Writing(h, k)}
<1>1. SUFFICES ASSUME Bad # {} PROVE FALSE
  OBVIOUS
<1>2. PICK k \in Bad : \A j \in Bad : k <= j
  <2>1. Bad \subseteq Nat
    OBVIOUS
  <2> HIDE DEF Bad
  <2>2. QED
    BY <1>1, <2>1, LeastNumber
<1>3. k \in 0 .. n /\ k \in Nat /\ ~\E h : Writing(h, k)
  BY <1>2
<1>4. CASE k = 0
  <2> DEFINE h == [m \in 0 .. 0 |-> <<m>>]
  <2>1. h = [m \in 0 .. 0 |-> IF m < 10 THEN <<m>> ELSE Append(h[m \div 10], m % 10)]
    <3>1. \A m \in 0 .. 0 : m < 10
      OBVIOUS
    <3>2. QED
      BY <3>1
  <2>2. Writing(h, 0)
    BY <2>1 DEF Writing
  <2>3. QED
    BY <1>3, <1>4, <2>2
<1>5. CASE k # 0
  <2>1. k - 1 \in 0 .. n /\ ~(k <= k - 1)
    BY <1>3, <1>5
  <2>2. PICK h : Writing(h, k - 1)
    BY <1>2, <2>1
  <2> DEFINE Str(f, m) == IF m < 10 THEN <<m>> ELSE Append(f[m \div 10], m % 10)
             g == [m \in 0 .. k |-> IF m = k THEN Str(h, k) ELSE h[m]]
  <2>3. h = [m \in 0 .. k - 1 |-> Str(h, m)]
    BY <2>2 DEF Writing
  <2>4. ASSUME NEW m \in 0 .. k PROVE g[m] = Str(g, m)
    <3>1. m \in Nat /\ (m >= 10 => m \div 10 \in 0 .. k - 1 /\ m \div 10 # k)
      BY <1>3, Tens
    <3>2. m >= 10 => g[m \div 10] = h[m \div 10]
      BY <3>1
    <3>3. Str(g, m) = Str(h, m)
      BY <3>1, <3>2
    <3>4. CASE m = k
      BY <3>3, <3>4
    <3>5. CASE m # k
      <4>1. m \in 0 .. k - 1
        BY <1>3, <3>5
      <4>2. h[m] = Str(h, m)
        BY <2>3, <4>1
      <4>3. QED
        BY <3>3, <3>5, <4>2
    <3>6. QED
      BY <3>4, <3>5
  <2>5. g = [m \in 0 .. k |-> Str(g, m)]
    BY <2>4
  <2>6. Writing(g, k)
    BY <2>5 DEF Writing
  <2>7. QED
    BY <1>3, <2>6
<1>6. QED
  BY <1>4, <1>5

\* s is the number n, written with no idle zero in front.
Written(s, n) ==
    /\ s \in Seq(0 .. 9) /\ s # <<>>
    /\ n > 0 => s[1] # 0
    /\ n = 0 => Len(s) = 1
    /\ \E v : Reads(v, s) /\ v[Len(s)] = n

LEMMA NoIdleZero ==
    ASSUME NEW s, NEW n \in Nat, Written(s, n), Len(s) > 1
    PROVE  s[1] # 0
<1>1. s \in Seq(0 .. 9) /\ (n > 0 => s[1] # 0) /\ (n = 0 => Len(s) = 1)
  BY DEF Written
<1>2. Len(s) # 1
  <2>1. Len(s) \in Nat
    BY <1>1
  <2>2. \A l \in Nat : l > 1 => l # 1
    OBVIOUS
  <2>3. QED
    BY <2>1, <2>2
<1>3. n # 0
  BY <1>1, <1>2
<1>4. n > 0
  BY <1>3
<1>5. QED
  BY <1>1, <1>4

LEMMA WrittenDigit == ASSUME NEW m \in 0 .. 9 PROVE Written(<<m>>, m)
<1> DEFINE v == [i \in 0 .. 1 |-> IF i = 0 THEN 0 ELSE m]
<1>1. Len(<<m>>) = 1 /\ <<m>>[1] = m /\ <<m>> \in Seq(0 .. 9)
  OBVIOUS
<1>2. v \in [0 .. 1 -> Int] /\ v[0] = 0 /\ v[1] = m
  OBVIOUS
<1>3. Reads(v, <<m>>)
  <2>1. \A k \in 1 .. 1 : k = 1
    OBVIOUS
  <2> HIDE DEF v
  <2>2. QED
    BY <1>1, <1>2, <2>1 DEF Reads
<1>4. QED
  BY <1>1, <1>2, <1>3 DEF Written

LEMMA WrittenMore ==
    ASSUME NEW s, NEW n \in Nat, NEW d \in 0 .. 9, Written(s, n), n > 0
    PROVE  Written(Append(s, d), 10 * n + d)
<1> DEFINE t == Append(s, d)
           L == Len(s)
<1>1. s \in Seq(0 .. 9) /\ s # <<>> /\ s[1] # 0
  BY DEF Written
<1>2. L \in Nat /\ L >= 1
  BY <1>1
<1>3. t \in Seq(0 .. 9) /\ Len(t) = L + 1 /\ t[L + 1] = d /\ \A i \in 1 .. L : t[i] = s[i]
  BY <1>1
<1>4. t # <<>> /\ t[1] # 0
  BY <1>1, <1>2, <1>3
<1>5. PICK v : Reads(v, s) /\ v[L] = n
  BY DEF Written
<1> DEFINE w == [i \in 0 .. L + 1 |-> IF i = L + 1 THEN 10 * n + d ELSE v[i]]
<1> HIDE DEF L
<1>6. v \in [0 .. L -> Int] /\ v[0] = 0 /\ \A k \in 1 .. L : v[k] = 10 * v[k - 1] + s[k]
  BY <1>5 DEF Reads, L
<1>7. ASSUME NEW k \in 1 .. L + 1 PROVE w[k] = 10 * w[k - 1] + t[k]
  <2>1. CASE k = L + 1
    <3>1. k - 1 = L /\ L # L + 1 /\ L \in 0 .. L + 1
      BY <1>2, <2>1
    <3>2. w[k] = 10 * n + d /\ w[k - 1] = v[L]
      BY <2>1, <3>1
    <3>3. QED
      BY <1>3, <1>5, <2>1, <3>2 DEF L
  <2>2. CASE k # L + 1
    <3>1. k \in 1 .. L /\ k - 1 \in 0 .. L + 1 /\ k - 1 # L + 1
      BY <1>2, <2>2
    <3>2. w[k] = v[k] /\ w[k - 1] = v[k - 1] /\ t[k] = s[k]
      BY <1>3, <2>2, <3>1
    <3>3. QED
      BY <1>6, <3>1, <3>2
  <2>3. QED
    BY <2>1, <2>2
<1>8. w \in [0 .. L + 1 -> Int] /\ w[0] = 0 /\ w[L + 1] = 10 * n + d
  <2>1. \A i \in 0 .. L + 1 : i # L + 1 => i \in 0 .. L
    BY <1>2
  <2>2. QED
    BY <1>2, <1>6, <2>1
<1> HIDE DEF w, t
<1>9. Reads(w, t)
  BY <1>3, <1>7, <1>8 DEF Reads
<1>10. 10 * n + d > 0
  OBVIOUS
<1>11. Written(t, 10 * n + d)
  BY <1>3, <1>4, <1>8, <1>9, <1>10 DEF Written
<1>12. QED
  BY <1>11 DEF t

\* str(n) reads n: at the least number for which it did not, it would not for
\* a tenth of it either.
LEMMA DigitsWritten == ASSUME NEW n \in Nat PROVE Written(Digits(n), n)
<1>1. PICK h : Writing(h, n) /\ Digits(n) = h[n]
  <2>1. Digits(n) = (CHOOSE h : Writing(h, n))[n]
    BY DEF Digits, Writing
  <2>2. Writing(CHOOSE h : Writing(h, n), n)
    BY WritingExists
  <2>3. QED
    BY <2>1, <2>2
<1>2. \A m \in 0 .. n :
         h[m] = IF m < 10 THEN <<m>> ELSE Append(h[m \div 10], m % 10)
  BY <1>1 DEF Writing
<1> DEFINE Bad == {m \in 0 .. n : ~Written(h[m], m)}
<1>3. SUFFICES ASSUME Bad # {} PROVE FALSE
  BY <1>1
<1>4. PICK m \in Bad : \A k \in Bad : m <= k
  <2>1. Bad \subseteq Nat
    OBVIOUS
  <2> HIDE DEF Bad
  <2>2. QED
    BY <1>3, <2>1, LeastNumber
<1>5. m \in Nat /\ m \in 0 .. n /\ ~Written(h[m], m)
  BY <1>4
<1> HIDE DEF Bad
<1>a. h[m] = IF m < 10 THEN <<m>> ELSE Append(h[m \div 10], m % 10)
  BY <1>2, <1>5
<1>6. CASE m < 10
  <2>0. m \in 0 .. 9
    BY <1>5, <1>6
  <2>1. h[m] = <<m>>
    BY <1>a, <1>6
  <2>2. QED
    BY <1>5, <2>0, <2>1, WrittenDigit
<1>7. CASE m >= 10
  <2> DEFINE p == m \div 10
             d == m % 10
  <2>1. p \in Nat /\ d \in 0 .. 9 /\ m = 10 * p + d /\ p > 0 /\ p < m
    BY <1>5, <1>7, Tens
  <2>a. ~(m < 10)
    BY <1>5, <1>7
  <2>2. h[m] = Append(h[p], d)
    BY <1>a, <2>a
  <2> HIDE DEF p, d
  <2>3. p \in 0 .. n /\ ~(m <= p)
    BY <1>5, <2>1
  <2>4. Written(h[p], p)
    BY <1>4, <2>3 DEF Bad
  <2>5. Written(Append(h[p], d), 10 * p + d)
    BY <2>1, <2>4, WrittenMore
  <2>6. QED
    BY <1>5, <2>1, <2>2, <2>5
<1>8. QED
  BY <1>5, <1>6, <1>7
LEMMA ZerosOk ==
    ASSUME NEW n \in Nat
    PROVE  Zeros(n) \in Seq(0 .. 9) /\ Len(Zeros(n)) = n /\ \A i \in 1 .. n : Zeros(n)[i] = 0
BY DEF Zeros

LEMMA Joined ==
    ASSUME NEW a \in Seq(0 .. 9), NEW b \in Seq(0 .. 9)
    PROVE  /\ a \o b \in Seq(0 .. 9) /\ Len(a \o b) = Len(a) + Len(b)
           /\ \A i \in 1 .. Len(a) : (a \o b)[i] = a[i]
           /\ \A i \in 1 .. Len(b) : (a \o b)[Len(a) + i] = b[i]
<1>1. a \o b \in Seq(0 .. 9) /\ Len(a \o b) = Len(a) + Len(b)
  OBVIOUS
<1>2. \A i \in 1 .. Len(a) : (a \o b)[i] = a[i]
  OBVIOUS
<1>3. ASSUME NEW i \in 1 .. Len(b) PROVE (a \o b)[Len(a) + i] = b[i]
  <2>1. Len(a) \in Nat /\ Len(b) \in Nat
    OBVIOUS
  <2>2. Len(a) + i \in 1 .. Len(a) + Len(b) /\ ~(Len(a) + i <= Len(a)) /\ (Len(a) + i) - Len(a) = i
    BY <2>1
  <2>3. QED
    BY <2>2
<1>4. QED
  BY <1>1, <1>2, <1>3

\* Zeros in front change nothing of what is read.
LEMMA PaddedRead ==
    ASSUME NEW s \in Seq(0 .. 9), NEW z \in Nat, NEW v, Reads(v, s)
    PROVE  \E w : Reads(w, Zeros(z) \o s) /\ w[z + Len(s)] = v[Len(s)]
<1> DEFINE L == Len(s)
           t == Zeros(z) \o s
           w == [i \in 0 .. z + L |-> IF i <= z THEN 0 ELSE v[i - z]]
<1>1. L \in Nat
  OBVIOUS
<1>2. /\ Len(t) = z + L
      /\ \A i \in 1 .. z : t[i] = 0
      /\ \A i \in z + 1 .. z + L : t[i] = s[i - z]
  <2>1. /\ Zeros(z) \in Seq(0 .. 9) /\ Len(Zeros(z)) = z
        /\ \A i \in 1 .. z : Zeros(z)[i] = 0
    BY ZerosOk
  <2>2. /\ Len(t) = z + L
        /\ \A i \in 1 .. z : t[i] = Zeros(z)[i]
        /\ \A i \in 1 .. L : t[z + i] = s[i]
    <3> DEFINE idle == Zeros(z)
    <3> HIDE DEF idle
    <3>1. idle \in Seq(0 .. 9) /\ Len(idle) = z
      BY <2>1 DEF idle
    <3>2. /\ Len(idle \o s) = Len(idle) + Len(s)
          /\ \A i \in 1 .. Len(idle) : (idle \o s)[i] = idle[i]
          /\ \A i \in 1 .. Len(s) : (idle \o s)[Len(idle) + i] = s[i]
      BY <3>1, Joined
    <3>3. QED
      BY <3>1, <3>2 DEF idle
  <2>3. \A i \in z + 1 .. z + L : i - z \in 1 .. L /\ z + (i - z) = i
    BY <1>1
  <2>4. QED
    BY <2>1, <2>2, <2>3
<1>3. v \in [0 .. L -> Int] /\ v[0] = 0 /\ \A k \in 1 .. L : v[k] = 10 * v[k - 1] + s[k]
  BY DEF Reads
<1> HIDE DEF L, t
<1>4. ASSUME NEW k \in 1 .. z + L PROVE w[k] = 10 * w[k - 1] + t[k]
  <2>1. CASE k <= z
    <3>1. k \in 1 .. z /\ k \in 0 .. z + L /\ k - 1 \in 0 .. z + L /\ k - 1 <= z
      BY <1>1, <2>1
    <3>2. w[k] = 0 /\ w[k - 1] = 0 /\ t[k] = 0
      BY <1>2, <3>1
    <3>3. QED
      BY <3>2
  <2>2. CASE k > z
    <3>1. /\ k \in 0 .. z + L /\ k - 1 \in 0 .. z + L /\ ~(k <= z)
          /\ k - z \in 1 .. L /\ k \in z + 1 .. z + L /\ (k - z) - 1 = (k - 1) - z
      BY <1>1, <2>2
    <3>2. w[k] = v[k - z] /\ t[k] = s[k - z]
      BY <1>2, <3>1
    <3>3. w[k - 1] = v[(k - z) - 1]
      <4>1. CASE k - 1 <= z
        <5>1. k - z = 1 /\ w[k - 1] = 0
          BY <1>1, <2>2, <3>1, <4>1
        <5>2. QED
          BY <1>3, <5>1
      <4>2. CASE ~(k - 1 <= z)
        BY <3>1, <4>2
      <4>3. QED
        BY <4>1, <4>2
    <3>4. v[k - z] = 10 * v[(k - z) - 1] + s[k - z]
      BY <1>3, <3>1
    <3>5. QED
      BY <3>2, <3>3, <3>4
  <2>3. QED
    BY <1>1, <2>1, <2>2
<1>5. w[0] = 0 /\ w[z + L] = v[L]
  <2>1. 0 \in 0 .. z + L /\ z + L \in 0 .. z + L /\ (z + L) - z = L
    BY <1>1
  <2>2. w[0] = 0
    BY <2>1
  <2>3. CASE z + L <= z
    <3>1. w[z + L] = 0 /\ L = 0
      BY <1>1, <2>1, <2>3
    <3>2. QED
      BY <1>3, <2>2, <3>1
  <2>4. CASE ~(z + L <= z)
    <3>1. w[z + L] = v[(z + L) - z]
      BY <2>1, <2>4
    <3>2. QED
      BY <2>1, <2>2, <3>1
  <2>5. QED
    BY <2>3, <2>4
<1>6. w \in [0 .. z + L -> Int]
  <2>1. \A i \in 0 .. z + L : ~(i <= z) => i - z \in 0 .. L
    BY <1>1
  <2>2. QED
    BY <1>3, <2>1
<1> HIDE DEF w
<1>7. Reads(w, t)
  BY <1>2, <1>4, <1>5, <1>6 DEF Reads
<1>8. QED
  BY <1>5, <1>7 DEF t, L

LEMMA RjustOk ==
    ASSUME NEW n \in Nat, NEW width \in Nat
    PROVE  LET s == Digits(n)
               t == Rjust(s, width)
           IN  /\ t \in Seq(0 .. 9) /\ Len(t) >= width /\ Len(t) >= 1
               /\ Len(t) > width => t = s
               /\ Number(t) = n
<1> DEFINE s == Digits(n)
           t == Rjust(s, width)
<1>1. Written(s, n)
  BY DigitsWritten
<1>2. s \in Seq(0 .. 9) /\ s # <<>>
  BY <1>1 DEF Written
<1>3. PICK v : Reads(v, s) /\ v[Len(s)] = n
  BY <1>1 DEF Written
<1> HIDE DEF s
<1>4. Len(s) \in Nat /\ Len(s) >= 1 /\ s \in Seq(Int)
  BY <1>2
<1>5. CASE Len(s) < width
  <2> DEFINE z == width - Len(s)
  <2>1. z \in Nat /\ t = Zeros(z) \o s /\ z + Len(s) = width
    BY <1>4, <1>5 DEF Rjust
  <2> HIDE DEF z, t
  <2>2. t \in Seq(0 .. 9) /\ Len(t) = width
    <3>1. Zeros(z) \in Seq(0 .. 9) /\ Len(Zeros(z)) = z
      BY <2>1, ZerosOk
    <3>2. Zeros(z) \o s \in Seq(0 .. 9) /\ Len(Zeros(z) \o s) = z + Len(s)
      BY <1>2, <3>1
    <3>3. QED
      BY <2>1, <3>2
  <2>3. PICK w : Reads(w, t) /\ w[width] = n
    BY <1>2, <1>3, <2>1, PaddedRead
  <2>4. Number(t) = n
    <3>1. t \in Seq(Int)
      BY <2>2
    <3>2. QED
      BY <2>2, <2>3, <3>1, NumberRead
  <2>5. QED
    BY <1>4, <1>5, <2>2, <2>4 DEF t, s
<1>6. CASE ~(Len(s) < width)
  <2>1. t = s
    BY <1>6 DEF Rjust
  <2>2. Number(s) = n
    BY <1>3, <1>4, NumberRead
  <2> HIDE DEF t
  <2>3. t \in Seq(0 .. 9) /\ Len(t) >= width /\ Len(t) >= 1 /\ Number(t) = n
    BY <1>2, <1>4, <1>6, <2>1, <2>2
  <2>4. QED
    BY <2>1, <2>3 DEF t, s
<1>7. QED
  BY <1>5, <1>6

\* What is stripped are zeros, and all of them.
LEMMA RstripOk ==
    ASSUME NEW s \in Seq(0 .. 9)
    PROVE  \E n \in 0 .. Len(s) :
              /\ Rstrip(s) = SubSeq(s, 1, n)
              /\ n > 0 => s[n] # 0
              /\ \A i \in n + 1 .. Len(s) : s[i] = 0
<1> DEFINE L == Len(s)
           Right(n) == (n > 0 => s[n] # 0) /\ \A i \in n + 1 .. L : s[i] = 0
           Idle == {n \in 0 .. L : \A i \in n + 1 .. L : s[i] = 0}
<1>1. L \in Nat
  OBVIOUS
<1> HIDE DEF L
<1>2. PICK n \in Idle : \A k \in Idle : n <= k
  <2>1. L \in Idle
    BY <1>1
  <2>2. Idle \subseteq Nat
    OBVIOUS
  <2> HIDE DEF Idle
  <2>3. QED
    BY <2>1, <2>2, LeastNumber
<1>3. n \in 0 .. L /\ n \in Nat /\ \A i \in n + 1 .. L : s[i] = 0
  BY <1>2
<1>4. n > 0 => s[n] # 0
  <2>1. SUFFICES ASSUME n > 0, s[n] = 0 PROVE FALSE
    OBVIOUS
  <2>2. n - 1 \in 0 .. L /\ \A i \in (n - 1) + 1 .. L : i = n \/ i \in n + 1 .. L
    BY <1>1, <1>3, <2>1
  <2>3. n - 1 \in Idle
    BY <1>3, <2>1, <2>2
  <2>4. QED
    BY <1>2, <1>3, <2>3
<1>5. Right(n)
  BY <1>3, <1>4
<1> DEFINE m == CHOOSE k \in 0 .. L : Right(k)
<1> HIDE DEF Right
<1>6. m \in 0 .. L /\ Right(m)
  BY <1>3, <1>5
<1>7. Rstrip(s) = SubSeq(s, 1, m)
  BY DEF Rstrip, Right, L
<1> HIDE DEF m
<1>8. QED
  BY <1>6, <1>7 DEF Right, L
\* Cutting a string in two and stripping the second part loses nothing that
\* zeros do not bring back.
LEMMA Rejoined ==
    ASSUME NEW t \in Seq(0 .. 9), NEW cut \in 0 .. Len(t)
    PROVE  LET whole == SubSeq(t, 1, cut)
               frac == Rstrip(SubSeq(t, cut + 1, Len(t)))
           IN  /\ whole \in Seq(0 .. 9) /\ Len(whole) = cut
               /\ \A i \in 1 .. cut : whole[i] = t[i]
               /\ frac \in Seq(0 .. 9) /\ Len(frac) <= Len(t) - cut
               /\ frac # <<>> => Last(frac) # 0
               /\ whole \o frac \o Zeros((Len(t) - cut) - Len(frac)) = t
<1> DEFINE L == Len(t)
           whole == SubSeq(t, 1, cut)
           rest == SubSeq(t, cut + 1, Len(t))
           frac == Rstrip(rest)
<1>1. L \in Nat /\ cut \in Nat /\ cut <= L /\ \A i \in 1 .. L : t[i] \in 0 .. 9
  OBVIOUS
<1>2. whole \in Seq(0 .. 9) /\ Len(whole) = cut /\ \A i \in 1 .. cut : whole[i] = t[i]
  BY <1>1
<1>3. /\ rest \in Seq(0 .. 9) /\ Len(rest) = L - cut
      /\ \A i \in 1 .. L - cut : rest[i] = t[cut + i]
  <2>1. Len(rest) = L - cut /\ \A i \in 1 .. L - cut : rest[i] = t[cut + i]
    BY <1>1
  <2>2. rest \in Seq(0 .. 9)
    BY <1>1
  <2>3. QED
    BY <2>1, <2>2
<1> HIDE DEF L, whole, rest
<1>4. PICK n \in 0 .. Len(rest) :
         /\ Rstrip(rest) = SubSeq(rest, 1, n)
         /\ n > 0 => rest[n] # 0
         /\ \A i \in n + 1 .. Len(rest) : rest[i] = 0
  BY <1>3, RstripOk
<1>5. n \in Nat /\ n <= L - cut
  BY <1>1, <1>3, <1>4
<1>6. frac \in Seq(0 .. 9) /\ Len(frac) = n /\ \A i \in 1 .. n : frac[i] = rest[i]
  BY <1>3, <1>4, <1>5
<1> HIDE DEF frac
<1>7. frac # <<>> => Last(frac) # 0
  <2>1. SUFFICES ASSUME frac # <<>> PROVE Last(frac) # 0
    OBVIOUS
  <2>2. n > 0
    BY <1>5, <1>6, <2>1
  <2>3. QED
    BY <1>4, <1>5, <1>6, <2>2 DEF Last
<1> DEFINE z == (L - cut) - n
           u == whole \o frac
           all == u \o Zeros(z)
<1>8. z \in Nat /\ cut + n + z = L
  BY <1>1, <1>5
<1> HIDE DEF z
<1>9. /\ Zeros(z) \in Seq(0 .. 9) /\ Len(Zeros(z)) = z
      /\ \A i \in 1 .. z : Zeros(z)[i] = 0
  BY <1>8, ZerosOk
<1>10. /\ u \in Seq(0 .. 9) /\ Len(u) = cut + n
       /\ \A i \in 1 .. cut : u[i] = whole[i]
       /\ \A i \in 1 .. n : u[cut + i] = frac[i]
  BY <1>2, <1>6, Joined
<1> HIDE DEF u
<1>11. /\ all \in Seq(0 .. 9) /\ Len(all) = L
       /\ \A i \in 1 .. cut + n : all[i] = u[i]
       /\ \A i \in 1 .. z : all[cut + n + i] = 0
  <2>1. /\ all \in Seq(0 .. 9) /\ Len(all) = (cut + n) + z
        /\ \A i \in 1 .. cut + n : all[i] = u[i]
        /\ \A i \in 1 .. z : all[(cut + n) + i] = Zeros(z)[i]
    <3> DEFINE idle == Zeros(z)
    <3>1. u \in Seq(0 .. 9) /\ idle \in Seq(0 .. 9) /\ Len(u) = cut + n /\ Len(idle) = z
      BY <1>9, <1>10
    <3> HIDE DEF idle
    <3>2. /\ u \o idle \in Seq(0 .. 9) /\ Len(u \o idle) = Len(u) + Len(idle)
          /\ \A i \in 1 .. Len(u) : (u \o idle)[i] = u[i]
          /\ \A i \in 1 .. Len(idle) : (u \o idle)[Len(u) + i] = idle[i]
      BY <3>1, Joined
    <3>3. QED
      BY <3>1, <3>2 DEF idle
  <2>2. QED
    BY <1>8, <1>9, <2>1
<1> HIDE DEF all
<1>12. ASSUME NEW i \in 1 .. L PROVE all[i] = t[i]
  <2>1. CASE i <= cut
    <3>1. i \in 1 .. cut /\ i \in 1 .. cut + n
      BY <1>1, <1>5, <2>1
    <3>2. QED
      BY <1>2, <1>10, <1>11, <3>1
  <2>2. CASE cut < i /\ i <= cut + n
    <3>1. /\ i - cut \in 1 .. n /\ i - cut \in 1 .. L - cut /\ i \in 1 .. cut + n
          /\ cut + (i - cut) = i
      BY <1>1, <1>5, <2>2
    <3>2. u[i] = frac[i - cut] /\ rest[i - cut] = t[i]
      BY <1>3, <1>10, <3>1
    <3>3. QED
      BY <1>6, <1>11, <3>1, <3>2
  <2>3. CASE cut + n < i
    <3>1. /\ i - (cut + n) \in 1 .. z /\ cut + n + (i - (cut + n)) = i
          /\ i - cut \in n + 1 .. L - cut /\ i - cut \in 1 .. L - cut /\ cut + (i - cut) = i
      BY <1>1, <1>5, <1>8, <2>3
    <3>2. all[i] = 0
      BY <1>11, <3>1
    <3>3. rest[i - cut] = 0
      BY <1>3, <1>4, <3>1
    <3>4. rest[i - cut] = t[i]
      BY <1>3, <3>1
    <3>5. QED
      BY <3>2, <3>3, <3>4
  <2>4. QED
    BY <1>1, <1>5, <2>1, <2>2, <2>3
<1>13. all = t
  <2>1. all \in Seq(0 .. 9) /\ t \in Seq(0 .. 9) /\ Len(all) = Len(t)
    BY <1>11 DEF L
  <2>2. \A i \in 1 .. Len(t) : all[i] = t[i]
    BY <1>12 DEF L
  <2>3. QED
    BY <2>1, <2>2, SeqEqual
<1>14. z = (L - cut) - Len(frac) /\ Len(frac) <= L - cut
  BY <1>5, <1>6 DEF z
<1>15. QED
  BY <1>2, <1>6, <1>7, <1>13, <1>14 DEF all, u, whole, frac, rest, L

\* decimal_string writes every amount exactly and in one way, with any number of
\* decimals: no digit is lost, moved or invented (mapping.py:65-79).
THEOREM DecimalStringIsExact ==
    \A amount \in Int, decimals \in Nat :
        LET s == DecimalString(amount, decimals)
        IN  s \in DecimalStrings /\ Says(s, amount, decimals) /\ Plain(s)
<1>1. SUFFICES ASSUME NEW amount \in Int, NEW decimals \in Nat
               PROVE  LET s == DecimalString(amount, decimals)
                      IN  s \in DecimalStrings /\ Says(s, amount, decimals) /\ Plain(s)
  OBVIOUS
<1> DEFINE n == Magnitude(amount)
           s == DecimalString(amount, decimals)
<1>2. n \in Nat /\ amount = (IF amount < 0 THEN -1 ELSE 1) * n
  BY DEF Magnitude
<1> HIDE DEF n
<1>3. Written(Digits(n), n)
  BY <1>2, DigitsWritten
<1>4. PICK t \in Seq(0 .. 9) :
         /\ Len(t) >= 1 /\ Len(t) >= decimals + 1 /\ Number(t) = n
         /\ Len(t) > decimals + 1 => t = Digits(n)
         /\ s = [negative |-> amount < 0,
                 whole |-> SubSeq(t, 1, Len(t) - decimals),
                 frac |-> Rstrip(SubSeq(t, (Len(t) - decimals) + 1, Len(t)))]
  <2>1. CASE decimals <= 0
    <3>1. decimals = 0
      BY <2>1
    <3> DEFINE t == Digits(n)
    <3>2. t \in Seq(0 .. 9) /\ t # <<>>
      BY <1>3 DEF Written
    <3>3. PICK v : Reads(v, t) /\ v[Len(t)] = n
      BY <1>3 DEF Written
    <3> HIDE DEF t
    <3>4. Number(t) = n
      <4>1. t \in Seq(Int)
        BY <3>2
      <4>2. QED
        BY <3>3, <4>1, NumberRead
    <3>5. Len(t) \in Nat /\ Len(t) >= 1 /\ Len(t) - decimals = Len(t)
      BY <3>1, <3>2
    <3>6. s = [negative |-> amount < 0,
               whole |-> SubSeq(t, 1, Len(t) - decimals),
               frac |-> Rstrip(SubSeq(t, (Len(t) - decimals) + 1, Len(t)))]
      BY <2>1, <3>5 DEF DecimalString, n, t
    <3>7. QED
      BY <3>1, <3>2, <3>4, <3>5, <3>6 DEF t
  <2>2. CASE ~(decimals <= 0)
    <3> DEFINE t == Rjust(Digits(n), decimals + 1)
    <3>1. /\ t \in Seq(0 .. 9) /\ Len(t) >= decimals + 1 /\ Len(t) >= 1
          /\ Len(t) > decimals + 1 => t = Digits(n)
          /\ Number(t) = n
      <4>1. decimals + 1 \in Nat
        OBVIOUS
      <4>2. QED
        BY <1>2, <4>1, RjustOk
    <3>2. s = [negative |-> amount < 0,
               whole |-> SubSeq(t, 1, Len(t) - decimals),
               frac |-> Rstrip(SubSeq(t, (Len(t) - decimals) + 1, Len(t)))]
      BY <2>2 DEF DecimalString, n
    <3> HIDE DEF t
    <3>3. QED
      BY <3>1, <3>2
  <2>3. QED
    BY <2>1, <2>2
<1> DEFINE cut == Len(t) - decimals
           whole == SubSeq(t, 1, cut)
           frac == Rstrip(SubSeq(t, cut + 1, Len(t)))
<1>5. /\ Len(t) \in Nat /\ cut \in 0 .. Len(t) /\ cut >= 1 /\ Len(t) - cut = decimals
      /\ cut > 1 => Len(t) > decimals + 1
  BY <1>4
<1>6. /\ s.negative = (amount < 0) /\ s.whole = whole /\ s.frac = frac
      /\ s = [negative |-> amount < 0, whole |-> whole, frac |-> frac]
  BY <1>4
<1> HIDE DEF s, cut
<1>7. /\ whole \in Seq(0 .. 9) /\ Len(whole) = cut
      /\ \A i \in 1 .. cut : whole[i] = t[i]
      /\ frac \in Seq(0 .. 9) /\ Len(frac) <= Len(t) - cut
      /\ frac # <<>> => Last(frac) # 0
      /\ whole \o frac \o Zeros((Len(t) - cut) - Len(frac)) = t
  BY <1>5, Rejoined
<1> HIDE DEF whole, frac
<1>8. s \in DecimalStrings
  BY <1>6, <1>7 DEF DecimalStrings
<1>9. Says(s, amount, decimals)
  <2>1. Number(s.whole \o s.frac \o Zeros(decimals - Len(s.frac))) = n
    BY <1>4, <1>5, <1>6, <1>7
  <2>2. Sign(s) = IF amount < 0 THEN -1 ELSE 1
    BY <1>6 DEF Sign
  <2>3. Len(s.frac) <= decimals
    BY <1>5, <1>6, <1>7
  <2>4. QED
    BY <1>2, <2>1, <2>2, <2>3 DEF Says
<1>10. Plain(s)
  <2>1. whole # <<>>
    BY <1>5, <1>7
  <2>2. ASSUME Len(whole) > 1 PROVE Head(whole) # 0
    <3>1. t = Digits(n) /\ Len(t) > 1
      BY <1>4, <1>5, <1>7, <2>2
    <3>2. t[1] # 0
      BY <1>2, <1>3, <3>1, NoIdleZero
    <3>3. whole[1] = t[1] /\ Head(whole) = whole[1]
      BY <1>5, <1>7, <2>1
    <3>4. QED
      BY <3>2, <3>3
  <2>3. QED
    BY <1>6, <1>7, <2>1, <2>2 DEF Plain
<1>11. QED
  BY <1>8, <1>9, <1>10 DEF s

(***************************************************************************)
(* HoldingsPage.                                                           *)
(***************************************************************************)
RunningLookups(r) == {a \in Assets : lookup[r][a] = "running"}
Resolved(r) == {a \in Assets : lookup[r][a] = "resolved"}
Untouched(r) == \A a \in Assets : lookup[r][a] = "none"
Settled(r) == \A a \in Assets : lookup[r][a] \in Ended \cup {"none"}
Crashed(r) == \E a \in Assets : lookup[r][a] = "crashed"

Typed ==
    /\ stage \in [Pages -> Stages]
    /\ holdings \in [Pages -> Listings \cup {<<>>}]
    /\ lookup \in [Pages -> [Assets -> Lookups]]
    /\ slots \in [Pages -> 0 .. ResolveConcurrency]
    /\ answer = [r \in Pages |-> answer[r]]

\* No lookup before the page is listed, no answer before the end.
Staged ==
    \A r \in Pages : /\ stage[r] \in {"new", "listing"} => Untouched(r)
                     /\ stage[r] # "done" => answer[r] = None

\* A 200 is the page as mapped from lookups that are all over; any other
\* answer was given before there were lookups, or because one crashed.
Served(r) ==
    answer[r] = [status |-> 200, items |-> MapAccountAssets(holdings[r], Resolved(r))]
Failed(r) == \E status \in Int \ {200} : answer[r] = [status |-> status, items |-> <<>>]

AnswerOf(r) ==
    \/ Served(r) /\ Settled(r)
    \/ Failed(r) /\ (Untouched(r) \/ Crashed(r))

Answered == \A r \in Pages : answer[r] # None => AnswerOf(r)

IInv == Typed /\ Staged /\ Answered /\ FanOutBounded

------------------------------------------------------------------------------
LEMMA RunningIsFinite ==
    ASSUME NEW r \in Pages
    PROVE  IsFiniteSet(RunningLookups(r)) /\ Cardinality(RunningLookups(r)) \in Nat
<1>1. RunningLookups(r) \subseteq Assets
  BY DEF RunningLookups
<1>2. IsFiniteSet(RunningLookups(r))
  BY <1>1, PageAssumption, FS_Subset
<1>3. QED
  BY <1>2, FS_CardinalityType

LEMMA AttributedIsNot200 ==
    ASSUME NEW failure \in Failures
    PROVE  Attributed(failure) \in Int \ {200}
BY DEF Attributed, Failures, NoStatus

LEMMA ErrorsAreNot200 == \A status \in ListingErrors : status \in Int \ {200}
BY AttributedIsNot200 DEF ListingErrors

LEMMA ElementIn == ASSUME NEW S, NEW s \in Seq(S), NEW i \in DOMAIN s PROVE s[i] \in S
OBVIOUS

LEMMA InitInv == Init => IInv
<1>1. SUFFICES ASSUME Init PROVE IInv
  OBVIOUS
<1>2. Typed
  BY <1>1, PageAssumption DEF Init, Typed, Stages, Lookups
<1>3. Staged /\ Answered
  BY <1>1 DEF Init, Staged, Answered, Untouched
<1>4. ASSUME NEW r \in Pages
      PROVE  Cardinality(RunningLookups(r)) + slots[r] = ResolveConcurrency
  <2>1. RunningLookups(r) = {} /\ slots[r] = ResolveConcurrency
    BY <1>1 DEF Init, RunningLookups
  <2>2. Cardinality(RunningLookups(r)) = 0
    BY <2>1, FS_EmptySet
  <2>3. QED
    BY <2>1, <2>2, PageAssumption
<1>5. FanOutBounded
  BY <1>4 DEF FanOutBounded, RunningLookups
<1>6. QED
  BY <1>2, <1>3, <1>5 DEF IInv

\* What holds of a page depends on its own state only.
LEMMA OthersKeep ==
    ASSUME Staged, Answered, FanOutBounded, NEW r \in Pages,
           stage'[r] = stage[r], holdings'[r] = holdings[r], lookup'[r] = lookup[r],
           slots'[r] = slots[r], answer'[r] = answer[r]
    PROVE  /\ stage'[r] \in {"new", "listing"} => Untouched(r)'
           /\ stage'[r] # "done" => answer'[r] = None
           /\ answer'[r] # None => AnswerOf(r)'
           /\ Cardinality(RunningLookups(r)') + slots'[r] = ResolveConcurrency
<1>1. Untouched(r)' <=> Untouched(r)
  BY DEF Untouched
<1>2. Resolved(r)' = Resolved(r) /\ RunningLookups(r)' = RunningLookups(r)
  BY DEF Resolved, RunningLookups
<1>3. (Settled(r)' <=> Settled(r)) /\ (Crashed(r)' <=> Crashed(r))
  BY DEF Settled, Crashed
<1>a. (Served(r)' <=> Served(r)) /\ (Failed(r)' <=> Failed(r))
  BY <1>2 DEF Served, Failed
<1>4. AnswerOf(r)' <=> AnswerOf(r)
  BY <1>1, <1>3, <1>a DEF AnswerOf
<1>5. Cardinality(RunningLookups(r)) + slots[r] = ResolveConcurrency
  BY DEF FanOutBounded, RunningLookups
<1>6. QED
  BY <1>1, <1>2, <1>4, <1>5 DEF Staged, Answered

\* A step of one page leaves the others alone.
LEMMA LocalStep ==
    ASSUME IInv, Typed', NEW r \in Pages,
           \A q \in Pages \ {r} :
              /\ stage'[q] = stage[q] /\ holdings'[q] = holdings[q] /\ lookup'[q] = lookup[q]
              /\ slots'[q] = slots[q] /\ answer'[q] = answer[q],
           stage'[r] \in {"new", "listing"} => Untouched(r)',
           stage'[r] # "done" => answer'[r] = None,
           answer'[r] # None => AnswerOf(r)',
           Cardinality(RunningLookups(r)') + slots'[r] = ResolveConcurrency
    PROVE  IInv'
<1>1. Staged /\ Answered /\ FanOutBounded
  BY DEF IInv
<1>2. ASSUME NEW q \in Pages
      PROVE  /\ stage'[q] \in {"new", "listing"} => Untouched(q)'
             /\ stage'[q] # "done" => answer'[q] = None
             /\ answer'[q] # None => AnswerOf(q)'
             /\ Cardinality(RunningLookups(q)') + slots'[q] = ResolveConcurrency
  <2>1. CASE q = r
    BY <2>1
  <2>2. CASE q # r
    BY <1>1, <2>2, OthersKeep
  <2>3. QED
    BY <2>1, <2>2
<1>3. Staged'
  BY <1>2 DEF Staged
<1>4. Answered'
  BY <1>2 DEF Answered
<1>5. FanOutBounded'
  BY <1>2 DEF FanOutBounded, RunningLookups
<1>6. QED
  BY <1>3, <1>4, <1>5 DEF IInv

\* A step that answers r, with no lookup and no slot touched.
LEMMA RespondKeeps ==
    ASSUME IInv, NEW r \in Pages, NEW status, NEW items, Respond(r, status, items),
           holdings' \in [Pages -> Listings \cup {<<>>}],
           \A q \in Pages \ {r} : holdings'[q] = holdings[q],
           lookup' = lookup, slots' = slots,
           AnswerOf(r)'
    PROVE  IInv'
<1>1. Typed /\ FanOutBounded
  BY DEF IInv
<1>2. Typed'
  BY <1>1 DEF Typed, Respond, Stages
<1>3. stage'[r] = "done"
  BY <1>1 DEF Typed, Respond
<1>4. \A q \in Pages \ {r} : stage'[q] = stage[q] /\ answer'[q] = answer[q]
  BY <1>1 DEF Typed, Respond
<1>5. RunningLookups(r)' = RunningLookups(r)
  BY DEF RunningLookups
<1>6. Cardinality(RunningLookups(r)') + slots'[r] = ResolveConcurrency
  BY <1>1, <1>5 DEF FanOutBounded, RunningLookups
<1>7. QED
  BY <1>2, <1>3, <1>4, <1>6, LocalStep

\* The answer that was just given.
LEMMA Given ==
    ASSUME Typed, NEW r \in Pages, NEW status, NEW items, Respond(r, status, items)
    PROVE  answer'[r] = [status |-> status, items |-> items]
BY DEF Typed, Respond

LEMMA RefuseInv == ASSUME IInv, NEW r \in Pages, Refuse(r) PROVE IInv'
<1>1. Typed /\ Untouched(r)
  BY DEF IInv, Staged, Refuse
<1>2. Respond(r, 400, <<>>) /\ UNCHANGED <<holdings, lookup, slots>>
  BY DEF Refuse
<1>3. answer'[r] = [status |-> 400, items |-> <<>>]
  BY <1>1, <1>2, Given
<1>4. Untouched(r)'
  BY <1>1, <1>2 DEF Untouched
<1>5. AnswerOf(r)'
  BY <1>3, <1>4 DEF AnswerOf, Failed
<1>6. QED
  BY <1>1, <1>2, <1>5, RespondKeeps DEF Typed

LEMMA ListingFailsInv ==
    ASSUME IInv, NEW r \in Pages, NEW status \in ListingErrors, ListingFails(r, status)
    PROVE  IInv'
<1>1. Typed /\ Untouched(r)
  BY DEF IInv, Staged, ListingFails
<1>2. Respond(r, status, <<>>) /\ UNCHANGED <<holdings, lookup, slots>>
  BY DEF ListingFails
<1>3. answer'[r] = [status |-> status, items |-> <<>>]
  BY <1>1, <1>2, Given
<1>4. Untouched(r)'
  BY <1>1, <1>2 DEF Untouched
<1>a. Failed(r)'
  BY <1>3, ErrorsAreNot200 DEF Failed
<1>5. AnswerOf(r)'
  BY <1>4, <1>a DEF AnswerOf
<1>6. QED
  BY <1>1, <1>2, <1>5, RespondKeeps DEF Typed

LEMMA GatheredInv == ASSUME IInv, NEW r \in Pages, Gathered(r) PROVE IInv'
<1>1. Typed
  BY DEF IInv
<1>2. /\ Respond(r, 200, MapAccountAssets(holdings[r], Resolved(r)))
      /\ UNCHANGED <<holdings, lookup, slots>>
  BY DEF Gathered, Resolved
<1>3. Settled(r)' /\ Resolved(r)' = Resolved(r)
  BY <1>2 DEF Gathered, Settled, Resolved
<1>4. answer'[r] = [status |-> 200, items |-> MapAccountAssets(holdings[r], Resolved(r))]
  BY <1>1, <1>2, Given
<1>a. Served(r)'
  BY <1>2, <1>3, <1>4 DEF Served
<1>5. AnswerOf(r)'
  BY <1>3, <1>a DEF AnswerOf
<1>6. QED
  BY <1>1, <1>2, <1>5, RespondKeeps DEF Typed

LEMMA GatherRaisesInv == ASSUME IInv, NEW r \in Pages, GatherRaises(r) PROVE IInv'
<1>1. Typed
  BY DEF IInv
<1>2. Respond(r, 500, <<>>) /\ UNCHANGED <<holdings, lookup, slots>>
  BY DEF GatherRaises
<1>3. Crashed(r)'
  BY <1>2 DEF GatherRaises, Crashed
<1>4. answer'[r] = [status |-> 500, items |-> <<>>]
  BY <1>1, <1>2, Given
<1>a. Failed(r)'
  BY <1>4 DEF Failed
<1>5. AnswerOf(r)'
  BY <1>3, <1>a DEF AnswerOf
<1>6. QED
  BY <1>1, <1>2, <1>5, RespondKeeps DEF Typed

LEMMA AskInv == ASSUME IInv, NEW r \in Pages, Ask(r) PROVE IInv'
<1>1. Typed /\ Staged /\ FanOutBounded /\ stage[r] = "new"
  BY DEF IInv, Ask
<1>2. UNCHANGED <<holdings, lookup, slots, answer>> /\ stage' = [stage EXCEPT ![r] = "listing"]
  BY DEF Ask
<1>3. Typed'
  BY <1>1, <1>2 DEF Typed, Stages
<1>4. Untouched(r)' /\ answer'[r] = None
  BY <1>1, <1>2 DEF Staged, Untouched
<1>5. \A q \in Pages \ {r} : stage'[q] = stage[q]
  BY <1>1, <1>2 DEF Typed
<1>6. Cardinality(RunningLookups(r)') + slots'[r] = ResolveConcurrency
  BY <1>1, <1>2 DEF FanOutBounded, RunningLookups
<1>7. QED
  BY <1>2, <1>3, <1>4, <1>5, <1>6, LocalStep

LEMMA ArrivesInv ==
    ASSUME IInv, NEW r \in Pages, NEW page \in Listings, NEW resolve \in BOOLEAN,
           Arrives(r, page, resolve)
    PROVE  IInv'
<1> DEFINE ids == IF resolve THEN Listed(page) ELSE {}
<1>1. Typed /\ Staged /\ FanOutBounded /\ stage[r] = "listing"
  BY DEF IInv, Arrives
<1>2. Untouched(r) /\ answer[r] = None
  BY <1>1 DEF Staged
<1>3. holdings' = [holdings EXCEPT ![r] = page] /\ slots' = slots
  BY DEF Arrives
<1>4. /\ holdings' \in [Pages -> Listings \cup {<<>>}] /\ holdings'[r] = page
      /\ \A q \in Pages \ {r} : holdings'[q] = holdings[q]
  BY <1>1, <1>3 DEF Typed
<1>5. CASE ids = {}
  <2>1. Respond(r, 200, MapAccountAssets(page, {})) /\ lookup' = lookup
    BY <1>5 DEF Arrives
  <2>2. Resolved(r)' = {} /\ Settled(r)'
    BY <1>2, <2>1 DEF Untouched, Resolved, Settled
  <2>3. answer'[r] = [status |-> 200, items |-> MapAccountAssets(page, {})]
    BY <1>1, <2>1, Given
  <2>a. Served(r)'
    BY <1>4, <2>2, <2>3 DEF Served
  <2>4. AnswerOf(r)'
    BY <2>2, <2>a DEF AnswerOf
  <2>5. QED
    BY <1>3, <1>4, <2>1, <2>4, RespondKeeps
<1>6. CASE ids # {}
  <2>1. /\ stage' = [stage EXCEPT ![r] = "resolving"]
        /\ lookup' = [lookup EXCEPT ![r] =
                         [a \in Assets |-> IF a \in ids THEN "queued" ELSE "none"]]
        /\ answer' = answer
    BY <1>6 DEF Arrives
  <2>2. [a \in Assets |-> IF a \in ids THEN "queued" ELSE "none"] \in [Assets -> Lookups]
    BY DEF Lookups
  <2>3. Typed'
    BY <1>1, <1>3, <1>4, <2>1, <2>2 DEF Typed, Stages
  <2>4. lookup'[r] = [a \in Assets |-> IF a \in ids THEN "queued" ELSE "none"]
    BY <1>1, <2>1 DEF Typed
  <2>5. RunningLookups(r)' = {} /\ RunningLookups(r) = {}
    BY <1>2, <2>4 DEF RunningLookups, Untouched
  <2>6. Cardinality(RunningLookups(r)') + slots'[r] = ResolveConcurrency
    BY <1>1, <1>3, <2>5 DEF FanOutBounded, RunningLookups
  <2>7. \A q \in Pages \ {r} : stage'[q] = stage[q] /\ lookup'[q] = lookup[q]
    BY <1>1, <2>1 DEF Typed
  <2>8. stage'[r] = "resolving"
    BY <1>1, <2>1 DEF Typed
  <2>9. QED
    BY <1>2, <1>3, <1>4, <2>1, <2>3, <2>6, <2>7, <2>8, LocalStep
<1>7. QED
  BY <1>5, <1>6

\* A lookup that moves while its page may be answered: it was not over, so
\* the answer, if there is one, is that of a crash, and crashes stay.
LEMMA LookupMoves ==
    ASSUME IInv, NEW r \in Pages, NEW a \in Assets, NEW to \in Lookups \ {"none"},
           lookup[r][a] \in {"queued", "running"},
           lookup' = [lookup EXCEPT ![r][a] = to],
           slots' \in [Pages -> 0 .. ResolveConcurrency],
           \A q \in Pages \ {r} : slots'[q] = slots[q],
           Cardinality(RunningLookups(r)') + slots'[r] = ResolveConcurrency,
           UNCHANGED <<stage, holdings, answer>>
    PROVE  IInv'
<1>1. Typed /\ Staged /\ Answered
  BY DEF IInv
<1>2. Typed'
  BY <1>1 DEF Typed
<1>3. /\ lookup'[r][a] = to
      /\ \A b \in Assets \ {a} : lookup'[r][b] = lookup[r][b]
      /\ \A q \in Pages \ {r} : lookup'[q] = lookup[q]
  BY <1>1 DEF Typed
<1>4. ~Untouched(r) /\ ~Settled(r)
  BY DEF Untouched, Settled, Ended
<1>5. stage'[r] \notin {"new", "listing"}
  BY <1>1, <1>4 DEF Staged
<1>6. Crashed(r) => Crashed(r)'
  BY <1>3 DEF Crashed
<1>a. Failed(r) => Failed(r)'
  BY DEF Failed
<1>7. answer'[r] # None => AnswerOf(r)'
  BY <1>1, <1>4, <1>6, <1>a DEF Answered, AnswerOf
<1>8. stage'[r] # "done" => answer'[r] = None
  BY <1>1 DEF Staged
<1>9. QED
  BY <1>2, <1>3, <1>5, <1>7, <1>8, LocalStep

LEMMA AcquireInv ==
    ASSUME IInv, NEW r \in Pages, NEW a \in Assets, Acquire(r, a) PROVE IInv'
<1>1. Typed /\ FanOutBounded /\ lookup[r][a] = "queued" /\ slots[r] > 0
  BY DEF IInv, Acquire
<1>2. /\ slots' = [slots EXCEPT ![r] = slots[r] - 1]
      /\ lookup' = [lookup EXCEPT ![r][a] = "running"]
      /\ UNCHANGED <<stage, holdings, answer>>
  BY DEF Acquire
<1>3. slots[r] \in 0 .. ResolveConcurrency /\ ResolveConcurrency \in Nat
  BY <1>1, PageAssumption DEF Typed
<1>4. /\ slots' \in [Pages -> 0 .. ResolveConcurrency] /\ slots'[r] = slots[r] - 1
      /\ \A q \in Pages \ {r} : slots'[q] = slots[q]
  BY <1>1, <1>2, <1>3 DEF Typed
<1>5. RunningLookups(r)' = RunningLookups(r) \cup {a} /\ a \notin RunningLookups(r)
  BY <1>1, <1>2 DEF Typed, RunningLookups
<1>6. Cardinality(RunningLookups(r)') = Cardinality(RunningLookups(r)) + 1
  BY <1>5, RunningIsFinite, FS_AddElement
<1>7. Cardinality(RunningLookups(r)) + slots[r] = ResolveConcurrency
  BY <1>1 DEF FanOutBounded, RunningLookups
<1>8. Cardinality(RunningLookups(r)') + slots'[r] = ResolveConcurrency
  BY <1>3, <1>4, <1>6, <1>7, RunningIsFinite
<1>9. "running" \in Lookups \ {"none"}
  BY DEF Lookups
<1>10. QED
  BY <1>1, <1>2, <1>4, <1>8, <1>9, LookupMoves

LEMMA LookupEndsInv ==
    ASSUME IInv, NEW r \in Pages, NEW a \in Assets, NEW end \in Ended, LookupEnds(r, a, end)
    PROVE  IInv'
<1>1. Typed /\ FanOutBounded /\ lookup[r][a] = "running"
  BY DEF IInv, LookupEnds
<1>2. /\ slots' = [slots EXCEPT ![r] = slots[r] + 1]
      /\ lookup' = [lookup EXCEPT ![r][a] = end]
      /\ UNCHANGED <<stage, holdings, answer>>
  BY DEF LookupEnds
<1>3. slots[r] \in 0 .. ResolveConcurrency /\ ResolveConcurrency \in Nat
  BY <1>1, PageAssumption DEF Typed
<1>4. end # "running" /\ end \in Lookups \ {"none"}
  BY DEF Ended, Lookups
<1>5. RunningLookups(r)' = RunningLookups(r) \ {a} /\ a \in RunningLookups(r)
  BY <1>1, <1>2, <1>4 DEF Typed, RunningLookups
<1>6. Cardinality(RunningLookups(r)') = Cardinality(RunningLookups(r)) - 1
  BY <1>5, RunningIsFinite, FS_RemoveElement
<1>7. Cardinality(RunningLookups(r)) + slots[r] = ResolveConcurrency
  BY <1>1 DEF FanOutBounded, RunningLookups
<1>8. Cardinality(RunningLookups(r)) # 0
  BY <1>5, RunningIsFinite, FS_EmptySet
<1>9. slots[r] + 1 \in 0 .. ResolveConcurrency
  BY <1>3, <1>7, <1>8, RunningIsFinite
<1>10. /\ slots' \in [Pages -> 0 .. ResolveConcurrency] /\ slots'[r] = slots[r] + 1
       /\ \A q \in Pages \ {r} : slots'[q] = slots[q]
  BY <1>1, <1>2, <1>9 DEF Typed
<1>11. Cardinality(RunningLookups(r)') + slots'[r] = ResolveConcurrency
  BY <1>3, <1>6, <1>7, <1>10, RunningIsFinite
<1>12. QED
  BY <1>1, <1>2, <1>4, <1>10, <1>11, LookupMoves

LEMMA StutterInv == IInv /\ UNCHANGED vars => IInv'
<1>1. SUFFICES ASSUME IInv, UNCHANGED vars PROVE IInv'
  OBVIOUS
<1>2. Typed' /\ FanOutBounded'
  BY <1>1 DEF vars, IInv, Typed, FanOutBounded
<1>3. Staged' /\ Answered'
  BY <1>1, OthersKeep DEF vars, IInv, Staged, Answered
<1>4. QED
  BY <1>2, <1>3 DEF IInv

LEMMA NextInv == IInv /\ [Next]_vars => IInv'
BY RefuseInv, AskInv, ArrivesInv, ListingFailsInv, AcquireInv, LookupEndsInv,
   GatheredInv, GatherRaisesInv, StutterInv DEF Next

THEOREM Inductive == Spec => []IInv
<1>1. Init => IInv
  BY InitInv
<1>2. IInv /\ [Next]_vars => IInv'
  BY NextInv
<1>3. QED
  BY <1>1, <1>2, PTL DEF Spec

------------------------------------------------------------------------------
(* At most ResolveConcurrency lookups of a page are under way, before its   *)
(* answer and after it, and no slot is lost or released twice: for any      *)
(* number of pages, assets and slots (the semaphore of service.py:294).     *)
THEOREM FanOutIsBounded == Spec => []FanOutBounded
<1>1. IInv => FanOutBounded
  BY DEF IInv
<1>2. QED
  BY <1>1, Inductive, PTL

\* An item describes its own holding.
LEMMA ItemOk ==
    ASSUME NEW holding, NEW known
    PROVE  /\ Item(holding, known).asset = holding.asset
           /\ Item(holding, known).described = (holding.asset \in known)
BY DEF Item

\* A 200 lists every holding in order, each described exactly if its own
\* lookup succeeded (map_account_assets; asyncio.gather).
LEMMA PageIsWhole == IInv => WholePage
<1>1. SUFFICES ASSUME IInv, NEW r \in Pages, answer[r] # None, answer[r].status = 200
               PROVE  /\ DOMAIN answer[r].items = DOMAIN holdings[r]
                      /\ \A i \in DOMAIN holdings[r] :
                            LET a == holdings[r][i].asset
                            IN  /\ answer[r].items[i].asset = a
                                /\ answer[r].items[i].described <=>
                                      a \in Assets /\ lookup[r][a] = "resolved"
  BY DEF WholePage
<1>a. AnswerOf(r)
  BY <1>1 DEF IInv, Answered
<1>b. ~Failed(r)
  <2>1. ASSUME NEW status \in Int \ {200}, answer[r] = [status |-> status, items |-> <<>>]
        PROVE  FALSE
    <3>1. answer[r].status = status
      BY <2>1
    <3>2. QED
      BY <1>1, <3>1
  <2>2. QED
    BY <2>1 DEF Failed
<1>2. answer[r] = [status |-> 200, items |-> MapAccountAssets(holdings[r], Resolved(r))]
  BY <1>a, <1>b DEF AnswerOf, Served
<1>3. answer[r].items = [i \in DOMAIN holdings[r] |-> Item(holdings[r][i], Resolved(r))]
  BY <1>2 DEF MapAccountAssets
<1>4. ASSUME NEW i \in DOMAIN holdings[r]
      PROVE  /\ answer[r].items[i].asset = holdings[r][i].asset
             /\ answer[r].items[i].described = (holdings[r][i].asset \in Resolved(r))
  BY <1>3, ItemOk
<1>5. QED
  BY <1>3, <1>4 DEF Resolved

THEOREM PagesAreWhole == Spec => []WholePage
<1>1. IInv => WholePage
  BY PageIsWhole
<1>2. QED
  BY <1>1, Inductive, PTL

\* Once a page is listed, only an exception resolve_one does not name can fail
\* it.
LEMMA OnlyCrashesFail == IInv => FailureIsolated
<1>1. SUFFICES ASSUME IInv, NEW r \in Pages, \E a \in Assets : lookup[r][a] # "none",
                      answer[r] # None, answer[r].status # 200
               PROVE  \E a \in Assets : lookup[r][a] = "crashed"
  BY DEF FailureIsolated
<1>2. ~Untouched(r)
  BY <1>1 DEF Untouched
<1>3. ~Served(r)
  BY <1>1 DEF Served
<1>4. AnswerOf(r)
  BY <1>1 DEF IInv, Answered
<1>5. QED
  BY <1>2, <1>3, <1>4 DEF AnswerOf, Crashed

THEOREM FailuresAreIsolated == Spec => []FailureIsolated
<1>1. IInv => FailureIsolated
  BY OnlyCrashesFail
<1>2. QED
  BY <1>1, Inductive, PTL

\* What a page says of a holding: its amount, and with decimals exactly if they
\* are known.
LEMMA ItemExact ==
    ASSUME NEW holding, holding.asset \in Assets \cup {None}, holding.amount \in Nat,
           NEW known \in SUBSET Assets
    PROVE  LET item == Item(holding, known)
               told == item.described /\ Decimals[item.asset] # None
           IN  /\ item.value = holding.amount
               /\ told <=> item.valueDecimal # None
               /\ told => /\ Says(item.valueDecimal, item.value, Decimals[item.asset])
                          /\ Plain(item.valueDecimal)
<1> DEFINE item == Item(holding, known)
           told == item.described /\ Decimals[item.asset] # None
           exact == DecimalString(holding.amount, Decimals[holding.asset])
<1>1. /\ item.asset = holding.asset /\ item.value = holding.amount
      /\ item.described = (holding.asset \in known)
      /\ item.valueDecimal = IF told THEN exact ELSE None
  BY DEF Item
<1>2. ASSUME told
      PROVE  /\ exact # None
             /\ Says(exact, holding.amount, Decimals[holding.asset]) /\ Plain(exact)
  <2>1. holding.asset \in Assets /\ Decimals[holding.asset] # None
    BY <1>1, <1>2
  <2>2. Decimals[holding.asset] \in Nat /\ holding.amount \in Int
    BY <2>1, PageAssumption
  <2>3. /\ exact \in DecimalStrings
        /\ Says(exact, holding.amount, Decimals[holding.asset]) /\ Plain(exact)
    BY <2>2, DecimalStringIsExact
  <2>4. QED
    BY <2>3, PageAssumption
<1> HIDE DEF item, exact
<1>3. QED
  BY <1>1, <1>2 DEF item

LEMMA PageIsExact == IInv => AmountsAreExact
<1>1. SUFFICES ASSUME IInv, NEW r \in Pages, answer[r] # None, NEW i \in DOMAIN answer[r].items
               PROVE  LET item == answer[r].items[i]
                          known == item.described /\ Decimals[item.asset] # None
                      IN  /\ item.value = holdings[r][i].amount
                          /\ known <=> item.valueDecimal # None
                          /\ known => /\ Says(item.valueDecimal, item.value, Decimals[item.asset])
                                      /\ Plain(item.valueDecimal)
  BY DEF AmountsAreExact
<1>2. answer[r].items # <<>>
  BY <1>1
<1>3. ~Failed(r)
  <2>1. ASSUME NEW status \in Int \ {200}, answer[r] = [status |-> status, items |-> <<>>]
        PROVE  FALSE
    <3>1. answer[r].items = <<>>
      BY <2>1
    <3>2. QED
      BY <1>2, <3>1
  <2>2. QED
    BY <2>1 DEF Failed
<1>4. answer[r] = [status |-> 200, items |-> MapAccountAssets(holdings[r], Resolved(r))]
  BY <1>1, <1>3 DEF IInv, Answered, AnswerOf, Served
<1>5. answer[r].items = [j \in DOMAIN holdings[r] |-> Item(holdings[r][j], Resolved(r))]
  BY <1>4 DEF MapAccountAssets
<1>6. i \in DOMAIN holdings[r] /\ answer[r].items[i] = Item(holdings[r][i], Resolved(r))
  BY <1>1, <1>5
<1>7. holdings[r][i] \in [asset : Assets \cup {None}, amount : Nat]
  <2>1. holdings[r] \in Listings \cup {<<>>} /\ holdings[r] # <<>>
    BY <1>1, <1>6 DEF IInv, Typed
  <2>2. holdings[r] \in Seq([asset : Assets \cup {None}, amount : Nat])
    BY <2>1, PageAssumption
  <2>3. QED
    BY <1>6, <2>2, ElementIn
<1>8. Resolved(r) \in SUBSET Assets
  BY DEF Resolved
<1>9. holdings[r][i].asset \in Assets \cup {None} /\ holdings[r][i].amount \in Nat
  BY <1>7
<1>10. QED
  BY <1>6, <1>8, <1>9, ItemExact

\* Every amount of every page is written exactly, and with decimals exactly if
\* its asset's are known (map_account_assets, mapping.py:133-157).
THEOREM AmountsAlwaysExact == Spec => []AmountsAreExact
<1>1. IInv => AmountsAreExact
  BY PageIsExact
<1>2. QED
  BY <1>1, Inductive, PTL

\* The type invariant, items of the answers included.
LEMMA InvTypes == IInv => TypeOK
<1>1. SUFFICES ASSUME IInv PROVE TypeOK
  OBVIOUS
<1>2. Typed
  BY <1>1 DEF IInv
<1>3. ASSUME NEW r \in Pages, answer[r] # None, NEW i \in DOMAIN answer[r].items
      PROVE  answer[r].items[i].asset \in Assets \cup {None}
  <2>1. CASE answer[r].items = <<>>
    BY <1>3, <2>1
  <2>2. CASE answer[r].items = MapAccountAssets(holdings[r], Resolved(r))
    <3>1. i \in DOMAIN holdings[r] /\ answer[r].items[i].asset = holdings[r][i].asset
      BY <1>3, <2>2, ItemOk DEF MapAccountAssets
    <3>2. holdings[r] \in Listings \cup {<<>>}
      BY <1>2 DEF Typed
    <3>3. holdings[r] # <<>>
      BY <3>1
    <3>a. holdings[r] \in Listings
      BY <3>2, <3>3
    <3>4. holdings[r] \in Seq([asset : Assets \cup {None}, amount : Nat])
      BY <3>a, PageAssumption
    <3>5. holdings[r][i] \in [asset : Assets \cup {None}, amount : Nat]
      BY <3>1, <3>4, ElementIn
    <3>6. holdings[r][i].asset \in Assets \cup {None}
      BY <3>5
    <3>7. QED
      BY <3>1, <3>6
  <2>3. AnswerOf(r)
    BY <1>1, <1>3 DEF IInv, Answered
  <2>4. Served(r) => answer[r].items = MapAccountAssets(holdings[r], Resolved(r))
    BY DEF Served
  <2>5. Failed(r) => answer[r].items = <<>>
    BY DEF Failed
  <2>6. QED
    BY <2>1, <2>2, <2>3, <2>4, <2>5 DEF AnswerOf
<1>4. QED
  BY <1>2, <1>3 DEF TypeOK, Typed

THEOREM TypeCorrect == Spec => []TypeOK
<1>1. IInv => TypeOK
  BY InvTypes
<1>2. QED
  BY <1>1, Inductive, PTL

(***************************************************************************)
(* LedgerReplay: what is replayed.                                         *)
(***************************************************************************)
IsSequence(s) == \E S : s \in Seq(S)

LEMMA Appended ==
    ASSUME NEW s, IsSequence(s), NEW e
    PROVE  /\ IsSequence(Append(s, e)) /\ Len(s) \in Nat
           /\ DOMAIN s = 1 .. Len(s) /\ DOMAIN Append(s, e) = 1 .. Len(s) + 1
           /\ Len(Append(s, e)) = Len(s) + 1
           /\ \A i \in 1 .. Len(s) : Append(s, e)[i] = s[i]
           /\ Append(s, e)[Len(s) + 1] = e
<1>1. PICK S : s \in Seq(S)
  BY DEF IsSequence
<1> DEFINE T == S \cup {e}
<1>2. s \in Seq(T) /\ e \in T
  BY <1>1
<1> HIDE DEF T
<1>3. /\ Append(s, e) \in Seq(T) /\ Len(Append(s, e)) = Len(s) + 1
      /\ \A i \in 1 .. Len(s) : Append(s, e)[i] = s[i]
      /\ Append(s, e)[Len(s) + 1] = e
  BY <1>2, AppendProperties
<1>4. Len(s) \in Nat /\ DOMAIN s = 1 .. Len(s)
  BY <1>2
<1>5. DOMAIN Append(s, e) = 1 .. Len(Append(s, e))
  BY <1>3
<1>6. IsSequence(Append(s, e))
  BY <1>3 DEF IsSequence
<1>7. QED
  BY <1>3, <1>4, <1>5, <1>6

LEMMA NothingYet ==
    /\ IsSequence(<<>>) /\ Len(<<>>) = 0 /\ DOMAIN <<>> = {}
    /\ MapTransaction(<<>>) = <<>>
<1>1. <<>> \in Seq({}) /\ Len(<<>>) = 0 /\ DOMAIN <<>> = {}
  OBVIOUS
<1>2. MapTransaction(<<>>) = <<>>
  BY DEF MapTransaction
<1>3. QED
  BY <1>1, <1>2 DEF IsSequence

\* A transaction's listing is mapped as it grows, one transaction at a time.
LEMMA MapGrows ==
    ASSUME NEW txs, IsSequence(txs), NEW tx
    PROVE  /\ IsSequence(MapTransaction(txs)) /\ Len(MapTransaction(txs)) = Len(txs)
           /\ MapTransaction(Append(txs, tx)) = Append(MapTransaction(txs), Mapped(tx))
<1> DEFINE n == Len(txs)
           ms == MapTransaction(txs)
           T == {Mapped(txs[i]) : i \in 1 .. n}
<1>1. n \in Nat /\ DOMAIN txs = 1 .. n /\ DOMAIN Append(txs, tx) = 1 .. n + 1
  BY Appended
<1>2. ms = [i \in 1 .. n |-> Mapped(txs[i])]
  BY <1>1 DEF MapTransaction
<1>3. ms \in Seq(T) /\ Len(ms) = n
  <2>1. ms \in [1 .. n -> T]
    BY <1>2
  <2> HIDE DEF ms, T
  <2>2. QED
    BY <1>1, <2>1
<1>4. IsSequence(ms)
  BY <1>3 DEF IsSequence
<1>5. MapTransaction(Append(txs, tx)) = [i \in 1 .. n + 1 |-> Mapped(Append(txs, tx)[i])]
  BY <1>1 DEF MapTransaction
<1> DEFINE longer == Append(ms, Mapped(tx))
<1>6. /\ IsSequence(longer) /\ Len(longer) = n + 1 /\ DOMAIN longer = 1 .. n + 1
      /\ \A i \in 1 .. n : longer[i] = ms[i]
      /\ longer[n + 1] = Mapped(tx)
  BY <1>3, <1>4, Appended
<1>7. \A i \in 1 .. n + 1 : longer[i] = Mapped(Append(txs, tx)[i])
  <2>1. \A i \in 1 .. n : Append(txs, tx)[i] = txs[i] /\ ms[i] = Mapped(txs[i])
    BY <1>2, Appended
  <2>2. Append(txs, tx)[n + 1] = tx
    BY Appended
  <2> HIDE DEF longer, ms, n
  <2>3. \A i \in 1 .. n + 1 : i \in 1 .. n \/ i = n + 1
    BY <1>1
  <2>4. QED
    BY <1>6, <2>1, <2>2, <2>3
<1>8. longer = [i \in 1 .. n + 1 |-> longer[i]]
  <2>1. PICK S : longer \in Seq(S)
    BY <1>6 DEF IsSequence
  <2> HIDE DEF longer, n
  <2>2. longer = [i \in 1 .. Len(longer) |-> longer[i]]
    BY <2>1
  <2>3. QED
    BY <1>6, <2>2
<1> HIDE DEF longer, n, ms
<1>9. longer = [i \in 1 .. n + 1 |-> Mapped(Append(txs, tx)[i])]
  BY <1>7, <1>8
<1>10. QED
  BY <1>3, <1>4, <1>5, <1>9 DEF longer, n, ms

\* f replays the first n of ms, from kept on.
Replays(f, kept, ms, n) ==
    f = [i \in 0 .. n |-> IF i = 0 THEN kept ELSE Audited(f[i - 1], ms[i])]

\* There is such a replay: at the first length without one, the replay that is
\* one shorter could be continued.
LEMMA ReplayExists ==
    ASSUME NEW kept, NEW ms, NEW n \in Nat
    PROVE  \E f : Replays(f, kept, ms, n)
<1> DEFINE Bad == {k \in 0 .. n : ~\E f : Replays(f, kept, ms, k)}
<1>1. SUFFICES ASSUME Bad # {} PROVE FALSE
  OBVIOUS
<1>2. PICK k \in Bad : \A j \in Bad : k <= j
  <2>1. Bad \subseteq Nat
    OBVIOUS
  <2> HIDE DEF Bad
  <2>2. QED
    BY <1>1, <2>1, LeastNumber
<1>3. k # 0
  <2> DEFINE f == [i \in 0 .. 0 |-> kept]
  <2>1. Replays(f, kept, ms, 0)
    BY DEF Replays
  <2>2. QED
    BY <1>2, <2>1
<1>4. k - 1 \in 0 .. n /\ k \in 1 .. n /\ k \in Nat
  BY <1>3
<1>5. PICK f : Replays(f, kept, ms, k - 1)
  BY <1>2, <1>4
<1> DEFINE g == [i \in 0 .. k |-> IF i = k THEN Audited(f[k - 1], ms[k]) ELSE f[i]]
<1>6. ASSUME NEW i \in 0 .. k
      PROVE  g[i] = IF i = 0 THEN kept ELSE Audited(g[i - 1], ms[i])
  <2>1. CASE i = k
    <3>1. g[i] = Audited(f[k - 1], ms[k])
      BY <2>1
    <3>2. k - 1 \in 0 .. k /\ k - 1 # k
      BY <1>4
    <3>3. g[k - 1] = f[k - 1]
      BY <3>2
    <3> HIDE DEF g
    <3>4. QED
      BY <1>4, <2>1, <3>1, <3>3
  <2>2. CASE i # k
    <3>1. i \in 0 .. k - 1
      BY <1>4, <2>2
    <3>2. g[i] = f[i]
      BY <2>2
    <3>3. i # 0 => g[i - 1] = f[i - 1]
      <4>1. i # 0 => i - 1 \in 0 .. k /\ i - 1 # k
        BY <1>4, <3>1
      <4>2. QED
        BY <4>1
    <3>4. f[i] = IF i = 0 THEN kept ELSE Audited(f[i - 1], ms[i])
      BY <1>5, <3>1 DEF Replays
    <3> HIDE DEF g
    <3>5. QED
      BY <3>2, <3>3, <3>4
  <2>3. QED
    BY <2>1, <2>2
<1>7. g = [i \in 0 .. k |-> IF i = 0 THEN kept ELSE Audited(g[i - 1], ms[i])]
  BY <1>6
<1>8. Replays(g, kept, ms, k)
  BY <1>7 DEF Replays
<1>9. QED
  BY <1>2, <1>8

\* What has been replayed so far does not depend on what follows.
LEMMA ReplayUnique ==
    ASSUME NEW kept, NEW ms, NEW longer, NEW n \in Nat, NEW N \in Nat, n <= N,
           \A i \in 1 .. n : longer[i] = ms[i],
           NEW f, Replays(f, kept, ms, n), NEW g, Replays(g, kept, longer, N)
    PROVE  f[n] = g[n]
<1> DEFINE Bad == {k \in 0 .. n : f[k] # g[k]}
<1>1. SUFFICES ASSUME Bad # {} PROVE FALSE
  OBVIOUS
<1>2. PICK k \in Bad : \A j \in Bad : k <= j
  <2>1. Bad \subseteq Nat
    OBVIOUS
  <2> HIDE DEF Bad
  <2>2. QED
    BY <1>1, <2>1, LeastNumber
<1>3. k \in 0 .. n /\ k \in 0 .. N /\ f[k] # g[k]
  OBVIOUS
<1>4. f[k] = IF k = 0 THEN kept ELSE Audited(f[k - 1], ms[k])
  BY <1>3 DEF Replays
<1>5. g[k] = IF k = 0 THEN kept ELSE Audited(g[k - 1], longer[k])
  BY <1>3 DEF Replays
<1>6. k # 0
  BY <1>3, <1>4, <1>5
<1>7. k - 1 \in 0 .. n /\ ~(k <= k - 1) /\ k \in 1 .. n
  BY <1>3, <1>6
<1>8. f[k - 1] = g[k - 1]
  BY <1>2, <1>7
<1>9. QED
  BY <1>3, <1>4, <1>5, <1>6, <1>7, <1>8

LEMMA ReplayIs ==
    ASSUME NEW kept, NEW ms, NEW n \in Nat, Len(ms) = n
    PROVE  \E f : Replays(f, kept, ms, n) /\ Replay(kept, ms) = f[n]
<1> DEFINE Fold(f) == f = [i \in 0 .. Len(ms) |->
                              IF i = 0 THEN kept ELSE Audited(f[i - 1], ms[i])]
           after == CHOOSE f : Fold(f)
<1>1. Replay(kept, ms) = after[n]
  BY DEF Replay
<1>2. \E f : Fold(f)
  <2>1. PICK f : Replays(f, kept, ms, n)
    BY ReplayExists
  <2>2. Fold(f)
    BY <2>1 DEF Replays
  <2>3. QED
    BY <2>2
<1>3. Fold(after)
  BY <1>2
<1> HIDE DEF after
<1>4. Replays(after, kept, ms, n)
  BY <1>3 DEF Replays
<1>5. QED
  BY <1>1, <1>4

LEMMA ReplayNothing == ASSUME NEW kept PROVE Replay(kept, <<>>) = kept
<1>1. PICK f : Replays(f, kept, <<>>, 0) /\ Replay(kept, <<>>) = f[0]
  BY NothingYet, ReplayIs
<1>2. f[0] = kept
  BY <1>1 DEF Replays
<1>3. QED
  BY <1>1, <1>2

\* One more transaction, one more entry.
LEMMA ReplayGrows ==
    ASSUME NEW kept, NEW ms, IsSequence(ms), NEW m
    PROVE  Replay(kept, Append(ms, m)) = Audited(Replay(kept, ms), m)
<1> DEFINE n == Len(ms)
           longer == Append(ms, m)
<1>1. /\ n \in Nat /\ n + 1 \in Nat /\ n <= n + 1 /\ Len(longer) = n + 1
      /\ longer[n + 1] = m
      /\ \A i \in 1 .. n : longer[i] = ms[i]
  BY Appended
<1> HIDE DEF n, longer
<1>2. PICK f : Replays(f, kept, ms, n) /\ Replay(kept, ms) = f[n]
  BY <1>1, ReplayIs DEF n
<1>3. PICK g : Replays(g, kept, longer, n + 1) /\ Replay(kept, longer) = g[n + 1]
  BY <1>1, ReplayIs
<1>4. f[n] = g[n]
  BY <1>1, <1>2, <1>3, ReplayUnique
<1>5. g[n + 1] = Audited(g[n], longer[n + 1])
  <2>1. n + 1 \in 0 .. n + 1 /\ n + 1 # 0 /\ (n + 1) - 1 = n
    BY <1>1
  <2>2. g[n + 1] = IF n + 1 = 0 THEN kept ELSE Audited(g[(n + 1) - 1], longer[n + 1])
    BY <1>3, <2>1 DEF Replays
  <2>3. QED
    BY <2>1, <2>2
<1>6. QED
  BY <1>1, <1>2, <1>3, <1>4, <1>5 DEF longer

------------------------------------------------------------------------------
(* What mapping does to the values it is given.                            *)
Books == [Holdings -> Nat]

\* Books that leave rewards out may show a debt.
AnyBooks == [Holdings -> Int]

LEMMA NoneIsNoRecord ==
    /\ \A t \in Transfers : t # None
    /\ \A c \in Closes : c # None
    /\ \A d \in DeedsDone : d # None
BY LedgerAssumption

LEMMA UnitsOk ==
    /\ Algo \in Units /\ Algo # None /\ Algo # Absent
    /\ \A x \in Tokens : x \in Units /\ x # Algo /\ x # None /\ x # Absent
BY LedgerAssumption DEF Units

LEMMA NumbersOk == \A n \in Nat : n # None /\ n # Absent
BY LedgerAssumption, MappingAssumption

LEMMA AccountsOk == \A a \in Accounts : a # None /\ a # Zero /\ a # Absent /\ a # 0
BY LedgerAssumption

LEMMA HoldingsAre == \A a \in Accounts, u \in Units : <<a, u>> \in Holdings
BY DEF Holdings

\* A number survives being left out when it is zero.
LEMMA AmountRead ==
    ASSUME NEW n \in Nat, NEW how
    PROVE  OrZero(GetAmount(Amount(n, how))) = n /\ StrOf(GetAmount(Amount(n, how))) = n
<1>1. GetAmount(Amount(n, how)) = n
  BY NumbersOk DEF GetAmount, Amount
<1>2. QED
  BY <1>1, NumbersOk DEF OrZero, StrOf

\* An address survives being spelled as zero or left out when it is unset.
LEMMA UnsetRead ==
    ASSUME NEW x \in OptionalAccounts, NEW how
    PROVE  Clean(Get(Unset(x, how))) = x /\ (x # None => Unset(x, how) = x)
<1>1. CASE x = None
  BY <1>1, MappingAssumption DEF Clean, Get, Unset
<1>2. CASE x \in Accounts
  BY <1>2, AccountsOk DEF Clean, Get, Unset
<1>3. QED
  BY <1>1, <1>2 DEF OptionalAccounts

LEMMA PresentRead == ASSUME NEW x, x # Absent PROVE Get(x) = x
BY DEF Get

------------------------------------------------------------------------------
(* The books of an auditor: typed, and changed where money moves.          *)

LEMMA TakeFacts ==
    ASSUME NEW b \in Books, NEW a \in Accounts, NEW u \in Units, NEW n \in Nat,
           n <= b[<<a, u>>]
    PROVE  /\ Take(b, a, u, n) \in Books
           /\ Take(b, a, u, n)[<<a, u>>] = b[<<a, u>>] - n
           /\ \A p \in Holdings : p # <<a, u>> => Take(b, a, u, n)[p] = b[p]
<1>1. <<a, u>> \in Holdings /\ b[<<a, u>>] \in Nat
  BY HoldingsAre DEF Books
<1>2. b[<<a, u>>] - n \in Nat
  BY <1>1
<1>3. QED
  BY <1>1, <1>2 DEF Take, Books

\* A movement takes from one holding only.
LEMMA MoveFacts ==
    ASSUME NEW b \in Books, NEW from \in Accounts, NEW to \in Accounts, NEW u \in Units,
           NEW n \in Nat, n <= b[<<from, u>>]
    PROVE  /\ Move(b, from, to, u, n) \in Books
           /\ to # from => Move(b, from, to, u, n)[<<from, u>>] = b[<<from, u>>] - n
           /\ \A p \in Holdings : p # <<from, u>> => Move(b, from, to, u, n)[p] >= b[p]
<1> DEFINE taken == Take(b, from, u, n)
<1>1. /\ taken \in Books /\ taken[<<from, u>>] = b[<<from, u>>] - n
      /\ \A p \in Holdings : p # <<from, u>> => taken[p] = b[p]
  BY TakeFacts
<1>3. Move(b, from, to, u, n) = Give(taken, to, u, n)
  BY DEF Move
<1> HIDE DEF taken
<1>a. <<to, u>> \in Holdings /\ <<from, u>> \in Holdings
  BY HoldingsAre
<1>2. /\ Give(taken, to, u, n) \in Books
      /\ Give(taken, to, u, n)[<<to, u>>] = taken[<<to, u>>] + n
      /\ \A p \in Holdings : p # <<to, u>> => Give(taken, to, u, n)[p] = taken[p]
  <2>1. taken[<<to, u>>] + n \in Nat
    BY <1>1, <1>a DEF Books
  <2>2. QED
    BY <1>1, <1>a, <2>1 DEF Give, Books
<1>4. ASSUME NEW p \in Holdings, p # <<from, u>>
      PROVE  Give(taken, to, u, n)[p] >= b[p]
  <2>1. taken[p] = b[p] /\ b[p] \in Nat
    BY <1>1, <1>4 DEF Books
  <2>2. CASE p = <<to, u>>
    BY <1>2, <2>1, <2>2
  <2>3. CASE p # <<to, u>>
    BY <1>2, <2>1, <2>3
  <2>4. QED
    BY <2>2, <2>3
<1>5. to # from => Give(taken, to, u, n)[<<from, u>>] = b[<<from, u>>] - n
  BY <1>1, <1>2, <1>a
<1>6. QED
  BY <1>2, <1>3, <1>4, <1>5

\* Moving nothing changes nothing.
LEMMA NothingMoved ==
    ASSUME NEW b \in Books, NEW from \in Accounts, NEW to \in Accounts, NEW u \in Units
    PROVE  Move(b, from, to, u, 0) = b
<1>1. ASSUME NEW a \in Accounts
      PROVE  Take(b, a, u, 0) = b /\ Give(b, a, u, 0) = b
  <2>1. <<a, u>> \in Holdings /\ b[<<a, u>>] \in Nat
    BY HoldingsAre DEF Books
  <2>2. b[<<a, u>>] - 0 = b[<<a, u>>] /\ b[<<a, u>>] + 0 = b[<<a, u>>]
    BY <2>1
  <2>3. [b EXCEPT ![<<a, u>>] = b[<<a, u>>]] = b
    BY <2>1 DEF Books
  <2>4. Take(b, a, u, 0) = [b EXCEPT ![<<a, u>>] = b[<<a, u>>]]
    BY <2>2 DEF Take
  <2>5. Give(b, a, u, 0) = [b EXCEPT ![<<a, u>>] = b[<<a, u>>]]
    BY <2>2 DEF Give
  <2>6. QED
    BY <2>3, <2>4, <2>5
<1>2. QED
  BY <1>1 DEF Move

------------------------------------------------------------------------------
(* Books that leave the same rewards out differ by them, whatever is posted. *)
Claim == [Accounts -> Nat]

LEMMA CreditedIs ==
    ASSUME NEW b \in AnyBooks, NEW k \in Claim
    PROVE  /\ Credited(b, k) \in AnyBooks
           /\ b \in Books => Credited(b, k) \in Books
           /\ \A a \in Accounts, u \in Units :
                 Credited(b, k)[<<a, u>>] = IF u = Algo THEN b[<<a, u>>] + k[a] ELSE b[<<a, u>>]
<1>1. \A p \in Holdings : p[1] \in Accounts /\ k[p[1]] \in Nat /\ b[p] \in Int
  BY DEF Holdings, Claim, AnyBooks
<1>2. Credited(b, k) \in AnyBooks
  BY <1>1 DEF Credited, AnyBooks
<1>3. ASSUME b \in Books PROVE Credited(b, k) \in Books
  <2>1. \A p \in Holdings : b[p] \in Nat
    BY <1>3 DEF Books
  <2>2. QED
    BY <1>1, <2>1 DEF Credited, Books
<1>4. ASSUME NEW a \in Accounts, NEW u \in Units
      PROVE  Credited(b, k)[<<a, u>>] = IF u = Algo THEN b[<<a, u>>] + k[a] ELSE b[<<a, u>>]
  BY HoldingsAre DEF Credited
<1>5. QED
  BY <1>2, <1>3, <1>4

LEMMA CreditedTwice ==
    ASSUME NEW b \in AnyBooks, NEW k \in Claim, NEW l \in Claim, NEW m \in Claim,
           \A a \in Accounts : m[a] = k[a] + l[a]
    PROVE  Credited(b, m) = Credited(Credited(b, k), l)
<1>1. ASSUME NEW p \in Holdings
      PROVE  Credited(b, m)[p] = Credited(Credited(b, k), l)[p]
  <2>1. p[1] \in Accounts /\ b[p] \in Int /\ k[p[1]] \in Nat /\ l[p[1]] \in Nat
    BY DEF Holdings, Claim, AnyBooks
  <2>2. m[p[1]] = k[p[1]] + l[p[1]]
    BY <2>1
  <2>3. Credited(b, m)[p] = IF p[2] = Algo THEN b[p] + m[p[1]] ELSE b[p]
    BY DEF Credited
  <2>4. Credited(b, k)[p] = IF p[2] = Algo THEN b[p] + k[p[1]] ELSE b[p]
    BY DEF Credited
  <2>5. Credited(Credited(b, k), l)[p]
            = IF p[2] = Algo THEN Credited(b, k)[p] + l[p[1]] ELSE Credited(b, k)[p]
    BY DEF Credited
  <2>6. QED
    BY <2>1, <2>2, <2>3, <2>4, <2>5
<1>2. QED
  BY <1>1 DEF Credited

LEMMA ShiftTaken ==
    ASSUME NEW b \in AnyBooks, NEW k \in Claim, NEW a \in Accounts, NEW u \in Units, NEW n \in Int
    PROVE  /\ Take(b, a, u, n) \in AnyBooks /\ Give(b, a, u, n) \in AnyBooks
           /\ Take(Credited(b, k), a, u, n) = Credited(Take(b, a, u, n), k)
           /\ Give(Credited(b, k), a, u, n) = Credited(Give(b, a, u, n), k)
<1> DEFINE q == <<a, u>>
           c == Credited(b, k)
           taken == Take(b, a, u, n)
           given == Give(b, a, u, n)
<1>1. q \in Holdings /\ b[q] \in Int
  BY HoldingsAre DEF AnyBooks
<1>2. c \in AnyBooks
  BY CreditedIs
<1>3. b[q] - n \in Int /\ b[q] + n \in Int
  BY <1>1
<1>4. /\ taken \in AnyBooks /\ taken[q] = b[q] - n
      /\ \A p \in Holdings : p # q => taken[p] = b[p]
  BY <1>1, <1>3 DEF Take, AnyBooks
<1>5. /\ given \in AnyBooks /\ given[q] = b[q] + n
      /\ \A p \in Holdings : p # q => given[p] = b[p]
  BY <1>1, <1>3 DEF Give, AnyBooks
<1>6. \A p \in Holdings : c[p] = IF p[2] = Algo THEN b[p] + k[p[1]] ELSE b[p]
  BY DEF Credited
<1>7. /\ \A p \in Holdings : Credited(taken, k)[p] = IF p[2] = Algo THEN taken[p] + k[p[1]] ELSE taken[p]
      /\ \A p \in Holdings : Credited(given, k)[p] = IF p[2] = Algo THEN given[p] + k[p[1]] ELSE given[p]
  BY DEF Credited
<1>8. Credited(taken, k) \in AnyBooks /\ Credited(given, k) \in AnyBooks
  BY <1>4, <1>5, CreditedIs
<1>9. /\ Take(c, a, u, n) \in AnyBooks /\ Take(c, a, u, n)[q] = c[q] - n
      /\ \A p \in Holdings : p # q => Take(c, a, u, n)[p] = c[p]
  <2>1. c[q] \in Int /\ c[q] - n \in Int
    BY <1>1, <1>2 DEF AnyBooks
  <2> HIDE DEF c
  <2>2. QED
    BY <1>1, <1>2, <2>1 DEF Take, AnyBooks
<1>10. /\ Give(c, a, u, n) \in AnyBooks /\ Give(c, a, u, n)[q] = c[q] + n
       /\ \A p \in Holdings : p # q => Give(c, a, u, n)[p] = c[p]
  <2>1. c[q] \in Int /\ c[q] + n \in Int
    BY <1>1, <1>2 DEF AnyBooks
  <2> HIDE DEF c
  <2>2. QED
    BY <1>1, <1>2, <2>1 DEF Give, AnyBooks
<1> HIDE DEF c, taken, given, q
<1>11. ASSUME NEW p \in Holdings PROVE Take(c, a, u, n)[p] = Credited(taken, k)[p]
  <2>1. k[p[1]] \in Int /\ b[p] \in Int
    BY DEF Holdings, Claim, AnyBooks
  <2>2. CASE p = q
    BY <1>1, <1>4, <1>6, <1>7, <1>9, <2>1, <2>2
  <2>3. CASE p # q
    BY <1>4, <1>6, <1>7, <1>9, <2>3
  <2>4. QED
    BY <2>2, <2>3
<1>12. ASSUME NEW p \in Holdings PROVE Give(c, a, u, n)[p] = Credited(given, k)[p]
  <2>1. k[p[1]] \in Int /\ b[p] \in Int
    BY DEF Holdings, Claim, AnyBooks
  <2>2. CASE p = q
    BY <1>1, <1>5, <1>6, <1>7, <1>10, <2>1, <2>2
  <2>3. CASE p # q
    BY <1>5, <1>6, <1>7, <1>10, <2>3
  <2>4. QED
    BY <2>2, <2>3
<1>13. Take(c, a, u, n) = Credited(taken, k)
  BY <1>8, <1>9, <1>11 DEF AnyBooks
<1>14. Give(c, a, u, n) = Credited(given, k)
  BY <1>8, <1>10, <1>12 DEF AnyBooks
<1>15. QED
  BY <1>4, <1>5, <1>13, <1>14 DEF c, taken, given

LEMMA ShiftMoved ==
    ASSUME NEW b \in AnyBooks, NEW k \in Claim, NEW from \in Accounts, NEW to \in Accounts,
           NEW u \in Units, NEW n \in Int
    PROVE  /\ Move(b, from, to, u, n) \in AnyBooks
           /\ Move(Credited(b, k), from, to, u, n) = Credited(Move(b, from, to, u, n), k)
<1> DEFINE taken == Take(b, from, u, n)
<1>1. taken \in AnyBooks /\ Take(Credited(b, k), from, u, n) = Credited(taken, k)
  BY ShiftTaken
<1> HIDE DEF taken
<1>2. Give(taken, to, u, n) \in AnyBooks
      /\ Give(Credited(taken, k), to, u, n) = Credited(Give(taken, to, u, n), k)
  BY <1>1, ShiftTaken
<1>3. QED
  BY <1>1, <1>2 DEF Move, taken

\* A mapped transaction that can be posted.
Postable(m) ==
    /\ m.from \in Accounts /\ m.fee \in Int /\ m.value \in Int
    /\ m.transfer # None =>
          /\ m.transfer.from \in OptionalAccounts /\ m.transfer.to \in Accounts
          /\ m.transfer.asset \in Units /\ m.transfer.amount \in Int
    /\ m.close # None =>
          m.close.to \in Accounts /\ m.close.asset \in Units \cup {None} /\ m.close.amount \in Int

LEMMA ShiftPosted ==
    ASSUME NEW b \in AnyBooks, NEW k \in Claim, NEW m, Postable(m)
    PROVE  /\ Posted(b, m) \in AnyBooks
           /\ Posted(Credited(b, k), m) = Credited(Posted(b, m), k)
<1> DEFINE holder == IF m.transfer # None /\ m.transfer.from # None
                     THEN m.transfer.from ELSE m.from
           unit == IF m.close # None /\ m.close.asset # None THEN m.close.asset ELSE Algo
           MovedOn(paid) ==
               IF m.transfer # None
               THEN Move(paid, holder, m.transfer.to, m.transfer.asset, m.transfer.amount)
               ELSE IF m.to \in Accounts THEN Move(paid, m.from, m.to, Algo, m.value)
               ELSE paid
           ClosedOn(moved) ==
               IF m.close = None THEN moved
               ELSE Move(moved, holder, m.close.to, unit, m.close.amount)
           paid == Take(b, m.from, Algo, m.fee)
           moved == MovedOn(paid)
<1>1. \A c : Posted(c, m) = ClosedOn(MovedOn(Take(c, m.from, Algo, m.fee)))
  BY DEF Posted
<1>2. holder \in Accounts /\ unit \in Units
  BY UnitsOk DEF Postable, OptionalAccounts
<1>3. paid \in AnyBooks /\ Take(Credited(b, k), m.from, Algo, m.fee) = Credited(paid, k)
  BY ShiftTaken, UnitsOk DEF Postable
<1> HIDE DEF paid, holder, unit
<1>4. moved \in AnyBooks /\ MovedOn(Credited(paid, k)) = Credited(moved, k)
  <2>1. CASE m.transfer # None
    BY <1>2, <1>3, <2>1, ShiftMoved DEF Postable
  <2>2. CASE m.transfer = None /\ m.to \in Accounts
    BY <1>3, <2>2, ShiftMoved, UnitsOk DEF Postable
  <2>3. CASE m.transfer = None /\ m.to \notin Accounts
    BY <1>3, <2>3
  <2>4. QED
    BY <2>1, <2>2, <2>3
<1>5. ClosedOn(moved) \in AnyBooks /\ ClosedOn(Credited(moved, k)) = Credited(ClosedOn(moved), k)
  <2> HIDE DEF moved
  <2>1. CASE m.close = None
    BY <1>4, <2>1
  <2>2. CASE m.close # None
    BY <1>2, <1>4, <2>2, ShiftMoved DEF Postable
  <2>3. QED
    BY <2>1, <2>2
<1> HIDE DEF MovedOn, ClosedOn
<1>6. Posted(b, m) = ClosedOn(moved)
  BY <1>1 DEF moved, paid
<1>7. Posted(Credited(b, k), m) = ClosedOn(MovedOn(Credited(paid, k)))
  BY <1>1, <1>3
<1>8. QED
  BY <1>4, <1>5, <1>6, <1>7

------------------------------------------------------------------------------
(* What a deed is, what executing it does, and what is told of it.         *)
GoodDeed(d, b) ==
    /\ d.signer \in Accounts /\ d.source \in Accounts /\ d.receiver \in Accounts
    /\ d.unit \in Units /\ d.amount \in Nat /\ d.amount <= b[<<d.source, d.unit>>]
    /\ d.closeTo \in {None} \cup (Accounts \ {d.source})
    /\ d.rekeyTo \in OptionalAccounts
    /\ \/ d.type = "pay" /\ d.unit = Algo
       \/ d.type = "axfer" /\ d.unit \in Tokens
    /\ d.source # d.signer => d.type = "axfer" /\ d.closeTo = None

LEMMA DeedsAreGood ==
    ASSUME NEW b \in Books, NEW by \in Accounts, NEW source \in Accounts, NEW type, NEW unit,
           \/ type = "pay" /\ unit = Algo
           \/ type = "axfer" /\ unit \in Tokens,
           NEW d \in Deeds(type, by, source, unit), d.amount <= b[<<d.source, d.unit>>],
           source # by => type = "axfer" /\ d.closeTo = None
    PROVE  GoodDeed(d, b) /\ d.signer = by /\ d.source = source /\ d.unit = unit
<1>1. unit \in Units
  BY UnitsOk
<1>2. RekeyTargets \subseteq Accounts /\ Sums \subseteq Nat
  BY LedgerAssumption
<1>3. /\ d.type = type /\ d.signer = by /\ d.source = source /\ d.unit = unit
      /\ d.receiver \in Accounts /\ d.amount \in Sums
      /\ d.closeTo \in {None} \cup (Accounts \ {source})
      /\ d.rekeyTo \in {None} \cup RekeyTargets
  BY DEF Deeds, Optional
<1>4. QED
  BY <1>1, <1>2, <1>3 DEF GoodDeed, OptionalAccounts

LEMMA RestOk ==
    ASSUME NEW b \in Books, NEW d, GoodDeed(d, b)
    PROVE  LET moved == Move(b, d.source, d.receiver, d.unit, d.amount)
           IN  /\ moved \in Books
               /\ Rest(b, d) \in Nat /\ Rest(b, d) <= moved[<<d.source, d.unit>>]
               /\ d.closeTo # None /\ d.receiver # d.source =>
                     d.amount + Rest(b, d) = b[<<d.source, d.unit>>]
<1> DEFINE moved == Move(b, d.source, d.receiver, d.unit, d.amount)
           q == <<d.source, d.unit>>
<1>1. /\ d.source \in Accounts /\ d.unit \in Units /\ d.receiver \in Accounts
      /\ d.amount \in Nat /\ d.amount <= b[q]
  BY DEF GoodDeed
<1>2. moved \in Books /\ (d.receiver # d.source => moved[q] = b[q] - d.amount)
  BY <1>1, MoveFacts
<1>3. moved[q] \in Nat /\ b[q] \in Nat
  BY <1>1, <1>2, HoldingsAre DEF Books
<1>4. Rest(b, d) = IF d.closeTo = None THEN 0 ELSE moved[q]
  BY DEF Rest
<1> HIDE DEF moved, q
<1>5. d.closeTo # None /\ d.receiver # d.source => d.amount + Rest(b, d) = b[q]
  BY <1>1, <1>2, <1>3, <1>4
<1>6. Rest(b, d) \in Nat /\ Rest(b, d) <= moved[q]
  BY <1>3, <1>4
<1>7. QED
  BY <1>2, <1>5, <1>6 DEF moved, q

\* Executing a deed keeps every amount natural, and takes from its source only.
LEMMA ExecutedFacts ==
    ASSUME NEW b \in Books, NEW d, GoodDeed(d, b)
    PROVE  /\ Executed(b, d) \in Books
           /\ \A p \in Holdings :
                 p # <<d.source, d.unit>> => Executed(b, d)[p] >= b[p]
<1> DEFINE moved == Move(b, d.source, d.receiver, d.unit, d.amount)
           closed == Move(moved, d.source, d.closeTo, d.unit, Rest(b, d))
<1>1. moved \in Books /\ Rest(b, d) \in Nat /\ Rest(b, d) <= moved[<<d.source, d.unit>>]
  BY RestOk
<1>2. \A p \in Holdings : p # <<d.source, d.unit>> => moved[p] >= b[p]
  BY MoveFacts DEF GoodDeed
<1>3. CASE d.closeTo = None
  BY <1>1, <1>2, <1>3 DEF Executed
<1>4. CASE d.closeTo # None
  <2>1. d.closeTo \in Accounts /\ d.source \in Accounts /\ d.unit \in Units
    BY <1>4 DEF GoodDeed
  <2> HIDE DEF moved
  <2>2. /\ closed \in Books
        /\ \A p \in Holdings : p # <<d.source, d.unit>> => closed[p] >= moved[p]
    BY <1>1, <2>1, MoveFacts
  <2>3. Executed(b, d) = closed
    BY <1>4 DEF Executed, moved
  <2> HIDE DEF closed
  <2>4. ASSUME NEW p \in Holdings, p # <<d.source, d.unit>>
        PROVE  closed[p] >= b[p]
    <3>1. closed[p] \in Nat /\ moved[p] \in Nat /\ b[p] \in Nat
      BY <1>1, <2>2 DEF Books
    <3>2. closed[p] >= moved[p] /\ moved[p] >= b[p]
      BY <1>2, <2>2, <2>4
    <3>3. QED
      BY <3>1, <3>2
  <2>5. QED
    BY <2>2, <2>3, <2>4
<1>5. QED
  BY <1>3, <1>4

\* Everything a mapped transaction says of the deed it carries.
TransferOf(d) ==
    IF d.type = "pay" THEN None
    ELSE [asset |-> d.unit, from |-> IF d.source = d.signer THEN None ELSE d.source,
          to |-> d.receiver, amount |-> d.amount, closeTo |-> d.closeTo,
          isClawback |-> d.source # d.signer]

CloseOf(b, d) ==
    IF d.closeTo = None THEN None
    ELSE [closesAccount |-> d.type = "pay", to |-> d.closeTo, amount |-> Rest(b, d),
          valueTotal |-> d.amount + Rest(b, d),
          asset |-> IF d.type = "pay" THEN None ELSE d.unit]

Tells(m, b, d, fee) ==
    /\ m.from = d.signer /\ m.to = d.receiver /\ m.fee = fee
    /\ m.value = (IF d.type = "pay" THEN d.amount ELSE 0)
    /\ m.transfer = TransferOf(d) /\ m.close = CloseOf(b, d)
    /\ m.rekeyTo = d.rekeyTo
    /\ m.closesAccount = (d.type = "pay" /\ d.closeTo # None)
    /\ m.valueTotal \in Nat
    /\ d.closeTo # None => m.valueTotal = d.amount + Rest(b, d)

LEMMA TransferRecord ==
    ASSUME NEW b, NEW d, GoodDeed(d, b), d.type = "axfer"
    PROVE  TransferOf(d) \in Transfers /\ TransferOf(d) # None
<1>1. d.closeTo \in OptionalAccounts
  BY DEF GoodDeed, OptionalAccounts
<1>2. TransferOf(d) \in Transfers
  BY <1>1 DEF GoodDeed, TransferOf, Transfers, OptionalAccounts
<1>3. QED
  BY <1>2, NoneIsNoRecord

LEMMA CloseRecord ==
    ASSUME NEW b \in Books, NEW d, GoodDeed(d, b), d.closeTo # None
    PROVE  CloseOf(b, d) \in Closes /\ CloseOf(b, d) # None
<1>1. Rest(b, d) \in Nat /\ d.amount \in Nat /\ d.closeTo \in Accounts
  BY RestOk DEF GoodDeed
<1>2. d.amount + Rest(b, d) \in Nat
  BY <1>1
<1>3. (d.type = "pay") \in BOOLEAN
  OBVIOUS
<1>4. (IF d.type = "pay" THEN None ELSE d.unit) \in Tokens \cup {None}
  BY DEF GoodDeed
<1>5. CloseOf(b, d) \in Closes
  BY <1>1, <1>2, <1>3, <1>4 DEF CloseOf, Closes
<1>6. QED
  BY <1>5, NoneIsNoRecord

\* What is told of a deed can be posted.
LEMMA ToldPostable ==
    ASSUME NEW b \in Books, NEW d, GoodDeed(d, b), NEW fee \in Nat, NEW m, Tells(m, b, d, fee)
    PROVE  Postable(m)
<1>1. /\ m.from \in Accounts /\ m.fee \in Int /\ m.value \in Int
      /\ m.transfer = TransferOf(d) /\ m.close = CloseOf(b, d)
  BY DEF Tells, GoodDeed
<1>2. ASSUME m.transfer # None
      PROVE  /\ m.transfer.from \in OptionalAccounts /\ m.transfer.to \in Accounts
             /\ m.transfer.asset \in Units /\ m.transfer.amount \in Int
  <2>1. d.type = "axfer"
    BY <1>1, <1>2 DEF TransferOf, GoodDeed
  <2>2. TransferOf(d) \in Transfers
    BY <2>1, TransferRecord
  <2>3. QED
    BY <1>1, <2>2, UnitsOk DEF Transfers
<1>3. ASSUME m.close # None
      PROVE  m.close.to \in Accounts /\ m.close.asset \in Units \cup {None} /\ m.close.amount \in Int
  <2>1. d.closeTo # None
    BY <1>1, <1>3 DEF CloseOf
  <2>2. CloseOf(b, d) \in Closes
    BY <2>1, CloseRecord
  <2>3. QED
    BY <1>1, <2>2, UnitsOk DEF Closes
<1>4. QED
  BY <1>1, <1>2, <1>3 DEF Postable

------------------------------------------------------------------------------
(* What is mapped from a payload.                                          *)
MovementOf(d) ==
    Movement(d.receiver, IF d.type = "pay" THEN d.amount ELSE 0, TransferOf(d))

LEMMA IndexedIs ==
    ASSUME NEW b \in Books, NEW d, GoodDeed(d, b), NEW how \in Spellings, NEW depth, NEW rewards
    PROVE  LET tx == Indexed(b, d, depth, rewards, how)
               swept == Amount(Rest(b, d), how)
           IN  /\ tx.type = d.type /\ tx.sender = d.signer /\ tx.depth = depth
               /\ tx.rekeyTo = Unset(d.rekeyTo, how) /\ tx.fee = Amount(FeeAt(depth), how)
               /\ tx.detail.receiver = d.receiver
               /\ tx.detail.amount = Amount(d.amount, how)
               /\ tx.detail.closeTo = Unset(d.closeTo, how)
               /\ d.type = "axfer" => tx.detail.asset = d.unit /\ tx.detail.closeAmount = swept
               /\ tx.detail.sender = (IF d.source = d.signer THEN Absent ELSE d.source)
               /\ d.type = "pay" /\ how.closing = "top" =>
                     tx.detail.closeAmount = Absent /\ tx.closingAmount = swept
               /\ d.type = "pay" /\ how.closing = "detail" =>
                     tx.detail.closeAmount = swept /\ tx.closingAmount = Absent
               /\ d.type = "pay" /\ how.closing = "both" =>
                     tx.detail.closeAmount = swept /\ tx.closingAmount = swept
<1>1. d.type = "axfer" => d.unit # Algo
  BY UnitsOk DEF GoodDeed
<1>2. QED
  BY <1>1 DEF Indexed, Payload, Detail

LEMMA MovementRead ==
    ASSUME NEW b \in Books, NEW d, GoodDeed(d, b), NEW how \in Spellings, NEW depth, NEW rewards
    PROVE  ExtractMovement(d.type, Indexed(b, d, depth, rewards, how).detail) = MovementOf(d)
<1> DEFINE detail == Indexed(b, d, depth, rewards, how).detail
<1>1. /\ detail.receiver = d.receiver
      /\ detail.amount = Amount(d.amount, how)
      /\ detail.closeTo = Unset(d.closeTo, how)
      /\ d.type = "axfer" => detail.asset = d.unit
      /\ detail.sender = (IF d.source = d.signer THEN Absent ELSE d.source)
  BY IndexedIs
<1> HIDE DEF detail
<1>2. GetAmount(detail.amount) = d.amount /\ StrOf(GetAmount(detail.amount)) = d.amount
  BY <1>1, NumbersOk DEF GoodDeed, GetAmount, Amount, StrOf
<1>3. Clean(Get(detail.closeTo)) = d.closeTo
  <2>1. d.closeTo \in OptionalAccounts
    BY DEF GoodDeed, OptionalAccounts
  <2>2. QED
    BY <1>1, <2>1, UnsetRead
<1>4. OrNone(detail.sender) = IF d.source = d.signer THEN None ELSE d.source
  BY <1>1, AccountsOk DEF GoodDeed, OrNone
<1>5. Get(detail.receiver) = d.receiver
  BY <1>1, AccountsOk DEF GoodDeed, Get
<1>6. CASE d.type = "pay"
  <2>1. ExtractMovement(d.type, detail) =
            Movement(Get(detail.receiver), GetAmount(detail.amount), None)
    BY <1>6 DEF ExtractMovement
  <2>2. MovementOf(d) = Movement(d.receiver, d.amount, None)
    BY <1>6 DEF MovementOf, TransferOf
  <2>3. QED
    BY <1>2, <1>5, <2>1, <2>2 DEF detail
<1>7. CASE d.type = "axfer"
  <2>1. ExtractMovement(d.type, detail) =
            Movement(Get(detail.receiver), 0,
                     [asset |-> Get(detail.asset), from |-> OrNone(detail.sender),
                      to |-> Get(detail.receiver), amount |-> StrOf(GetAmount(detail.amount)),
                      closeTo |-> Clean(Get(detail.closeTo)),
                      isClawback |-> OrNone(detail.sender) # None])
    BY <1>7 DEF ExtractMovement
  <2>2. Get(detail.asset) = d.unit
    BY <1>1, <1>7, UnitsOk DEF GoodDeed, Get
  <2>3. (OrNone(detail.sender) # None) = (d.source # d.signer)
    BY <1>4, AccountsOk DEF GoodDeed
  <2>4. TransferOf(d) =
            [asset |-> d.unit, from |-> IF d.source = d.signer THEN None ELSE d.source,
             to |-> d.receiver, amount |-> d.amount, closeTo |-> d.closeTo,
             isClawback |-> d.source # d.signer]
    BY <1>7 DEF TransferOf
  <2>5. MovementOf(d) = Movement(d.receiver, 0, TransferOf(d))
    BY <1>7 DEF MovementOf
  <2>6. QED
    BY <1>2, <1>3, <1>4, <1>5, <2>1, <2>2, <2>3, <2>4, <2>5 DEF detail
<1>8. QED
  BY <1>6, <1>7 DEF GoodDeed

LEMMA CloseRead ==
    ASSUME NEW b \in Books, NEW d, GoodDeed(d, b), NEW how \in Spellings, NEW depth, NEW rewards
    PROVE  LET tx == Indexed(b, d, depth, rewards, how)
           IN  ExtractClose(tx.type, tx.detail, tx) = CloseOf(b, d)
<1> DEFINE tx == Indexed(b, d, depth, rewards, how)
           swept == Amount(Rest(b, d), how)
<1>1. /\ tx.type = d.type
      /\ tx.detail.amount = Amount(d.amount, how)
      /\ tx.detail.closeTo = Unset(d.closeTo, how)
      /\ d.type = "axfer" => tx.detail.asset = d.unit /\ tx.detail.closeAmount = swept
      /\ d.type = "pay" /\ how.closing = "top" =>
            tx.detail.closeAmount = Absent /\ tx.closingAmount = swept
      /\ d.type = "pay" /\ how.closing = "detail" =>
            tx.detail.closeAmount = swept /\ tx.closingAmount = Absent
      /\ d.type = "pay" /\ how.closing = "both" =>
            tx.detail.closeAmount = swept /\ tx.closingAmount = swept
  BY IndexedIs
<1> HIDE DEF tx
<1>2. OrZero(GetAmount(tx.detail.amount)) = d.amount
  BY <1>1, AmountRead DEF GoodDeed
<1>a. d.closeTo \in OptionalAccounts
  BY DEF GoodDeed, OptionalAccounts
<1>3. Clean(Get(tx.detail.closeTo)) = d.closeTo
  BY <1>1, <1>a, UnsetRead
<1>4. how.closing \in {"detail", "top", "both"}
  BY LedgerAssumption
<1>5. d.type \in {"pay", "axfer"}
  BY DEF GoodDeed
<1>6. CASE d.closeTo = None
  <2>1. ExtractClose(tx.type, tx.detail, tx) = None
    BY <1>3, <1>6 DEF ExtractClose
  <2>2. QED
    BY <1>6, <2>1 DEF CloseOf, tx
<1>7. CASE d.closeTo # None
  <2>1. OrZero(GetAmount(swept)) = Rest(b, d)
    BY RestOk, AmountRead
  <2>2. OrZero(GetAmount(Absent)) = 0
    BY NumbersOk DEF OrZero, GetAmount
  <2>a. swept = Absent => Rest(b, d) = 0
    BY <2>1, <2>2
  <2> HIDE DEF swept
  <2>3. tx.detail.closeTo = d.closeTo
    BY <1>1, <1>7, <1>a, UnsetRead
  <2>4. CloseAmount(tx.type, tx.detail, tx) = Rest(b, d)
    <3>1. CASE d.type = "axfer"
      BY <1>1, <2>1, <3>1 DEF CloseAmount
    <3>2. CASE d.type = "pay" /\ how.closing = "top"
      BY <1>1, <2>1, <3>2 DEF CloseAmount
    <3>3. CASE d.type = "pay" /\ how.closing = "detail"
      <4>1. CASE swept = Absent
        BY <1>1, <2>2, <2>a, <3>3, <4>1 DEF CloseAmount
      <4>2. CASE swept # Absent
        BY <1>1, <2>1, <3>3, <4>2 DEF CloseAmount
      <4>3. QED
        BY <4>1, <4>2
    <3>4. CASE d.type = "pay" /\ how.closing = "both"
      BY <1>1, <2>1, <3>4 DEF CloseAmount
    <3>5. QED
      BY <1>4, <1>5, <3>1, <3>2, <3>3, <3>4
  <2>5. (IF tx.type = "pay" THEN None ELSE Get(tx.detail.asset))
            = IF d.type = "pay" THEN None ELSE d.unit
    BY <1>1, <1>5, UnitsOk DEF GoodDeed, Get
  <2>6. ExtractClose(tx.type, tx.detail, tx) =
            [closesAccount |-> tx.type = "pay",
             to |-> tx.detail.closeTo,
             amount |-> CloseAmount(tx.type, tx.detail, tx),
             valueTotal |-> OrZero(GetAmount(tx.detail.amount))
                                + CloseAmount(tx.type, tx.detail, tx),
             asset |-> IF tx.type = "pay" THEN None ELSE Get(tx.detail.asset)]
    BY <1>1, <1>3, <1>5, <1>7 DEF ExtractClose
  <2>7. QED
    BY <1>1, <1>2, <1>7, <2>3, <2>4, <2>5, <2>6 DEF CloseOf, tx
<1>8. QED
  BY <1>6, <1>7

\* A mapped deed tells everything of it, however the indexer spelled it.
LEMMA DeedIsTold ==
    ASSUME NEW b \in Books, NEW d, GoodDeed(d, b), NEW how \in Spellings, NEW depth, NEW rewards,
           FeeAt(depth) \in Nat
    PROVE  Tells(Mapped(Indexed(b, d, depth, rewards, how)), b, d, FeeAt(depth))
<1> DEFINE tx == Indexed(b, d, depth, rewards, how)
           fee == FeeAt(depth)
           m == Mapped(tx)
           moved == MovementOf(d)
           close == CloseOf(b, d)
<1>1. ExtractMovement(tx.type, tx.detail) = moved
  <2>1. tx.type = d.type
    BY IndexedIs
  <2>2. QED
    BY <2>1, MovementRead
<1>2. ExtractClose(tx.type, tx.detail, tx) = close
  BY CloseRead
<1>3. Get(tx.sender) = d.signer /\ StrOf(GetAmount(tx.fee)) = fee /\ RekeyTo(tx) = d.rekeyTo
  <2>1. tx.sender = d.signer /\ tx.fee = Amount(fee, how)
        /\ tx.rekeyTo = Unset(d.rekeyTo, how)
    BY IndexedIs
  <2> HIDE DEF tx
  <2>2. Get(tx.sender) = d.signer
    BY <2>1, PresentRead, AccountsOk DEF GoodDeed
  <2>3. RekeyTo(tx) = d.rekeyTo
    BY <2>1, UnsetRead DEF RekeyTo, GoodDeed
  <2>4. QED
    BY <2>1, <2>2, <2>3, AmountRead
<1>4. /\ moved.to = d.receiver /\ moved.transfer = TransferOf(d)
      /\ moved.value = IF d.type = "pay" THEN d.amount ELSE 0
  BY DEF MovementOf, Movement
<1>5. moved.value \in Nat /\ OrZero(moved.value) = moved.value
  BY <1>4, NumbersOk DEF OrZero, GoodDeed
<1>6. /\ ClosesAccount(close) = (d.type = "pay" /\ d.closeTo # None)
      /\ close # None => close.valueTotal \in Nat
      /\ close = None <=> d.closeTo = None
      /\ d.closeTo # None => close.valueTotal = d.amount + Rest(b, d)
  <2>1. CASE d.closeTo = None
    BY <2>1 DEF CloseOf, ClosesAccount
  <2>2. CASE d.closeTo # None
    <3>1. close \in Closes /\ close # None
      BY <2>2, CloseRecord
    <3>2. close.closesAccount = (d.type = "pay") /\ close.valueTotal = d.amount + Rest(b, d)
      BY <2>2 DEF CloseOf
    <3>3. close.valueTotal \in Nat
      BY <3>1 DEF Closes
    <3>4. QED
      BY <2>2, <3>1, <3>2, <3>3 DEF ClosesAccount
  <2>3. QED
    BY <2>1, <2>2
<1> HIDE DEF tx, moved, close
<1>7. m = [from |-> Get(tx.sender),
           to |-> moved.to,
           value |-> OrZero(moved.value),
           close |-> close,
           closesAccount |-> ClosesAccount(close),
           valueTotal |-> IF close # None THEN close.valueTotal ELSE OrZero(moved.value),
           fee |-> StrOf(GetAmount(tx.fee)),
           rekeyTo |-> RekeyTo(tx),
           transfer |-> moved.transfer,
           depth |-> tx.depth]
  BY <1>1, <1>2 DEF Mapped
<1> HIDE DEF m
<1>8. /\ m.from = d.signer /\ m.to = d.receiver /\ m.fee = fee
      /\ m.value = (IF d.type = "pay" THEN d.amount ELSE 0)
      /\ m.transfer = TransferOf(d) /\ m.close = close /\ m.rekeyTo = d.rekeyTo
  BY <1>3, <1>4, <1>5, <1>7
<1>9. m.closesAccount = (d.type = "pay" /\ d.closeTo # None)
  BY <1>6, <1>7
<1>10. m.valueTotal \in Nat /\ (d.closeTo # None => m.valueTotal = d.amount + Rest(b, d))
  BY <1>5, <1>6, <1>7
<1>11. QED
  BY <1>8, <1>9, <1>10 DEF Tells, close, m, tx

\* A transaction that moves nothing tells of nothing but its fee and a rekeying.
Quiet(m, account, fee, rekeyTo) ==
    /\ m.from = account /\ m.fee = fee /\ m.value = 0 /\ m.valueTotal = 0
    /\ m.transfer = None /\ m.close = None /\ m.closesAccount = FALSE
    /\ m.rekeyTo = rekeyTo

LEMMA QuietIsTold ==
    ASSUME NEW type \in {"keyreg", "afrz", "acfg", "appl"}, NEW account \in Accounts,
           NEW asset, NEW app, NEW address, NEW depth, NEW rewards, NEW how,
           NEW rekeyTo \in OptionalAccounts, FeeAt(depth) \in Nat
    PROVE  Quiet(Mapped(Payload(type, account, rekeyTo, depth, rewards,
                                About(asset, app, address), Absent, how)),
                 account, FeeAt(depth), rekeyTo)
<1> DEFINE detail == About(asset, app, address)
           tx == Payload(type, account, rekeyTo, depth, rewards, detail, Absent, how)
           m == Mapped(tx)
           fee == FeeAt(depth)
<1>1. PICK to : ExtractMovement(type, detail) = Movement(to, 0, None)
  <2>1. CASE type = "keyreg"
    BY <2>1 DEF ExtractMovement
  <2>2. CASE type = "afrz"
    BY <2>2 DEF ExtractMovement
  <2>3. CASE type = "acfg"
    BY <2>3 DEF ExtractMovement
  <2>4. CASE type = "appl"
    BY <2>4 DEF ExtractMovement
  <2>5. QED
    BY <2>1, <2>2, <2>3, <2>4
<1>2. ExtractClose(type, detail, tx) = None
  BY DEF ExtractClose
<1>3. /\ tx.type = type /\ tx.detail = detail /\ tx.sender = account
      /\ tx.fee = Amount(fee, how) /\ tx.rekeyTo = Unset(rekeyTo, how)
  BY DEF Payload
<1> HIDE DEF tx, detail
<1>a. Get(tx.sender) = account /\ RekeyTo(tx) = rekeyTo /\ StrOf(GetAmount(tx.fee)) = fee
  <2>1. Get(tx.sender) = account
    BY <1>3, PresentRead, AccountsOk
  <2>2. RekeyTo(tx) = rekeyTo
    BY <1>3, UnsetRead DEF RekeyTo
  <2>3. QED
    BY <1>3, <2>1, <2>2, AmountRead
<1>4. OrZero(0) = 0
  BY NumbersOk DEF OrZero
<1>5. /\ Movement(to, 0, None).value = 0 /\ Movement(to, 0, None).transfer = None
      /\ Movement(to, 0, None).to = to
  BY DEF Movement
<1>6. ClosesAccount(None) = FALSE
  BY DEF ClosesAccount
<1>7. m = [from |-> account, to |-> to, value |-> 0, close |-> None, closesAccount |-> FALSE,
           valueTotal |-> 0, fee |-> fee, rekeyTo |-> rekeyTo, transfer |-> None,
           depth |-> tx.depth]
  BY <1>1, <1>2, <1>3, <1>a, <1>4, <1>5, <1>6 DEF Mapped
<1> HIDE DEF m
<1>8. Quiet(m, account, fee, rekeyTo)
  BY <1>7 DEF Quiet
<1>9. QED
  BY <1>8 DEF m, tx, detail

------------------------------------------------------------------------------
(* What an auditor makes of it.                                            *)
LEMMA QuietPosted ==
    ASSUME NEW b \in Books, NEW account \in Accounts, NEW fee \in Nat,
           fee <= b[<<account, Algo>>], NEW m, NEW rekeyTo, Quiet(m, account, fee, rekeyTo)
    PROVE  Posted(b, m) = Take(b, account, Algo, fee) /\ Postable(m)
<1> DEFINE paid == Take(b, account, Algo, fee)
<1>1. paid \in Books
  BY TakeFacts, UnitsOk
<1>2. /\ m.from = account /\ m.fee = fee /\ m.value = 0
      /\ m.transfer = None /\ m.close = None
  BY DEF Quiet
<1>3. Posted(b, m) =
          IF m.to \in Accounts THEN Move(paid, account, m.to, Algo, 0) ELSE paid
  BY <1>2 DEF Posted
<1> HIDE DEF paid
<1>4. m.to \in Accounts => Move(paid, account, m.to, Algo, 0) = paid
  BY <1>1, NothingMoved, UnitsOk
<1>5. Postable(m)
  BY <1>2 DEF Postable
<1>6. QED
  BY <1>3, <1>4, <1>5 DEF paid

LEMMA QuietResigned ==
    ASSUME NEW s, NEW m, NEW account, NEW fee, NEW rekeyTo, Quiet(m, account, fee, rekeyTo)
    PROVE  Resigned(s, m) = Rekeyed(s, account, rekeyTo)
BY DEF Quiet, Resigned

LEMMA DeedPosted ==
    ASSUME NEW c \in Books, NEW b \in Books, NEW d, GoodDeed(d, b), NEW fee \in Nat,
           b = Take(c, d.signer, Algo, fee), NEW m, Tells(m, b, d, fee)
    PROVE  Posted(c, m) = Executed(b, d)
<1> DEFINE holder == IF m.transfer # None /\ m.transfer.from # None
                     THEN m.transfer.from ELSE m.from
           moved == Move(b, d.source, d.receiver, d.unit, d.amount)
           told == IF m.transfer # None
                   THEN Move(b, holder, m.transfer.to, m.transfer.asset, m.transfer.amount)
                   ELSE IF m.to \in Accounts THEN Move(b, m.from, m.to, Algo, m.value)
                   ELSE b
           unit == IF m.close # None /\ m.close.asset # None THEN m.close.asset ELSE Algo
<1>1. /\ m.from = d.signer /\ m.to = d.receiver /\ m.fee = fee
      /\ m.value = (IF d.type = "pay" THEN d.amount ELSE 0)
      /\ m.transfer = TransferOf(d) /\ m.close = CloseOf(b, d)
  BY DEF Tells
<1>2. /\ d.signer \in Accounts /\ d.source \in Accounts /\ d.receiver \in Accounts
      /\ \/ d.type = "pay" /\ d.unit = Algo /\ d.source = d.signer
         \/ d.type = "axfer" /\ d.unit \in Tokens
  BY DEF GoodDeed
<1>3. holder = d.source
  <2>1. CASE d.type = "pay"
    BY <1>1, <1>2, <2>1 DEF TransferOf
  <2>2. CASE d.type = "axfer"
    <3>a. m.transfer # None
      BY <1>1, <2>2, TransferRecord
    <3>1. m.transfer.from = IF d.source = d.signer THEN None ELSE d.source
      BY <1>1, <2>2 DEF TransferOf
    <3>2. QED
      BY <1>1, <1>2, <3>1, <3>a, AccountsOk
  <2>3. QED
    BY <1>2, <2>1, <2>2
<1>4. told = moved
  <2>1. CASE d.type = "pay"
    <3>1. m.transfer = None /\ m.value = d.amount
      BY <1>1, <2>1 DEF TransferOf
    <3>2. QED
      BY <1>1, <1>2, <2>1, <3>1
  <2>2. CASE d.type = "axfer"
    <3>a. m.transfer # None
      BY <1>1, <2>2, TransferRecord
    <3>1. /\ m.transfer.to = d.receiver /\ m.transfer.asset = d.unit
          /\ m.transfer.amount = d.amount
      BY <1>1, <2>2 DEF TransferOf
    <3>2. QED
      BY <1>3, <3>1, <3>a
  <2>3. QED
    BY <1>2, <2>1, <2>2
<1>5. Posted(c, m) =
          IF m.close = None THEN told ELSE Move(told, holder, m.close.to, unit, m.close.amount)
  BY <1>1 DEF Posted
<1> HIDE DEF holder, told, unit
<1>6. CASE d.closeTo = None
  BY <1>1, <1>4, <1>5, <1>6 DEF CloseOf, Executed
<1>7. CASE d.closeTo # None
  <2>a. m.close # None
    BY <1>1, <1>7, CloseRecord
  <2>1. /\ m.close.to = d.closeTo /\ m.close.amount = Rest(b, d)
        /\ m.close.asset = IF d.type = "pay" THEN None ELSE d.unit
    BY <1>1, <1>7 DEF CloseOf
  <2>2. unit = d.unit
    BY <1>2, <2>1, <2>a, UnitsOk DEF unit
  <2>3. Executed(b, d) = Move(moved, d.source, d.closeTo, d.unit, Rest(b, d))
    BY <1>7 DEF Executed
  <2>4. QED
    BY <1>3, <1>4, <1>5, <2>1, <2>2, <2>3, <2>a
<1>8. QED
  BY <1>6, <1>7

\* An auditor who knew who signs knows it after the deed.
LEMMA DeedResigned ==
    ASSUME NEW b \in Books, NEW d, GoodDeed(d, b), NEW fee, NEW m, Tells(m, b, d, fee)
    PROVE  Resigned(signer, m) = SignersAfter(d)
<1> DEFINE rekeyed == Rekeyed(signer, d.signer, d.rekeyTo)
<1>1. m.from = d.signer /\ m.rekeyTo = d.rekeyTo /\ m.close = CloseOf(b, d)
  BY DEF Tells
<1>2. Resigned(signer, m) = IF m.close # None /\ m.close.closesAccount
                            THEN [rekeyed EXCEPT ![d.signer] = d.signer] ELSE rekeyed
  BY <1>1 DEF Resigned
<1>3. SignersAfter(d) = IF d.unit = Algo /\ d.closeTo # None
                        THEN [rekeyed EXCEPT ![d.source] = d.source] ELSE rekeyed
  BY DEF SignersAfter
<1>4. \/ d.type = "pay" /\ d.unit = Algo /\ d.source = d.signer
      \/ d.type = "axfer" /\ d.unit # Algo
  BY UnitsOk DEF GoodDeed
<1>5. (m.close # None /\ m.close.closesAccount) <=> (d.type = "pay" /\ d.closeTo # None)
  <2>1. CASE d.closeTo = None
    BY <1>1, <2>1 DEF CloseOf
  <2>2. CASE d.closeTo # None
    <3>1. m.close # None
      BY <1>1, <2>2, CloseRecord
    <3>2. m.close.closesAccount = (d.type = "pay")
      BY <1>1, <2>2 DEF CloseOf
    <3>3. QED
      BY <2>2, <3>1, <3>2
  <2>3. QED
    BY <2>1, <2>2
<1> HIDE DEF rekeyed
<1>6. CASE d.type = "pay" /\ d.closeTo # None
  BY <1>2, <1>3, <1>4, <1>5, <1>6
<1>7. CASE ~(d.type = "pay" /\ d.closeTo # None)
  BY <1>2, <1>3, <1>4, <1>5, <1>7
<1>8. QED
  BY <1>6, <1>7

LEMMA RekeyedTyped ==
    ASSUME NEW s \in [Accounts -> Accounts], NEW account \in Accounts,
           NEW rekeyTo \in OptionalAccounts
    PROVE  Rekeyed(s, account, rekeyTo) \in [Accounts -> Accounts]
<1>1. rekeyTo # None => rekeyTo \in Accounts
  BY DEF OptionalAccounts
<1>2. QED
  BY <1>1 DEF Rekeyed

LEMMA SignersTyped ==
    ASSUME NEW b, NEW d, GoodDeed(d, b), signer \in [Accounts -> Accounts]
    PROVE  SignersAfter(d) \in [Accounts -> Accounts]
<1>1. d.signer \in Accounts /\ d.source \in Accounts /\ d.rekeyTo \in OptionalAccounts
  BY DEF GoodDeed
<1>2. Rekeyed(signer, d.signer, d.rekeyTo) \in [Accounts -> Accounts]
  BY <1>1, RekeyedTyped
<1>3. QED
  BY <1>1, <1>2 DEF SignersAfter

------------------------------------------------------------------------------
(* The inductive invariant.                                                *)
Chain ==
    /\ balance \in Books /\ before \in Books /\ books \in AnyBooks
    /\ signer \in [Accounts -> Accounts] /\ signs \in [Accounts -> Accounts]
    /\ roles \in [Tokens -> [clawback : OptionalAccounts, freeze : OptionalAccounts]]
    /\ due \in Claim /\ unreported \in Claim
    /\ safe \subseteq Tokens /\ spelling \in Spellings
    /\ confirmed \in Nat /\ executed \in 0 .. MaxExecuted
    /\ IsSequence(pending)

\* What the auditor would know if it read the transaction under way: all but
\* the rewards.
Known == Replay(Kept(books, signs), MapTransaction(pending))

Followed ==
    \E b \in AnyBooks : Known = Kept(b, signer) /\ balance = Credited(b, unreported)

\* A role that was given up is given up for good.
GivenUp == \A x \in safe : roles[x].clawback = None

\* What each property says of one mapped transaction m, given what it did.
WellFormed(m) ==
    /\ m.from \in Accounts
    /\ {m.value, m.valueTotal, m.fee} \subseteq Nat
    /\ m.closesAccount \in BOOLEAN

NotSafe(m, promised) ==
    m.transfer # None /\ m.transfer.isClawback => m.transfer.asset \notin promised

ClosureTold(m, done) ==
    m.closesAccount <=> done # None /\ done.unit = Algo /\ done.closeTo # None

TotalTold(m, done) ==
    done # None /\ done.closeTo # None /\ done.receiver # done.source =>
        m.valueTotal = done.held

Entry(m, done, promised) ==
    WellFormed(m) /\ NotSafe(m, promised) /\ ClosureTold(m, done) /\ TotalTold(m, done)

TakesFrom(m, a, x) ==
    /\ m.transfer # None /\ m.transfer.asset = x
    /\ IF m.from = a THEN ~m.transfer.isClawback
       ELSE m.transfer.isClawback /\ m.transfer.from = a

\* ms tells the deeds did, which led from the holdings from to the holdings b.
Told(ms, did, from, b, promised) ==
    /\ IsSequence(ms) /\ IsSequence(did) /\ Len(ms) = Len(did)
    /\ \A i \in DOMAIN ms : Entry(ms[i], did[i], promised)
    /\ \A a \in Accounts, x \in Tokens :
          b[<<a, x>>] < from[<<a, x>>] => \E i \in DOMAIN ms : TakesFrom(ms[i], a, x)

Shown ==
    /\ pending # <<>> => Told(MapTransaction(pending), deeds, before, balance, safe)
    /\ view # None => Told(view, deeds, before, balance, safe)

LedgerInv == Chain /\ Followed /\ GivenUp /\ Shown

LEMMA ConstantsOk ==
    /\ Supply \in Books /\ Fee \in Nat /\ MaxTransactions \in Nat /\ MaxExecuted \in Nat
    /\ Issuer \in Accounts /\ FirstSigner \in [Accounts -> Accounts]
    /\ \A depth : FeeAt(depth) \in Nat
BY LedgerAssumption DEF Books, FeeAt

LEMMA NaturalBooks == \A b \in Books : b \in AnyBooks
BY DEF Books, AnyBooks

LEMMA NothingCredited == \A b \in Books : Credited(b, Nothing) = b
<1>1. SUFFICES ASSUME NEW b \in Books PROVE Credited(b, Nothing) = b
  OBVIOUS
<1>2. ASSUME NEW p \in Holdings PROVE (IF p[2] = Algo THEN b[p] + Nothing[p[1]] ELSE b[p]) = b[p]
  <2>1. p[1] \in Accounts /\ b[p] \in Nat
    BY DEF Holdings, Books
  <2>2. Nothing[p[1]] = 0
    BY <2>1 DEF Nothing
  <2>3. QED
    BY <2>1, <2>2
<1>3. b = [p \in Holdings |-> b[p]]
  BY DEF Books
<1>4. QED
  BY <1>2, <1>3 DEF Credited

LEMMA LedgerInitInv == LedgerInit => LedgerInv
<1>1. SUFFICES ASSUME LedgerInit PROVE LedgerInv
  OBVIOUS
<1>2. Chain
  <2>1. roles \in [Tokens -> [clawback : OptionalAccounts, freeze : OptionalAccounts]]
    BY <1>1, ConstantsOk DEF LedgerInit, Roles, OptionalAccounts
  <2>2. Nothing \in Claim
    BY DEF Nothing, Claim
  <2>3. /\ balance \in Books /\ before \in Books /\ books \in AnyBooks
        /\ signer \in [Accounts -> Accounts] /\ signs \in [Accounts -> Accounts]
    BY <1>1, ConstantsOk, NaturalBooks DEF LedgerInit
  <2>4. IsSequence(pending)
    BY <1>1, NothingYet DEF LedgerInit
  <2>5. confirmed \in Nat /\ executed \in 0 .. MaxExecuted
    BY <1>1, ConstantsOk DEF LedgerInit
  <2>6. QED
    BY <1>1, <2>1, <2>2, <2>3, <2>4, <2>5 DEF LedgerInit, Chain
<1>3. Followed
  <2>1. Known = Kept(books, signs)
    BY <1>1, NothingYet, ReplayNothing DEF LedgerInit, Known
  <2>2. books \in AnyBooks /\ balance = Credited(books, unreported) /\ signs = signer
    BY <1>1, ConstantsOk, NaturalBooks, NothingCredited DEF LedgerInit
  <2>3. QED
    BY <2>1, <2>2 DEF Followed
<1>4. GivenUp /\ Shown
  BY <1>1 DEF LedgerInit, GivenUp, Shown
<1>5. QED
  BY <1>2, <1>3, <1>4 DEF LedgerInv

------------------------------------------------------------------------------
(* One more transaction, told with those before.                           *)
LEMMA ToldNothing ==
    ASSUME NEW b \in Books, NEW promised
    PROVE  Told(<<>>, <<>>, b, b, promised)
<1>1. \A a \in Accounts, x \in Tokens : ~(b[<<a, x>>] < b[<<a, x>>])
  <2>1. SUFFICES ASSUME NEW a \in Accounts, NEW x \in Tokens PROVE ~(b[<<a, x>>] < b[<<a, x>>])
    OBVIOUS
  <2>2. b[<<a, x>>] \in Nat
    BY HoldingsAre, UnitsOk DEF Books
  <2>3. QED
    BY <2>2
<1>2. QED
  BY <1>1, NothingYet DEF Told

LEMMA ToldGrows ==
    ASSUME NEW ms, NEW did, NEW from \in Books, NEW b \in Books, NEW after \in Books,
           NEW promised, Told(ms, did, from, b, promised), NEW m, NEW done,
           Entry(m, done, promised),
           \A a \in Accounts, x \in Tokens :
               after[<<a, x>>] < b[<<a, x>>] => TakesFrom(m, a, x)
    PROVE  Told(Append(ms, m), Append(did, done), from, after, promised)
<1> DEFINE n == Len(ms)
           ms1 == Append(ms, m)
           did1 == Append(did, done)
<1>1. /\ IsSequence(ms) /\ IsSequence(did) /\ Len(did) = n
      /\ \A i \in DOMAIN ms : Entry(ms[i], did[i], promised)
      /\ \A a \in Accounts, x \in Tokens :
            b[<<a, x>>] < from[<<a, x>>] => \E i \in DOMAIN ms : TakesFrom(ms[i], a, x)
  BY DEF Told
<1>2. /\ IsSequence(ms1) /\ n \in Nat /\ DOMAIN ms = 1 .. n /\ DOMAIN ms1 = 1 .. n + 1
      /\ Len(ms1) = n + 1 /\ ms1[n + 1] = m /\ \A i \in 1 .. n : ms1[i] = ms[i]
  BY <1>1, Appended
<1>3. /\ IsSequence(did1) /\ Len(did1) = n + 1 /\ did1[n + 1] = done
      /\ \A i \in 1 .. n : did1[i] = did[i]
  BY <1>1, Appended
<1> HIDE DEF ms1, did1, n
<1>4. \A i \in 1 .. n + 1 : i \in 1 .. n \/ i = n + 1
  BY <1>2
<1>5. \A i \in DOMAIN ms1 : Entry(ms1[i], did1[i], promised)
  BY <1>1, <1>2, <1>3, <1>4
<1>6. ASSUME NEW a \in Accounts, NEW x \in Tokens, after[<<a, x>>] < from[<<a, x>>]
      PROVE  \E i \in DOMAIN ms1 : TakesFrom(ms1[i], a, x)
  <2>1. <<a, x>> \in Holdings
    BY HoldingsAre, UnitsOk
  <2>2. after[<<a, x>>] \in Nat /\ b[<<a, x>>] \in Nat /\ from[<<a, x>>] \in Nat
    BY <2>1 DEF Books
  <2>3. n + 1 \in DOMAIN ms1 /\ \A i \in 1 .. n : i \in DOMAIN ms1
    BY <1>2
  <2>4. CASE after[<<a, x>>] < b[<<a, x>>]
    <3>1. TakesFrom(ms1[n + 1], a, x)
      BY <1>2, <2>4
    <3>2. QED
      BY <2>3, <3>1
  <2>5. CASE b[<<a, x>>] < from[<<a, x>>]
    <3>1. PICK i \in 1 .. n : TakesFrom(ms[i], a, x)
      BY <1>1, <1>2, <2>5
    <3>2. TakesFrom(ms1[i], a, x) /\ i \in DOMAIN ms1
      BY <1>2, <2>3, <3>1
    <3>3. QED
      BY <3>2
  <2>6. after[<<a, x>>] < b[<<a, x>>] \/ b[<<a, x>>] < from[<<a, x>>]
    BY <1>6, <2>2
  <2>7. QED
    BY <2>4, <2>5, <2>6
<1>7. Told(ms1, did1, from, after, promised)
  BY <1>2, <1>3, <1>5, <1>6 DEF Told
<1>8. QED
  BY <1>7 DEF ms1, did1

\* Whose rewards are paid, and what is there to pay the fee from.
LEMMA FundsFacts ==
    ASSUME LedgerInv, NEW touched, NEW by \in Accounts, by \in touched, NEW depth,
           CanSend(by, depth)
    PROVE  LET c == Credited(balance, Claims(touched))
           IN  /\ Claims(touched) \in Claim
               /\ \A a \in Accounts : due[a] - Claims(touched)[a] \in Nat
               /\ c \in Books /\ FeeAt(depth) \in Nat /\ FeeAt(depth) <= c[<<by, Algo>>]
               /\ Funds(touched, by, depth) = Take(c, by, Algo, FeeAt(depth))
               /\ Funds(touched, by, depth) \in Books
               /\ \A a \in Accounts, x \in Tokens :
                     Funds(touched, by, depth)[<<a, x>>] = balance[<<a, x>>]
<1> DEFINE claims == Claims(touched)
           c == Credited(balance, claims)
           fee == FeeAt(depth)
           funds == Funds(touched, by, depth)
<1>1. balance \in Books /\ balance \in AnyBooks /\ due \in Claim /\ fee \in Nat
  BY ConstantsOk, NaturalBooks DEF LedgerInv, Chain
<1>2. \A a \in Accounts : claims[a] \in {0, due[a]} /\ due[a] \in Nat
  BY <1>1 DEF Claims, Claim
<1>3. claims \in Claim
  BY <1>1, <1>2 DEF Claims, Claim
<1>4. \A a \in Accounts : due[a] - claims[a] \in Nat
  <2>1. SUFFICES ASSUME NEW a \in Accounts PROVE due[a] - claims[a] \in Nat
    OBVIOUS
  <2>2. claims[a] \in {0, due[a]} /\ due[a] \in Nat
    BY <1>2
  <2> HIDE DEF claims
  <2>3. QED
    BY <2>2
<1>5. /\ c \in Books
      /\ \A a \in Accounts, u \in Units :
            c[<<a, u>>] = IF u = Algo THEN balance[<<a, u>>] + claims[a] ELSE balance[<<a, u>>]
  BY <1>1, <1>3, CreditedIs
<1>6. claims[by] = due[by]
  BY DEF Claims
<1>7. fee <= c[<<by, Algo>>]
  BY <1>5, <1>6, UnitsOk DEF CanSend
<1>8. funds = Take(c, by, Algo, fee)
  BY DEF Funds
<1> HIDE DEF c, claims, fee, funds
<1>9. funds \in Books /\ \A p \in Holdings : p # <<by, Algo>> => funds[p] = c[p]
  BY <1>1, <1>5, <1>7, <1>8, TakeFacts, UnitsOk
<1>10. ASSUME NEW a \in Accounts, NEW x \in Tokens PROVE funds[<<a, x>>] = balance[<<a, x>>]
  <2>1. <<a, x>> \in Holdings /\ <<a, x>> # <<by, Algo>> /\ x \in Units /\ x # Algo
    BY HoldingsAre, UnitsOk
  <2>2. QED
    BY <1>5, <1>9, <2>1
<1>11. QED
  BY <1>1, <1>3, <1>4, <1>5, <1>7, <1>8, <1>9, <1>10 DEF c, claims, fee, funds

\* A transaction that is told right, and that does what it tells.
LEMMA ExecuteKeeps ==
    ASSUME LedgerInv, NEW touched, NEW by \in Accounts, by \in touched, NEW depth,
           CanSend(by, depth), NEW after \in Books, NEW done, NEW payload,
           Execute(touched, after, done, payload),
           signer' \in [Accounts -> Accounts],
           roles' \in [Tokens -> [clawback : OptionalAccounts, freeze : OptionalAccounts]],
           \A x \in Tokens : roles[x].clawback = None => roles'[x].clawback = None,
           Postable(Mapped(payload)),
           Posted(Credited(balance, Claims(touched)), Mapped(payload)) = after,
           Resigned(signer, Mapped(payload)) = signer',
           Entry(Mapped(payload), done, safe),
           \A a \in Accounts, x \in Tokens :
               after[<<a, x>>] < balance[<<a, x>>] => TakesFrom(Mapped(payload), a, x)
    PROVE  LedgerInv'
<1> DEFINE m == Mapped(payload)
           ms == MapTransaction(pending)
           claims == Claims(touched)
<1>1. /\ executed' = executed + 1 /\ balance' = after
      /\ due' = [a \in Accounts |-> due[a] - claims[a]]
      /\ unreported' = [a \in Accounts |-> unreported[a] + claims[a]]
      /\ pending' = Append(pending, payload)
      /\ before' = (IF pending = <<>> THEN balance ELSE before)
      /\ deeds' = Append(IF pending = <<>> THEN <<>> ELSE deeds, done)
      /\ view' = None
      /\ UNCHANGED <<confirmed, books, signs, spelling, safe>>
  BY DEF Execute, auditorVars
<1>2. Chain /\ Followed /\ GivenUp /\ Shown
  BY DEF LedgerInv
<1>3. claims \in Claim /\ (\A a \in Accounts : due[a] - claims[a] \in Nat)
  BY FundsFacts
<1>4. IsSequence(pending') /\ IsSequence(ms) /\ MapTransaction(pending') = Append(ms, m)
  BY <1>1, <1>2, Appended, MapGrows DEF Chain
<1>5. unreported \in Claim /\ balance \in Books /\ before \in Books
  BY <1>2 DEF Chain
<1> HIDE DEF m, ms, claims
<1>6. unreported' \in Claim /\ due' \in Claim
  <2>1. \A a \in Accounts : unreported[a] + claims[a] \in Nat
    BY <1>3, <1>5 DEF Claim
  <2>2. QED
    BY <1>1, <1>3, <2>1 DEF Claim
<1>7. executed' \in 0 .. MaxExecuted
  BY <1>1, <1>2, ConstantsOk DEF CanSend, Chain
<1>8. Chain'
  <2>1. before' \in Books
    BY <1>1, <1>5
  <2>2. QED
    BY <1>1, <1>2, <1>4, <1>6, <1>7, <2>1 DEF Chain
<1>9. Followed'
  <2>1. PICK b \in AnyBooks : Known = Kept(b, signer) /\ balance = Credited(b, unreported)
    BY <1>2 DEF Followed
  <2>2. Known' = Audited(Known, m)
    <3>1. Known' = Replay(Kept(books, signs), Append(ms, m))
      BY <1>1, <1>4 DEF Known
    <3>2. Known = Replay(Kept(books, signs), ms)
      BY DEF Known, ms
    <3>3. QED
      BY <1>4, <3>1, <3>2, ReplayGrows
  <2>3. Audited(Kept(b, signer), m) = Kept(Posted(b, m), signer')
    BY DEF Audited, Kept, m
  <2>4. Credited(b, unreported') = Credited(balance, claims)
    <3>1. \A a \in Accounts : unreported'[a] = unreported[a] + claims[a]
      BY <1>1
    <3>2. QED
      BY <1>3, <1>5, <1>6, <2>1, <3>1, CreditedTwice
  <2>5. /\ Posted(b, m) \in AnyBooks
        /\ Posted(Credited(b, unreported'), m) = Credited(Posted(b, m), unreported')
    BY <1>6, ShiftPosted DEF m
  <2>6. balance' = Credited(Posted(b, m), unreported')
    BY <1>1, <2>4, <2>5 DEF m, claims
  <2>7. Known' = Kept(Posted(b, m), signer')
    BY <2>1, <2>2, <2>3
  <2>8. QED
    BY <2>5, <2>6, <2>7 DEF Followed
<1>10. GivenUp'
  <2>1. \A x \in safe : x \in Tokens
    BY <1>2 DEF Chain
  <2>2. QED
    BY <1>1, <1>2, <2>1 DEF GivenUp
<1>11. Shown'
  <2>1. Told(ms, IF pending = <<>> THEN <<>> ELSE deeds, before', balance, safe)
    <3>1. CASE pending = <<>>
      <4>1. ms = <<>> /\ before' = balance
        BY <1>1, <3>1, NothingYet DEF ms
      <4>2. QED
        BY <1>5, <3>1, <4>1, ToldNothing
    <3>2. CASE pending # <<>>
      BY <1>1, <1>2, <3>2 DEF Shown, ms
    <3>3. QED
      BY <3>1, <3>2
  <2>2. before' \in Books
    BY <1>1, <1>5
  <2>3. Told(Append(ms, m), deeds', before', after, safe)
    BY <1>1, <1>5, <2>1, <2>2, ToldGrows DEF m
  <2>4. QED
    BY <1>1, <1>4, <2>3 DEF Shown
<1>12. QED
  BY <1>8, <1>9, <1>10, <1>11 DEF LedgerInv

------------------------------------------------------------------------------
(* What a transaction shows.                                               *)
LEMMA QuietEntry ==
    ASSUME NEW m, NEW account \in Accounts, NEW fee \in Nat, NEW rekeyTo,
           Quiet(m, account, fee, rekeyTo), NEW promised
    PROVE  Entry(m, None, promised)
<1>1. /\ m.from = account /\ m.fee = fee /\ m.value = 0 /\ m.valueTotal = 0
      /\ m.transfer = None /\ m.closesAccount = FALSE
  BY DEF Quiet
<1>2. WellFormed(m)
  <2>1. {m.value, m.valueTotal, m.fee} \subseteq Nat
    BY <1>1
  <2>2. QED
    BY <1>1, <2>1 DEF WellFormed
<1>3. QED
  BY <1>1, <1>2 DEF Entry, NotSafe, ClosureTold, TotalTold

LEMMA DeedEntry ==
    ASSUME NEW b \in Books, NEW d, GoodDeed(d, b), NEW fee \in Nat, NEW m, Tells(m, b, d, fee),
           NEW promised, d.source # d.signer => d.unit \notin promised
    PROVE  /\ Entry(m, Done(b, d), promised)
           /\ d.unit \in Tokens => TakesFrom(m, d.source, d.unit)
<1>1. /\ m.from = d.signer /\ m.fee = fee /\ m.valueTotal \in Nat
      /\ m.value = (IF d.type = "pay" THEN d.amount ELSE 0)
      /\ m.transfer = TransferOf(d)
      /\ m.closesAccount = (d.type = "pay" /\ d.closeTo # None)
      /\ d.closeTo # None => m.valueTotal = d.amount + Rest(b, d)
  BY DEF Tells
<1>2. /\ d.signer \in Accounts /\ d.amount \in Nat
      /\ \/ d.type = "pay" /\ d.unit = Algo
         \/ d.type = "axfer" /\ d.unit # Algo
  BY UnitsOk DEF GoodDeed
<1>3. WellFormed(m)
  BY <1>1, <1>2 DEF WellFormed
<1>4. /\ Done(b, d).unit = d.unit /\ Done(b, d).source = d.source
      /\ Done(b, d).receiver = d.receiver /\ Done(b, d).closeTo = d.closeTo
      /\ Done(b, d).held = b[<<d.source, d.unit>>]
  BY DEF Done
<1>5. Done(b, d) # None
  <2>1. /\ d.unit \in Units /\ d.source \in Accounts /\ d.receiver \in Accounts
        /\ d.closeTo \in OptionalAccounts
    BY DEF GoodDeed, OptionalAccounts
  <2>2. b[<<d.source, d.unit>>] \in Nat
    BY <2>1, HoldingsAre DEF Books
  <2>3. Done(b, d) \in DeedsDone
    BY <2>1, <2>2 DEF Done, DeedsDone
  <2>4. QED
    BY <2>3, NoneIsNoRecord
<1>6. ClosureTold(m, Done(b, d))
  BY <1>1, <1>2, <1>4, <1>5 DEF ClosureTold
<1>7. TotalTold(m, Done(b, d))
  BY <1>1, <1>4, RestOk DEF TotalTold
<1>8. CASE d.type = "pay"
  <2>1. m.transfer = None
    BY <1>1, <1>8 DEF TransferOf
  <2>2. d.unit \notin Tokens
    BY <1>2, <1>8, UnitsOk
  <2>3. NotSafe(m, promised)
    BY <2>1 DEF NotSafe
  <2>4. QED
    BY <1>3, <1>6, <1>7, <2>2, <2>3 DEF Entry
<1>9. CASE d.type = "axfer"
  <2>1. m.transfer # None
    BY <1>1, <1>9, TransferRecord
  <2>2. /\ m.transfer.asset = d.unit
        /\ m.transfer.isClawback = (d.source # d.signer)
        /\ m.transfer.from = IF d.source = d.signer THEN None ELSE d.source
    BY <1>1, <1>9 DEF TransferOf
  <2>3. NotSafe(m, promised)
    BY <2>2 DEF NotSafe
  <2>4. TakesFrom(m, d.source, d.unit)
    BY <1>1, <2>1, <2>2 DEF TakesFrom
  <2>5. QED
    BY <1>3, <1>6, <1>7, <2>3, <2>4 DEF Entry
<1>10. QED
  BY <1>2, <1>8, <1>9

------------------------------------------------------------------------------
(* The steps.                                                              *)
LEMMA InvFacts ==
    ASSUME LedgerInv
    PROVE  /\ balance \in Books /\ signer \in [Accounts -> Accounts] /\ spelling \in Spellings
           /\ roles \in [Tokens -> [clawback : OptionalAccounts, freeze : OptionalAccounts]]
BY DEF LedgerInv, Chain

\* A transaction that moves nothing.
LEMMA QuietStep ==
    ASSUME LedgerInv, NEW type \in {"keyreg", "afrz", "acfg", "appl"}, NEW by \in Accounts,
           NEW depth, NEW asset, NEW app, NEW address,
           Quietly(type, by, depth, About(asset, app, address)),
           roles' \in [Tokens -> [clawback : OptionalAccounts, freeze : OptionalAccounts]],
           \A x \in Tokens : roles[x].clawback = None => roles'[x].clawback = None
    PROVE  LedgerInv'
<1> DEFINE touched == {by}
           c == Credited(balance, Claims(touched))
           fee == FeeAt(depth)
           funds == Funds(touched, by, depth)
<1>1. CanSend(by, depth)
  BY DEF Quietly
<1>2. PICK rekeyTo \in Optional(RekeyTargets) :
          /\ signer' = Rekeyed(signer, by, rekeyTo)
          /\ Execute(touched, funds, None,
                     Payload(type, by, rekeyTo, depth, Claims(touched),
                             About(asset, app, address), Absent, spelling))
  BY DEF Quietly
<1> DEFINE payload == Payload(type, by, rekeyTo, depth, Claims(touched),
                              About(asset, app, address), Absent, spelling)
           m == Mapped(payload)
<1>3. by \in touched
  OBVIOUS
<1> HIDE DEF touched
<1>4. /\ c \in Books /\ fee \in Nat /\ fee <= c[<<by, Algo>>]
      /\ funds = Take(c, by, Algo, fee) /\ funds \in Books
      /\ \A a \in Accounts, x \in Tokens : funds[<<a, x>>] = balance[<<a, x>>]
  BY <1>1, <1>3, FundsFacts
<1>5. rekeyTo \in OptionalAccounts
  BY LedgerAssumption DEF Optional, OptionalAccounts
<1>6. Quiet(m, by, fee, rekeyTo)
  BY <1>4, <1>5, QuietIsTold
<1> HIDE DEF m
<1>7. Posted(c, m) = funds /\ Postable(m)
  BY <1>4, <1>6, QuietPosted
<1>8. Resigned(signer, m) = signer'
  BY <1>2, <1>6, QuietResigned
<1>9. signer' \in [Accounts -> Accounts]
  BY <1>2, <1>5, InvFacts, RekeyedTyped
<1>10. Entry(m, None, safe)
  BY <1>4, <1>6, QuietEntry
<1>11. \A a \in Accounts, x \in Tokens : ~(funds[<<a, x>>] < balance[<<a, x>>])
  <2>1. SUFFICES ASSUME NEW a \in Accounts, NEW x \in Tokens
                 PROVE  ~(funds[<<a, x>>] < balance[<<a, x>>])
    OBVIOUS
  <2>2. balance[<<a, x>>] \in Nat /\ funds[<<a, x>>] = balance[<<a, x>>]
    BY <1>4, InvFacts, HoldingsAre, UnitsOk DEF Books
  <2>3. QED
    BY <2>2
<1> HIDE DEF c, fee, funds, payload
<1>12. Execute(touched, funds, None, payload)
  BY <1>2 DEF payload
<1>13. QED
  BY <1>1, <1>3, <1>4, <1>7, <1>8, <1>9, <1>10, <1>11, <1>12, ExecuteKeeps DEF c, m

\* A transaction that carries a deed.
LEMMA DeedStep ==
    ASSUME LedgerInv, NEW d, NEW depth, NEW by \in Accounts, NEW source \in Accounts,
           NEW type, NEW unit,
           \/ type = "pay" /\ unit = Algo
           \/ type = "axfer" /\ unit \in Tokens,
           d \in Deeds(type, by, source, unit),
           source # by => type = "axfer" /\ d.closeTo = None /\ unit \notin safe,
           Do(d, depth), roles' = roles
    PROVE  LedgerInv'
<1> DEFINE touched == Touched(d)
           c == Credited(balance, Claims(touched))
           fee == FeeAt(depth)
           b == Funds(touched, d.signer, depth)
           payload == Indexed(b, d, depth, Claims(touched), spelling)
           m == Mapped(payload)
           after == Executed(b, d)
<1>1. /\ CanSend(d.signer, depth) /\ d.amount <= b[<<d.source, d.unit>>]
      /\ signer' = SignersAfter(d) /\ Execute(touched, after, Done(b, d), payload)
  BY DEF Do
<1>2. d.signer = by /\ d.source = source /\ d.unit = unit /\ by \in touched
  BY DEF Deeds, Touched
<1> HIDE DEF touched
<1>3. /\ c \in Books /\ fee \in Nat /\ fee <= c[<<by, Algo>>]
      /\ b = Take(c, by, Algo, fee) /\ b \in Books
      /\ \A a \in Accounts, x \in Tokens : b[<<a, x>>] = balance[<<a, x>>]
  BY <1>1, <1>2, FundsFacts
<1> HIDE DEF b, c
<1>4. GoodDeed(d, b)
  BY <1>1, <1>2, <1>3, DeedsAreGood
<1>5. Tells(m, b, d, fee)
  BY <1>3, <1>4, DeedIsTold, InvFacts
<1> HIDE DEF m, payload, fee
<1>6. Posted(c, m) = after
  BY <1>2, <1>3, <1>4, <1>5, DeedPosted
<1>7. Postable(m)
  BY <1>3, <1>4, <1>5, ToldPostable
<1>8. Resigned(signer, m) = signer'
  BY <1>1, <1>3, <1>4, <1>5, DeedResigned
<1>9. signer' \in [Accounts -> Accounts]
  BY <1>1, <1>4, InvFacts, SignersTyped
<1>10. Entry(m, Done(b, d), safe) /\ (d.unit \in Tokens => TakesFrom(m, d.source, d.unit))
  BY <1>2, <1>3, <1>4, <1>5, DeedEntry
<1>11. after \in Books
       /\ \A p \in Holdings : p # <<d.source, d.unit>> => after[p] >= b[p]
  BY <1>3, <1>4, ExecutedFacts
<1> HIDE DEF after
<1>12. ASSUME NEW a \in Accounts, NEW x \in Tokens, after[<<a, x>>] < balance[<<a, x>>]
       PROVE  TakesFrom(m, a, x)
  <2>1. <<a, x>> \in Holdings
    BY HoldingsAre, UnitsOk
  <2>2. after[<<a, x>>] \in Nat /\ b[<<a, x>>] \in Nat /\ b[<<a, x>>] = balance[<<a, x>>]
    BY <1>3, <1>11, <2>1 DEF Books
  <2>3. <<a, x>> = <<d.source, d.unit>>
    BY <1>11, <1>12, <2>1, <2>2
  <2>4. QED
    BY <1>10, <2>3
<1>13. QED
  BY <1>1, <1>2, <1>3, <1>6, <1>7, <1>8, <1>9, <1>10, <1>11, <1>12, InvFacts, ExecuteKeeps
     DEF c, m

LEMMA OtherInv ==
    ASSUME LedgerInv, NEW account \in Accounts, NEW depth, Other(account, depth)
    PROVE  LedgerInv'
BY QuietStep, InvFacts DEF Other

LEMMA CallInv ==
    ASSUME LedgerInv, NEW account \in Accounts, NEW depth, Call(account, depth)
    PROVE  LedgerInv'
BY QuietStep, InvFacts DEF Call

LEMMA FreezeInv ==
    ASSUME LedgerInv, NEW asset \in Tokens, NEW holder \in Accounts, NEW depth,
           Freeze(asset, holder, depth)
    PROVE  LedgerInv'
<1> DEFINE by == roles[asset].freeze
<1>1. by \in Accounts
  BY InvFacts DEF Freeze, OptionalAccounts
<1>2. Quietly("afrz", by, depth, About(asset, Absent, holder)) /\ roles' = roles
  BY DEF Freeze
<1> HIDE DEF by
<1>3. QED
  BY <1>1, <1>2, QuietStep, InvFacts

LEMMA ReconfigureInv ==
    ASSUME LedgerInv, NEW asset \in Tokens, NEW clawback \in OptionalAccounts,
           NEW freeze \in OptionalAccounts, NEW depth,
           Reconfigure(asset, clawback, freeze, depth)
    PROVE  LedgerInv'
<1>1. /\ roles[asset].clawback = None => clawback = None
      /\ roles' = [roles EXCEPT ![asset] = Roles(clawback, freeze)]
      /\ Quietly("acfg", Issuer, depth, About(asset, Absent, Absent))
  BY DEF Reconfigure
<1>2. Roles(clawback, freeze) \in [clawback : OptionalAccounts, freeze : OptionalAccounts]
      /\ Roles(clawback, freeze).clawback = clawback
  BY DEF Roles
<1>3. /\ roles' \in [Tokens -> [clawback : OptionalAccounts, freeze : OptionalAccounts]]
      /\ roles'[asset] = Roles(clawback, freeze)
      /\ \A x \in Tokens : x # asset => roles'[x] = roles[x]
  BY <1>1, <1>2, InvFacts
<1>4. \A x \in Tokens : roles[x].clawback = None => roles'[x].clawback = None
  BY <1>1, <1>2, <1>3
<1>5. QED
  BY <1>1, <1>3, <1>4, ConstantsOk, QuietStep

LEMMA PayInv ==
    ASSUME LedgerInv, NEW account \in Accounts, NEW depth, Pay(account, depth)
    PROVE  LedgerInv'
<1>1. PICK d \in Deeds("pay", account, account, Algo) : Do(d, depth)
  BY DEF Pay
<1>2. roles' = roles
  BY <1>1 DEF Do
<1>3. QED
  BY <1>1, <1>2, DeedStep

LEMMA TransferInv ==
    ASSUME LedgerInv, NEW account \in Accounts, NEW asset \in Tokens, NEW depth,
           Transfer(account, asset, depth)
    PROVE  LedgerInv'
<1>1. PICK d \in Deeds("axfer", account, account, asset) : Do(d, depth)
  BY DEF Transfer
<1>2. roles' = roles
  BY <1>1 DEF Do
<1>3. QED
  BY <1>1, <1>2, DeedStep

LEMMA ClawBackInv ==
    ASSUME LedgerInv, NEW holder \in Accounts, NEW asset \in Tokens, NEW depth,
           ClawBack(holder, asset, depth)
    PROVE  LedgerInv'
<1> DEFINE by == roles[asset].clawback
<1>1. by \in Accounts /\ by # None
  BY InvFacts DEF ClawBack, OptionalAccounts
<1>2. PICK d \in Deeds("axfer", by, holder, asset) : d.closeTo = None /\ Do(d, depth)
  BY DEF ClawBack
<1>3. roles' = roles
  BY <1>2 DEF Do
<1>4. asset \notin safe
  BY <1>1 DEF LedgerInv, GivenUp
<1> HIDE DEF by
<1>5. QED
  BY <1>1, <1>2, <1>3, <1>4, DeedStep

\* A block is written and read.
LEMMA ViewConfirmed == Confirm => view' = MapTransaction(pending)
<1>1. SUFFICES ASSUME Confirm PROVE view' = MapTransaction(pending)
  OBVIOUS
<1> DEFINE txs == <<pending>>
<1>2. BlockOf(pending).transactions = txs
  BY DEF BlockOf
<1>3. 1 \in DOMAIN txs /\ txs[1] = pending
  OBVIOUS
<1> HIDE DEF txs
<1>4. MapBlock(BlockOf(pending), TRUE).transactions = [i \in DOMAIN txs |-> MapTransaction(txs[i])]
  BY <1>2 DEF MapBlock
<1>5. MapBlock(BlockOf(pending), TRUE).transactions[1] = MapTransaction(pending)
  BY <1>3, <1>4
<1>6. view' = MapBlock(BlockOf(pending), TRUE).transactions[1]
  BY <1>1 DEF Confirm
<1>7. QED
  BY <1>5, <1>6

LEMMA ConfirmInv == ASSUME LedgerInv, Confirm PROVE LedgerInv'
<1>1. /\ pending # <<>> /\ pending' = <<>> /\ confirmed' = confirmed + 1
      /\ UNCHANGED <<balance, signer, roles, executed, before, deeds, unreported, spelling, safe>>
  BY DEF Confirm
<1>2. Chain /\ Followed /\ GivenUp /\ Shown
  BY DEF LedgerInv
<1>3. view' = MapTransaction(pending)
  BY ViewConfirmed
<1>4. PICK b \in AnyBooks : Known = Kept(b, signer) /\ balance = Credited(b, unreported)
  BY <1>2 DEF Followed
<1>5. books' = b /\ signs' = signer
  <2>1. books' = Known.books /\ signs' = Known.signs
    BY <1>3 DEF Confirm, Known
  <2>2. QED
    BY <1>4, <2>1 DEF Kept
<1>6. due' \in Claim
  <2>1. PICK rewards \in Rewards : due' = [a \in Accounts |-> due[a] + rewards[a]]
    BY DEF Confirm
  <2>2. rewards \in Claim /\ due \in Claim
    BY <1>2, LedgerAssumption DEF Claim, Chain
  <2>3. \A a \in Accounts : due[a] + rewards[a] \in Nat
    BY <2>2 DEF Claim
  <2>4. QED
    BY <2>1, <2>3 DEF Claim
<1>7. Chain'
  <2>1. IsSequence(pending')
    BY <1>1, NothingYet
  <2>2. QED
    BY <1>1, <1>2, <1>5, <1>6, <2>1 DEF Chain
<1>8. Followed'
  <2>1. Known' = Kept(b, signer)
    BY <1>1, <1>5, NothingYet, ReplayNothing DEF Known
  <2>2. QED
    BY <1>1, <1>4, <2>1 DEF Followed
<1>9. GivenUp'
  BY <1>1, <1>2 DEF GivenUp
<1>10. Shown'
  BY <1>1, <1>2, <1>3 DEF Shown
<1>11. QED
  BY <1>7, <1>8, <1>9, <1>10 DEF LedgerInv

\* What an explorer says of a token, and what it is safe to conclude.
LEMMA TokenTold ==
    ASSUME LedgerInv, NEW x \in Tokens
    PROVE  /\ TokenObject(x).clawbackEnabled <=> roles[x].clawback # None
           /\ TokenObject(x).roles.clawback = roles[x].clawback
           /\ roles[x].clawback \in OptionalAccounts
<1> DEFINE params == AssetParams(x, spelling)
<1>1. roles[x].clawback \in OptionalAccounts
  BY InvFacts
<1>2. params.clawback = Unset(roles[x].clawback, spelling)
  BY DEF AssetParams, Roles
<1> HIDE DEF params
<1>3. Clean(Get(params.clawback)) = roles[x].clawback
  BY <1>1, <1>2, UnsetRead
<1>4. Enabled(params).clawback = (roles[x].clawback # None)
  BY <1>3 DEF Enabled
<1>5. /\ MapAsset(params).clawbackEnabled = Enabled(params).clawback
      /\ MapAsset(params).roles.clawback = Clean(Get(params.clawback))
  BY DEF MapAsset
<1>6. TokenObject(x) = MapAsset(params)
  BY DEF TokenObject, params
<1>7. QED
  BY <1>1, <1>3, <1>4, <1>5, <1>6

LEMMA ReadTokenInv ==
    ASSUME LedgerInv, NEW asset \in Tokens, ReadToken(asset)
    PROVE  LedgerInv'
<1>1. /\ safe' = safe \cup {x \in {asset} : ~TokenObject(x).clawbackEnabled}
      /\ pending = <<>> /\ view' = None
      /\ UNCHANGED <<chainVars, auditorVars, spelling>>
  BY DEF ReadToken
<1>2. Chain /\ Followed /\ GivenUp
  BY DEF LedgerInv
<1>3. Chain'
  BY <1>1, <1>2 DEF Chain, chainVars, auditorVars
<1>4. Followed'
  BY <1>1, <1>2 DEF Followed, Known, chainVars, auditorVars
<1>5. GivenUp'
  <2>1. roles' = roles
    BY <1>1 DEF chainVars
  <2>2. ASSUME NEW x \in safe' PROVE roles[x].clawback = None
    <3>1. CASE x \in safe
      BY <1>2, <3>1 DEF GivenUp
    <3>2. CASE x = asset /\ ~TokenObject(x).clawbackEnabled
      BY <3>2, TokenTold
    <3>3. QED
      BY <1>1, <3>1, <3>2
  <2>3. QED
    BY <2>1, <2>2 DEF GivenUp
<1>6. Shown'
  BY <1>1 DEF Shown, chainVars
<1>7. QED
  BY <1>3, <1>4, <1>5, <1>6 DEF LedgerInv

LEMMA LedgerStutterInv == LedgerInv /\ UNCHANGED ledgerVars => LedgerInv'
<1>1. SUFFICES ASSUME LedgerInv, UNCHANGED ledgerVars PROVE LedgerInv'
  OBVIOUS
<1>2. Chain' /\ GivenUp'
  BY <1>1 DEF ledgerVars, chainVars, auditorVars, LedgerInv, Chain, GivenUp
<1>3. Followed'
  BY <1>1 DEF ledgerVars, chainVars, auditorVars, LedgerInv, Followed, Known
<1>4. Shown'
  BY <1>1 DEF ledgerVars, chainVars, auditorVars, LedgerInv, Shown
<1>5. QED
  BY <1>2, <1>3, <1>4 DEF LedgerInv

LEMMA LedgerNextInv == LedgerInv /\ [LedgerNext]_ledgerVars => LedgerInv'
<1>1. SUFFICES ASSUME LedgerInv, LedgerNext PROVE LedgerInv'
  BY LedgerStutterInv
<1>2. ASSUME NEW depth, NEW account \in Accounts,
             Other(account, depth) \/ Call(account, depth) \/ Pay(account, depth)
      PROVE  LedgerInv'
  BY <1>1, <1>2, OtherInv, CallInv, PayInv
<1>3. ASSUME NEW depth, NEW account \in Accounts, NEW asset \in Tokens,
             \/ Transfer(account, asset, depth)
             \/ ClawBack(account, asset, depth)
             \/ Freeze(asset, account, depth)
      PROVE  LedgerInv'
  BY <1>1, <1>3, TransferInv, ClawBackInv, FreezeInv
<1>4. ASSUME NEW depth, NEW asset \in Tokens, NEW clawback \in Optional(RoleHolders),
             NEW freeze \in Optional(RoleHolders), Reconfigure(asset, clawback, freeze, depth)
      PROVE  LedgerInv'
  <2>1. clawback \in OptionalAccounts /\ freeze \in OptionalAccounts
    BY LedgerAssumption DEF Optional, OptionalAccounts
  <2>2. QED
    BY <1>1, <1>4, <2>1, ReconfigureInv
<1>5. QED
  BY <1>1, <1>2, <1>3, <1>4, ConfirmInv, ReadTokenInv DEF LedgerNext

\* What the auditor knows, the rewards apart, is what the chain did, and every
\* transaction is told for what it was, however many accounts and tokens there
\* are, and however many transactions an application nests and how deep.
THEOREM LedgerInductive == LedgerSpec => []LedgerInv
<1>1. LedgerInit => LedgerInv
  BY LedgerInitInv
<1>2. LedgerInv /\ [LedgerNext]_ledgerVars => LedgerInv'
  BY LedgerNextInv
<1>3. QED
  BY <1>1, <1>2, PTL DEF LedgerSpec

------------------------------------------------------------------------------
(* What each property reads off the invariant.                             *)
LEMMA ViewTold ==
    ASSUME LedgerInv, view # None
    PROVE  Told(view, deeds, before, balance, safe)
BY DEF LedgerInv, Shown

LEMMA LedgerTypes == LedgerInv => LedgerTypeOK
<1>1. SUFFICES ASSUME LedgerInv PROVE LedgerTypeOK
  OBVIOUS
<1>2. Chain
  BY <1>1 DEF LedgerInv
<1>3. {balance, before} \subseteq [Holdings -> Nat] /\ books \in [Holdings -> Int]
  BY <1>2 DEF Chain, Books, AnyBooks
<1>4. {signer, signs} \subseteq [Accounts -> Accounts] /\ {due, unreported} \subseteq [Accounts -> Nat]
  BY <1>2 DEF Chain, Claim
<1>5. ASSUME view # None
      PROVE  /\ Len(view) = Len(deeds)
             /\ \A i \in DOMAIN view :
                   /\ view[i].from \in Accounts
                   /\ {view[i].value, view[i].valueTotal, view[i].fee} \subseteq Nat
                   /\ view[i].closesAccount \in BOOLEAN
  <2>1. Told(view, deeds, before, balance, safe)
    BY <1>1, <1>5, ViewTold
  <2>2. QED
    BY <2>1 DEF Told, Entry, WellFormed
<1>6. QED
  BY <1>2, <1>3, <1>4, <1>5 DEF LedgerTypeOK, Chain

\* Every mapped transaction is well formed, an inner one at any depth too: an
\* account sent it, its amounts are numbers, and closes_account is a boolean
\* (mapping.py:382).
THEOREM LedgerTypeCorrect == LedgerSpec => []LedgerTypeOK
<1>1. LedgerInv => LedgerTypeOK
  BY LedgerTypes
<1>2. QED
  BY <1>1, LedgerInductive, PTL

LEMMA BooksFollow == LedgerInv => Reconciles
<1>1. SUFFICES ASSUME LedgerInv, pending = <<>> PROVE balance = Credited(books, unreported)
  BY DEF Reconciles
<1>2. PICK b \in AnyBooks : Known = Kept(b, signer) /\ balance = Credited(b, unreported)
  BY <1>1 DEF LedgerInv, Followed
<1>3. Known = Kept(books, signs)
  BY <1>1, NothingYet, ReplayNothing DEF Known
<1>4. b = books
  BY <1>2, <1>3 DEF Kept
<1>5. QED
  BY <1>2, <1>4

\* Books kept from mapped transactions alone fall short of the chain by the
\* rewards that map_transaction drops and by nothing else, whatever rewards are
\* paid: closes, clawbacks and inner transactions move in it what they moved on
\* the chain, whether what is zero or unset is left out or spelled out and
\* wherever the amount of a close stands.
THEOREM BooksReconcile == LedgerSpec => []Reconciles
<1>1. LedgerInv => Reconciles
  BY BooksFollow
<1>2. QED
  BY <1>1, LedgerInductive, PTL

\* A token never leaves an account that did not sign for it without a transfer
\* that is marked as a clawback from that account (_extract_movement).
THEOREM ConsentIsAlwaysVisible == LedgerSpec => []ConsentIsVisible
<1>1. LedgerInv => ConsentIsVisible
  BY ViewTold DEF ConsentIsVisible, Told, TakesFrom
<1>2. QED
  BY <1>1, LedgerInductive, PTL

\* closes_account is told of exactly the transactions that closed an account,
\* inner ones at any depth included, and never of the closure of a holding
\* (_extract_close).
THEOREM ClosureIsAlwaysVisible == LedgerSpec => []ClosureIsVisible
<1>1. LedgerInv => ClosureIsVisible
  BY ViewTold DEF ClosureIsVisible, Told, Entry, ClosureTold
<1>2. QED
  BY <1>1, LedgerInductive, PTL

\* value_total of a closing transaction is all that was held when its fee was
\* paid, whichever field the indexer put the swept part in (mapping.py:377-384).
THEOREM TotalIsAlwaysAllItHeld == LedgerSpec => []TotalIsAllItHeld
<1>1. LedgerInv => TotalIsAllItHeld
  BY ViewTold DEF TotalIsAllItHeld, Told, Entry, TotalTold
<1>2. QED
  BY <1>1, LedgerInductive, PTL

LEMMA ControlTold == LedgerInv => ControlIsVisible
<1>1. SUFFICES ASSUME LedgerInv, pending = <<>>
               PROVE  /\ signs = signer
                      /\ \A a \in Accounts :
                            MapAccount(AccountPayload(a, spelling)).rekeyedTo =
                                IF signer[a] = a THEN None ELSE signer[a]
  BY DEF ControlIsVisible
<1>2. signs = signer
  <2>1. PICK b \in AnyBooks : Known = Kept(b, signer)
    BY <1>1 DEF LedgerInv, Followed
  <2>2. Known = Kept(books, signs)
    BY <1>1, NothingYet, ReplayNothing DEF Known
  <2>3. QED
    BY <2>1, <2>2 DEF Kept
<1>3. ASSUME NEW a \in Accounts
      PROVE  MapAccount(AccountPayload(a, spelling)).rekeyedTo
                 = IF signer[a] = a THEN None ELSE signer[a]
  <2> DEFINE auth == IF signer[a] = a THEN None ELSE signer[a]
  <2>1. auth \in OptionalAccounts
    BY <1>1, InvFacts DEF OptionalAccounts
  <2>2. AccountPayload(a, spelling).authAddr = Unset(auth, spelling)
    BY DEF AccountPayload
  <2> HIDE DEF auth
  <2>3. MapAccount(AccountPayload(a, spelling)).rekeyedTo = Clean(Get(Unset(auth, spelling)))
    BY <2>2 DEF MapAccount
  <2>4. QED
    BY <2>1, <2>3, UnsetRead DEF auth
<1>4. QED
  BY <1>2, <1>3

\* Who signs for an account is what its mapped transactions add up to, rekeyings
\* by a transaction of any type and at any depth included, and what its mapped
\* object says (map_transaction, map_account).
THEOREM ControlIsAlwaysVisible == LedgerSpec => []ControlIsVisible
<1>1. LedgerInv => ControlIsVisible
  BY ControlTold
<1>2. QED
  BY <1>1, LedgerInductive, PTL

LEMMA ClawbackTold == LedgerInv => ClawbackIsAnnounced
<1>1. SUFFICES ASSUME LedgerInv PROVE ClawbackIsAnnounced
  OBVIOUS
<1>2. ASSUME view # None, NEW i \in DOMAIN view, view[i].transfer # None,
             view[i].transfer.isClawback
      PROVE  view[i].transfer.asset \notin safe
  <2>1. Told(view, deeds, before, balance, safe)
    BY <1>1, <1>2, ViewTold
  <2>2. QED
    BY <1>2, <2>1 DEF Told, Entry, NotSafe
<1>3. ASSUME NEW x \in Tokens
      PROVE  TokenObject(x).clawbackEnabled <=> TokenObject(x).roles.clawback \in Accounts
  BY <1>1, TokenTold, AccountsOk DEF OptionalAccounts
<1>4. QED
  BY <1>2, <1>3 DEF ClawbackIsAnnounced

\* A token once reported without clawback is never seen clawed back, and one
\* reported with it names the account that may (map_asset).
THEOREM ClawbackIsAlwaysAnnounced == LedgerSpec => []ClawbackIsAnnounced
<1>1. LedgerInv => ClawbackIsAnnounced
  BY ClawbackTold
<1>2. QED
  BY <1>1, LedgerInductive, PTL
==============================================================================
