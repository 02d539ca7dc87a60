--------------------------- MODULE CacheDataProofs ---------------------------
(***************************************************************************)
(* What the dictionary operators of CacheData return, for every sequence   *)
(* of entries.  The lemmas are cited by the proofs about CacheHistory and  *)
(* ReadThrough.                                                            *)
(***************************************************************************)
EXTENDS CacheData, SequenceTheorems, TLAPS

\* A dictionary: no identifier occurs twice.
Distinct(data) ==
    \A i, j \in DOMAIN data : data[i].id = data[j].id => i = j

\* The index, in the sequence before a deletion at p, of the entry at k after.
Shift(p, k) == IF k < p THEN k ELSE k + 1

\* An identifier that is held has a position, and the entry there is its own.
LEMMA PositionFacts ==
    ASSUME NEW S, NEW data \in Seq(S), NEW id, Holds(data, id)
    PROVE  /\ Position(data, id) \in 1 .. Len(data)
           /\ data[Position(data, id)].id = id
<1>1. DOMAIN data = 1 .. Len(data)
    BY LenProperties
<1>2. \E i \in DOMAIN data : IsFor(data[i], id)
    BY DEF Holds
<1>3. /\ Position(data, id) \in DOMAIN data
      /\ IsFor(data[Position(data, id)], id)
    BY <1>2 DEF Position
<1> QED
    BY <1>1, <1>3 DEF IsFor

\* Deleting an identifier keeps the other entries, in their order.
LEMMA WithoutFacts ==
    ASSUME NEW S, NEW data \in Seq(S), NEW id, Holds(data, id)
    PROVE  /\ Without(data, id) \in Seq(S)
           /\ Len(Without(data, id)) = Len(data) - 1
           /\ \A k \in 1 .. Len(data) - 1 :
                 Without(data, id)[k] = data[Shift(Position(data, id), k)]
<1> DEFINE p == Position(data, id)
           front == SubSeq(data, 1, p - 1)
           back == SubSeq(data, p + 1, Len(data))
<1>1. p \in 1 .. Len(data) /\ Len(data) \in Nat
    BY PositionFacts, LenProperties
<1>2. \A i \in 1 .. Len(data) : data[i] \in S
    BY ElementOfSeq
<1>3. /\ front \in Seq(S)
      /\ Len(front) = p - 1
      /\ \A i \in 1 .. p - 1 : front[i] = data[i]
  <2>1. \A i \in 1 .. p - 1 : data[i] \in S
      BY <1>1, <1>2
  <2>2. 1 \in Int /\ p - 1 \in Int
      BY <1>1
  <2>3. /\ front \in Seq(S)
        /\ Len(front) = IF 1 <= p - 1 THEN p - 1 - 1 + 1 ELSE 0
        /\ \A i \in 1 .. p - 1 - 1 + 1 : front[i] = data[1 + i - 1]
      BY <2>1, <2>2, SubSeqProperties
  <2> QED
      BY <1>1, <2>3
<1>4. /\ back \in Seq(S)
      /\ Len(back) = Len(data) - p
      /\ \A i \in 1 .. Len(data) - p : back[i] = data[p + i]
  <2>1. \A i \in p + 1 .. Len(data) : data[i] \in S
      BY <1>1, <1>2
  <2>2. p + 1 \in Int /\ Len(data) \in Int
      BY <1>1
  <2>3. /\ back \in Seq(S)
        /\ Len(back) = IF p + 1 <= Len(data) THEN Len(data) - (p + 1) + 1 ELSE 0
        /\ \A i \in 1 .. Len(data) - (p + 1) + 1 : back[i] = data[p + 1 + i - 1]
      BY <2>1, <2>2, SubSeqProperties
  <2> QED
      BY <1>1, <2>3
<1>5. /\ front \o back \in Seq(S)
      /\ Len(front \o back) = Len(data) - 1
      /\ \A k \in 1 .. Len(data) - 1 :
            (front \o back)[k] = IF k <= p - 1 THEN front[k] ELSE back[k - (p - 1)]
  <2>1. /\ front \o back \in Seq(S)
        /\ Len(front \o back) = Len(front) + Len(back)
        /\ \A k \in 1 .. Len(front) + Len(back) :
              (front \o back)[k] = IF k <= Len(front) THEN front[k] ELSE back[k - Len(front)]
    <3> HIDE DEF front, back
    <3> QED
        BY <1>3, <1>4, ConcatProperties
  <2>2. Len(front) + Len(back) = Len(data) - 1
      BY <1>1, <1>3, <1>4
  <2> HIDE DEF front, back, p
  <2> QED
      BY <2>1, <2>2, <1>3
<1>6. Without(data, id) = front \o back
    BY DEF Without, RemoveAt
<1>7. \A k \in 1 .. Len(data) - 1 : (front \o back)[k] = data[Shift(p, k)]
  <2> SUFFICES ASSUME NEW k \in 1 .. Len(data) - 1
               PROVE  (front \o back)[k] = data[Shift(p, k)]
      OBVIOUS
  <2>1. CASE k <= p - 1
    <3>1. k \in 1 .. p - 1 /\ k < p
        BY <2>1, <1>1
    <3> QED
        BY <3>1, <2>1, <1>3, <1>5 DEF Shift
  <2>2. CASE ~(k <= p - 1)
    <3>1. k - (p - 1) \in 1 .. Len(data) - p /\ ~(k < p) /\ p + (k - (p - 1)) = k + 1
        BY <2>2, <1>1
    <3>2. (front \o back)[k] = back[k - (p - 1)]
        BY <2>2, <1>5
    <3> QED
        BY <3>1, <3>2, <1>4 DEF Shift
  <2> QED
      BY <2>1, <2>2
<1> QED
    BY <1>5, <1>6, <1>7

\* Deleting an identifier from a dictionary leaves exactly the others.
LEMMA WithoutHolds ==
    ASSUME NEW S, NEW data \in Seq(S), NEW id, Distinct(data)
    PROVE  /\ ~Holds(Without(data, id), id)
           /\ \A x : x # id => (Holds(Without(data, id), x) <=> Holds(data, x))
           /\ Distinct(Without(data, id))
<1>0. DOMAIN data = 1 .. Len(data) /\ Len(data) \in Nat
    BY LenProperties
<1>1. CASE ~Holds(data, id)
    BY <1>1 DEF Without
<1>2. CASE Holds(data, id)
  <2> DEFINE p == Position(data, id)
             rest == Without(data, id)
  <2>1. p \in 1 .. Len(data) /\ data[p].id = id
      BY <1>2, PositionFacts
  <2>2. /\ rest \in Seq(S)
        /\ Len(rest) = Len(data) - 1
        /\ \A k \in 1 .. Len(data) - 1 : rest[k] = data[Shift(p, k)]
      BY <1>2, WithoutFacts
  <2>3. DOMAIN rest = 1 .. Len(data) - 1
      BY <2>2, LenProperties
  <2>4. \A k \in 1 .. Len(data) - 1 : Shift(p, k) \in 1 .. Len(data) /\ Shift(p, k) # p
      BY <1>0, <2>1 DEF Shift
  <2>5. \A k, m \in 1 .. Len(data) - 1 : Shift(p, k) = Shift(p, m) => k = m
      BY <1>0, <2>1 DEF Shift
  <2>6. ~Holds(rest, id)
    <3> SUFFICES ASSUME NEW k \in 1 .. Len(data) - 1, rest[k].id = id
                 PROVE  FALSE
        BY <2>3 DEF Holds, IsFor
    <3>1. data[Shift(p, k)].id = data[p].id
        BY <2>1, <2>2
    <3> QED
        BY <3>1, <2>1, <2>4, <1>0 DEF Distinct
  <2>7. ASSUME NEW x, x # id
        PROVE  Holds(rest, x) <=> Holds(data, x)
    <3>1. ASSUME Holds(rest, x)
          PROVE  Holds(data, x)
      <4>1. PICK k \in 1 .. Len(data) - 1 : rest[k].id = x
          BY <3>1, <2>3 DEF Holds, IsFor
      <4> QED
          BY <4>1, <2>2, <2>4, <1>0 DEF Holds, IsFor
    <3>2. ASSUME Holds(data, x)
          PROVE  Holds(rest, x)
      <4>1. PICK i \in 1 .. Len(data) : data[i].id = x
          BY <3>2, <1>0 DEF Holds, IsFor
      <4>2. i # p
          BY <4>1, <2>1, <2>7
      <4>3. PICK k \in 1 .. Len(data) - 1 : Shift(p, k) = i
        <5>1. CASE i < p
            BY <5>1, <2>1, <1>0 DEF Shift
        <5>2. CASE i > p
          <6>1. i - 1 \in 1 .. Len(data) - 1 /\ Shift(p, i - 1) = i
              BY <5>2, <2>1, <1>0 DEF Shift
          <6> QED
              BY <6>1
        <5> QED
            BY <5>1, <5>2, <4>2, <2>1
      <4> QED
          BY <4>1, <4>3, <2>2, <2>3 DEF Holds, IsFor
    <3> QED
        BY <3>1, <3>2
  <2>8. Distinct(rest)
    <3> SUFFICES ASSUME NEW k \in 1 .. Len(data) - 1, NEW m \in 1 .. Len(data) - 1,
                        rest[k].id = rest[m].id
                 PROVE  k = m
        BY <2>3 DEF Distinct
    <3>1. data[Shift(p, k)].id = data[Shift(p, m)].id
        BY <2>2
    <3>2. Shift(p, k) = Shift(p, m)
        BY <3>1, <2>4, <1>0 DEF Distinct
    <3> QED
        BY <3>2, <2>5
  <2> QED
      BY <2>6, <2>7, <2>8
<1> QED
    BY <1>1, <1>2

\* Deleting an entry keeps the relative order of the others.
LEMMA ShiftMonotone ==
    ASSUME NEW n \in Nat, NEW p \in 1 .. n, NEW j \in 1 .. n - 1, NEW k \in 1 .. n - 1, j < k
    PROVE  /\ Shift(p, j) \in 1 .. n
           /\ Shift(p, k) \in 1 .. n
           /\ Shift(p, j) < Shift(p, k)
BY DEF Shift

\* A write or a hit makes id the newest entry: it is held once, at the end,
\* and every other identifier is held exactly when it was before.
LEMMA RefreshedFacts ==
    ASSUME NEW S, NEW data \in Seq(S), NEW id, NEW e \in S, e.id = id, Distinct(data)
    PROVE  LET new == Append(Without(data, id), e)
           IN  /\ new \in Seq(S)
               /\ Len(new) = Len(data) + (IF Holds(data, id) THEN 0 ELSE 1)
               /\ Len(new) = Len(Without(data, id)) + 1
               /\ new[Len(new)] = e
               /\ \A k \in 1 .. Len(new) - 1 : new[k] = Without(data, id)[k]
               /\ \A k \in 1 .. Len(new) - 1 : new[k].id # id
               /\ \A x : Holds(new, x) <=> x = id \/ Holds(data, x)
               /\ Distinct(new)
<1> DEFINE rest == Without(data, id)
           new == Append(rest, e)
<1>1. /\ rest \in Seq(S)
      /\ Len(rest) = Len(data) - (IF Holds(data, id) THEN 1 ELSE 0)
      /\ Len(data) \in Nat
  <2>1. CASE Holds(data, id)
      BY <2>1, WithoutFacts, LenProperties
  <2>2. CASE ~Holds(data, id)
      BY <2>2, LenProperties DEF Without
  <2> QED
      BY <2>1, <2>2
<1>2. /\ ~Holds(rest, id)
      /\ \A x : x # id => (Holds(rest, x) <=> Holds(data, x))
      /\ Distinct(rest)
    BY WithoutHolds
<1> HIDE DEF rest
<1>3. /\ Len(rest) \in Nat
      /\ DOMAIN rest = 1 .. Len(rest)
    BY <1>1, LenProperties
<1>4. /\ new \in Seq(S)
      /\ Len(new) = Len(rest) + 1
      /\ \A k \in 1 .. Len(rest) : new[k] = rest[k]
      /\ new[Len(rest) + 1] = e
    BY <1>1, AppendProperties
<1>5. DOMAIN new = 1 .. Len(rest) + 1
    BY <1>4, LenProperties
<1> HIDE DEF new
<1>6. \A k \in 1 .. Len(rest) : new[k].id # id
    BY <1>2, <1>3, <1>4 DEF Holds, IsFor
<1>7. \A x : Holds(new, x) <=> x = id \/ Holds(rest, x)
  <2> SUFFICES ASSUME NEW x
               PROVE  Holds(new, x) <=> x = id \/ Holds(rest, x)
      OBVIOUS
  <2>1. 1 .. Len(rest) + 1 = (1 .. Len(rest)) \cup {Len(rest) + 1}
      BY <1>3
  <2> QED
      BY <2>1, <1>3, <1>4, <1>5 DEF Holds, IsFor
<1>8. \A x : Holds(new, x) <=> x = id \/ Holds(data, x)
    BY <1>2, <1>7
<1>9. Distinct(new)
  <2> SUFFICES ASSUME NEW i \in 1 .. Len(rest) + 1, NEW j \in 1 .. Len(rest) + 1,
                      new[i].id = new[j].id
               PROVE  i = j
      BY <1>5 DEF Distinct
  <2>1. CASE i \in 1 .. Len(rest) /\ j \in 1 .. Len(rest)
      BY <2>1, <1>2, <1>3, <1>4 DEF Distinct
  <2>2. CASE i = Len(rest) + 1 /\ j = Len(rest) + 1
      BY <2>2
  <2>3. CASE i \in 1 .. Len(rest) /\ j = Len(rest) + 1
      BY <2>3, <1>4, <1>6
  <2>4. CASE i = Len(rest) + 1 /\ j \in 1 .. Len(rest)
      BY <2>4, <1>4, <1>6
  <2> QED
      BY <2>1, <2>2, <2>3, <2>4, <1>3
<1>10. Len(new) = Len(data) + (IF Holds(data, id) THEN 0 ELSE 1)
    BY <1>1, <1>4
<1>11. new[Len(new)] = e
    BY <1>4
<1>12. \A k \in 1 .. Len(new) - 1 : new[k] = rest[k] /\ new[k].id # id
  <2>1. Len(new) - 1 = Len(rest)
      BY <1>3, <1>4
  <2> QED
      BY <2>1, <1>4, <1>6
<1> QED
    BY <1>4, <1>8, <1>9, <1>10, <1>11, <1>12 DEF new, rest

\* The eviction loop drops the oldest entries and nothing else, and leaves at
\* most MaxEntries.
LEMMA TrimmedFacts ==
    ASSUME NEW S, NEW data \in Seq(S)
    PROVE  LET off == Len(data) - Len(Trimmed(data))
           IN  /\ Trimmed(data) \in Seq(S)
               /\ off \in Nat
               /\ Len(Trimmed(data)) \in Nat
               /\ Len(Trimmed(data)) <= MaxEntries
               /\ Len(data) <= MaxEntries => Trimmed(data) = data
               /\ Len(data) > MaxEntries => Len(Trimmed(data)) = MaxEntries
               /\ \A k \in 1 .. Len(Trimmed(data)) : Trimmed(data)[k] = data[k + off]
<1>0. MaxEntries \in Nat /\ Len(data) \in Nat
    BY CacheAssumption, LenProperties
<1>1. CASE Len(data) <= MaxEntries
  <2>1. Trimmed(data) = data
      BY <1>0, <1>1 DEF Trimmed
  <2>2. \A k \in 1 .. Len(data) : k + (Len(data) - Len(data)) = k
      BY <1>0
  <2> QED
      BY <1>0, <1>1, <2>1, <2>2
<1>2. CASE Len(data) > MaxEntries
  <2> DEFINE m == Len(data) - MaxEntries + 1
             cut == SubSeq(data, m, Len(data))
  <2>1. /\ m \in 1 .. Len(data)
        /\ m \in Int /\ Len(data) \in Int
        /\ Len(data) - m + 1 = MaxEntries
      BY <1>0, <1>2, CacheAssumption
  <2>2. \A i \in m .. Len(data) : data[i] \in S
      BY <2>1, <1>0, ElementOfSeq
  <2>3. /\ cut \in Seq(S)
        /\ Len(cut) = IF m <= Len(data) THEN Len(data) - m + 1 ELSE 0
        /\ \A i \in 1 .. Len(data) - m + 1 : cut[i] = data[m + i - 1]
    <3> HIDE DEF m
    <3> QED
        BY <2>1, <2>2, SubSeqProperties
  <2>4. Len(cut) = MaxEntries /\ \A i \in 1 .. MaxEntries : cut[i] = data[m + i - 1]
      BY <2>1, <2>3
  <2>5. Trimmed(data) = cut
      BY <1>0, <1>2 DEF Trimmed
  <2>6. \A i \in 1 .. MaxEntries : m + i - 1 = i + (Len(data) - MaxEntries)
      BY <1>0
  <2> HIDE DEF cut, m
  <2> QED
      BY <1>0, <1>2, <2>3, <2>4, <2>5, <2>6
<1> QED
    BY <1>0, <1>1, <1>2

\* A trimmed dictionary is a dictionary, and holds nothing new.
LEMMA TrimmedHolds ==
    ASSUME NEW S, NEW data \in Seq(S), Distinct(data)
    PROVE  /\ Distinct(Trimmed(data))
           /\ \A x : Holds(Trimmed(data), x) => Holds(data, x)
<1> DEFINE cut == Trimmed(data)
           off == Len(data) - Len(cut)
<1>1. /\ cut \in Seq(S)
      /\ off \in Nat
      /\ Len(cut) \in Nat
      /\ \A k \in 1 .. Len(cut) : cut[k] = data[k + off]
    BY TrimmedFacts
<1>2. /\ DOMAIN cut = 1 .. Len(cut)
      /\ DOMAIN data = 1 .. Len(data)
      /\ Len(data) \in Nat
    BY <1>1, LenProperties
<1> HIDE DEF cut
<1>3. \A k \in 1 .. Len(cut) : k + off \in 1 .. Len(data)
    BY <1>1, <1>2
<1>4. Distinct(cut)
  <2> SUFFICES ASSUME NEW i \in 1 .. Len(cut), NEW j \in 1 .. Len(cut),
                      cut[i].id = cut[j].id
               PROVE  i = j
      BY <1>2 DEF Distinct
  <2>1. data[i + off].id = data[j + off].id
      BY <1>1
  <2>2. i + off = j + off
      BY <2>1, <1>2, <1>3 DEF Distinct
  <2> QED
      BY <2>2, <1>1
<1>5. ASSUME NEW x, Holds(cut, x)
      PROVE  Holds(data, x)
  <2>1. PICK k \in 1 .. Len(cut) : cut[k].id = x
      BY <1>2, <1>5 DEF Holds, IsFor
  <2>2. k + off \in DOMAIN data /\ data[k + off].id = x
      BY <2>1, <1>1, <1>2, <1>3
  <2> QED
      BY <2>2 DEF Holds, IsFor
<1> QED
    BY <1>4, <1>5 DEF cut
==============================================================================
