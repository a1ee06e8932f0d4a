-------------------------- MODULE TimerQueueProofs --------------------------
(***************************************************************************)
(* Proofs about timer_queue (TimerQueue.tla), for any number of clients,   *)
(* owners and timers, any periods and offsets, and a clock without end.    *)
(***************************************************************************)
EXTENDS TimerQueue, FiniteSetTheorems, TLAPS

-----------------------------------------------------------------------------
(* The multimap: what its operations do to the set of its elements. *)

TimerRec == [id : Ids, expires : Nat, period : Nat]

Elements(s) == {s[i] : i \in DOMAIN s}

\* In the order of expiry, and no id twice: Ordered, of any sequence.
WellOrdered(s) ==
    \A i, j \in DOMAIN s : i < j => s[i].expires <= s[j].expires /\ s[i].id # s[j].id

\* A set of positions that holds every position before one of its own is a prefix.
LEMMA PrefixSet ==
    ASSUME NEW n \in Nat, NEW S \in SUBSET (1..n), \A i \in S : \A j \in 1..i : j \in S
    PROVE  Cardinality(S) \in 0..n /\ S = 1..Cardinality(S)
<1>1. IsFiniteSet(S) /\ Cardinality(S) \in Nat /\ Cardinality(S) <= n
  <2>1. IsFiniteSet(1..n) /\ Cardinality(1..n) = n
    BY FS_Interval
  <2>2. IsFiniteSet(S) /\ Cardinality(S) <= Cardinality(1..n)
    BY <2>1, FS_Subset
  <2> QED BY <2>1, <2>2, FS_CardinalityType
<1>2. ASSUME NEW i \in S PROVE i \in 1..Cardinality(S)
  <2>1. i \in Nat /\ 1 <= i
    OBVIOUS
  <2>2. 1..i \in SUBSET S /\ Cardinality(1..i) = i
    BY <1>2, <2>1, FS_Interval
  <2>3. Cardinality(1..i) <= Cardinality(S)
    BY <1>1, <2>2, FS_Subset
  <2> QED BY <1>1, <2>1, <2>2, <2>3
<1>3. S \in SUBSET (1..Cardinality(S))
  BY <1>2
<1>4. IsFiniteSet(1..Cardinality(S)) /\ Cardinality(1..Cardinality(S)) = Cardinality(S)
  BY <1>1, FS_Interval
<1>5. 1..Cardinality(S) = S
  BY <1>3, <1>4, FS_Subset
<1> QED BY <1>1, <1>5

\* Two sequences, one after the other.
LEMMA Joined ==
    ASSUME NEW a \in Seq(TimerRec), NEW b \in Seq(TimerRec)
    PROVE  /\ a \o b \in Seq(TimerRec) /\ Len(a \o b) = Len(a) + Len(b)
           /\ \A i \in 1..(Len(a) + Len(b)) : (a \o b)[i] = IF i <= Len(a) THEN a[i] ELSE b[i - Len(a)]
OBVIOUS

\* What is where in a concatenation.
LEMMA Placed ==
    ASSUME NEW a \in Seq(TimerRec), NEW b \in Seq(TimerRec)
    PROVE  /\ a \o b \in Seq(TimerRec) /\ Len(a \o b) = Len(a) + Len(b)
           /\ \A i \in 1..Len(a) : (a \o b)[i] = a[i]
           /\ \A i \in 1..Len(b) : (a \o b)[Len(a) + i] = b[i]
<1>1. ASSUME NEW i \in 1..Len(a) PROVE (a \o b)[i] = a[i]
  <2>1. i \in 1..(Len(a) + Len(b)) /\ i <= Len(a)
    OBVIOUS
  <2> QED BY <2>1, Joined
<1>2. ASSUME NEW i \in 1..Len(b) PROVE (a \o b)[Len(a) + i] = b[i]
  <2>1. PICK j \in 1..(Len(a) + Len(b)) : j = Len(a) + i /\ ~(j <= Len(a)) /\ j - Len(a) = i
    OBVIOUS
  <2>2. (a \o b)[j] = b[j - Len(a)]
    BY <2>1, Joined
  <2> QED BY <2>1, <2>2
<1> QED BY <1>1, <1>2, Joined

\* The first h elements of a sequence, and the elements after its k-th.
LEMMA Slices ==
    ASSUME NEW s \in Seq(TimerRec), NEW h \in 0..Len(s)
    PROVE  /\ SubSeq(s, 1, h) \in Seq(TimerRec) /\ Len(SubSeq(s, 1, h)) = h
           /\ \A i \in 1..h : SubSeq(s, 1, h)[i] = s[i]
           /\ SubSeq(s, h + 1, Len(s)) \in Seq(TimerRec) /\ Len(SubSeq(s, h + 1, Len(s))) = Len(s) - h
           /\ \A i \in 1..(Len(s) - h) : SubSeq(s, h + 1, Len(s))[i] = s[h + i]
<1>1. SubSeq(s, 1, h) \in Seq(TimerRec) /\ Len(SubSeq(s, 1, h)) = h
  OBVIOUS
<1>2. \A i \in 1..h : SubSeq(s, 1, h)[i] = s[i]
  OBVIOUS
<1>3. SubSeq(s, h + 1, Len(s)) \in Seq(TimerRec) /\ Len(SubSeq(s, h + 1, Len(s))) = Len(s) - h
  OBVIOUS
<1>4. \A i \in 1..(Len(s) - h) : SubSeq(s, h + 1, Len(s))[i] = s[h + i]
  OBVIOUS
<1> QED BY <1>1, <1>2, <1>3, <1>4

\* A sequence cut after its first k elements, with a new one put in between.
LEMMA Inserted ==
    ASSUME NEW s \in Seq(TimerRec), NEW k \in 0..Len(s), NEW t \in TimerRec
    PROVE  LET r == SubSeq(s, 1, k) \o <<t>> \o SubSeq(s, k + 1, Len(s))
           IN  /\ r \in Seq(TimerRec) /\ Len(r) = Len(s) + 1
               /\ \A i \in 1..k : r[i] = s[i]
               /\ r[k + 1] = t
               /\ \A i \in (k + 1)..Len(s) : r[i + 1] = s[i]
<1>1. PICK n \in Nat : n = Len(s) - k /\ Len(s) = n + k /\ Len(s) \in Nat /\ k \in Nat
  OBVIOUS
<1>2. PICK a \in Seq(TimerRec) : a = SubSeq(s, 1, k) /\ Len(a) = k /\ \A i \in 1..k : a[i] = s[i]
  BY Slices
<1>3. PICK b \in Seq(TimerRec) : b = SubSeq(s, k + 1, Len(s)) /\ Len(b) = n /\ \A i \in 1..n : b[i] = s[k + i]
  BY <1>1, Slices
<1>4. PICK m \in Seq(TimerRec) : m = a \o <<t>> /\ Len(m) = k + 1 /\ m[k + 1] = t /\ \A i \in 1..k : m[i] = s[i]
  <2>1. <<t>> \in Seq(TimerRec) /\ Len(<<t>>) = 1 /\ <<t>>[1] = t /\ 1 \in 1..1
    OBVIOUS
  <2>2. PICK m : m = a \o <<t>>
    OBVIOUS
  <2>3. /\ m \in Seq(TimerRec) /\ Len(m) = Len(a) + Len(<<t>>)
        /\ \A i \in 1..Len(a) : m[i] = a[i]
        /\ \A i \in 1..Len(<<t>>) : m[Len(a) + i] = <<t>>[i]
    BY <2>1, <2>2, Placed, Zenon
  <2>4. Len(m) = k + 1 /\ m[k + 1] = t
    BY <1>2, <2>1, <2>3, Zenon
  <2>5. \A i \in 1..k : m[i] = s[i]
    BY <1>2, <2>3, Zenon
  <2> QED BY <2>2, <2>3, <2>4, <2>5, Zenon
<1>5. PICK r : r = m \o b
  OBVIOUS
<1>6. r = SubSeq(s, 1, k) \o <<t>> \o SubSeq(s, k + 1, Len(s))
  BY <1>2, <1>3, <1>4, <1>5
<1>7. /\ r \in Seq(TimerRec) /\ Len(r) = k + 1 + n
      /\ \A i \in 1..(k + 1) : r[i] = m[i]
      /\ \A i \in 1..n : r[k + 1 + i] = b[i]
  <2>1. /\ r \in Seq(TimerRec) /\ Len(r) = Len(m) + Len(b)
        /\ \A i \in 1..Len(m) : r[i] = m[i]
        /\ \A i \in 1..Len(b) : r[Len(m) + i] = b[i]
    BY <1>5, Placed, Zenon
  <2> QED BY <1>3, <1>4, <2>1, Zenon
<1>8. ASSUME NEW i \in (k + 1)..Len(s) PROVE r[i + 1] = s[i]
  <2>1. PICK j \in 1..n : i = k + j /\ i + 1 = k + 1 + j
    <3>1. i - k \in 1..n /\ i = k + (i - k) /\ i + 1 = k + 1 + (i - k)
      BY <1>1
    <3> QED BY <3>1
  <2>2. r[i + 1] = b[j] /\ b[j] = s[k + j]
    BY <1>3, <1>7, <2>1
  <2> QED BY <2>1, <2>2
<1>9. /\ r \in Seq(TimerRec) /\ Len(r) = Len(s) + 1
      /\ \A i \in 1..k : r[i] = s[i]
      /\ r[k + 1] = t
  BY <1>1, <1>4, <1>7
<1> QED BY <1>6, <1>8, <1>9

\* A sequence without its k-th element.
LEMMA Removed ==
    ASSUME NEW s \in Seq(TimerRec), NEW k \in 1..Len(s)
    PROVE  LET r == SubSeq(s, 1, k - 1) \o SubSeq(s, k + 1, Len(s))
           IN  /\ r \in Seq(TimerRec) /\ Len(r) = Len(s) - 1
               /\ \A i \in 1..(k - 1) : r[i] = s[i]
               /\ \A i \in k..(Len(s) - 1) : r[i] = s[i + 1]
<1>1. PICK n \in Nat : n = Len(s) - k /\ Len(s) = n + k /\ Len(s) \in Nat /\ k \in Nat
  OBVIOUS
<1>2. PICK h \in 0..Len(s) : h = k - 1 /\ h \in Nat
  BY <1>1
<1>3. k \in 0..Len(s)
  BY <1>1
<1>4. PICK a \in Seq(TimerRec) : a = SubSeq(s, 1, h) /\ Len(a) = h /\ \A i \in 1..h : a[i] = s[i]
  BY Slices
<1>5. PICK b \in Seq(TimerRec) : b = SubSeq(s, k + 1, Len(s)) /\ Len(b) = n /\ \A i \in 1..n : b[i] = s[k + i]
  BY <1>1, <1>3, Slices
<1>6. PICK r : r = a \o b
  OBVIOUS
<1>7. r = SubSeq(s, 1, k - 1) \o SubSeq(s, k + 1, Len(s))
  BY <1>2, <1>4, <1>5, <1>6
<1>8. /\ r \in Seq(TimerRec) /\ Len(r) = h + n
      /\ \A i \in 1..h : r[i] = a[i]
      /\ \A i \in 1..n : r[h + i] = b[i]
  <2>1. /\ r \in Seq(TimerRec) /\ Len(r) = Len(a) + Len(b)
        /\ \A i \in 1..Len(a) : r[i] = a[i]
        /\ \A i \in 1..Len(b) : r[Len(a) + i] = b[i]
    BY <1>6, Placed, Zenon
  <2> QED BY <1>4, <1>5, <2>1, Zenon
<1>9. ASSUME NEW i \in k..(Len(s) - 1) PROVE r[i] = s[i + 1]
  <2>1. PICK j \in 1..n : i = h + j /\ i + 1 = k + j
    <3>1. i - h \in 1..n /\ i = h + (i - h) /\ i + 1 = k + (i - h)
      BY <1>2, <1>1
    <3> QED BY <3>1
  <2>2. r[i] = b[j] /\ b[j] = s[k + j]
    BY <1>5, <1>8, <2>1
  <2> QED BY <2>1, <2>2
<1>10. r \in Seq(TimerRec) /\ Len(r) = Len(s) - 1 /\ \A i \in 1..(k - 1) : r[i] = s[i]
  BY <1>2, <1>1, <1>4, <1>8
<1> QED BY <1>7, <1>9, <1>10

\* emplace() puts the timer after every element that expires no later, and moves
\* the others up.
LEMMA EmplaceShape ==
    ASSUME NEW s \in Seq(TimerRec), WellOrdered(s), NEW t \in TimerRec
    PROVE  \E k \in 0..Len(s) :
              /\ Emplace(s, t) \in Seq(TimerRec) /\ Len(Emplace(s, t)) = Len(s) + 1
              /\ \A i \in 1..k : Emplace(s, t)[i] = s[i]
              /\ Emplace(s, t)[k + 1] = t
              /\ \A i \in (k + 1)..Len(s) : Emplace(s, t)[i + 1] = s[i]
              /\ \A i \in 1..k : s[i].expires <= t.expires
              /\ \A i \in (k + 1)..Len(s) : t.expires <= s[i].expires
<1> DEFINE S == {i \in DOMAIN s : s[i].expires <= t.expires}
           k == Cardinality(S)
<1>1. Len(s) \in Nat /\ DOMAIN s = 1..Len(s) /\ \A i \in 1..Len(s) : s[i] \in TimerRec
  OBVIOUS
<1>2. t.expires \in Nat /\ \A i \in 1..Len(s) : s[i].expires \in Nat
  BY <1>1 DEF TimerRec
<1>3. k \in 0..Len(s) /\ S = 1..k
  <2>1. S \in SUBSET (1..Len(s))
    BY <1>1
  <2>2. ASSUME NEW i \in S, NEW j \in 1..i PROVE j \in S
    <3>1. j \in 1..Len(s) /\ i \in 1..Len(s) /\ s[i].expires <= t.expires
      BY <1>1, <2>2
    <3>2. s[j].expires <= s[i].expires
      BY <1>1, <1>2, <3>1 DEF WellOrdered
    <3> QED BY <1>1, <1>2, <3>1, <3>2
  <2> HIDE DEF S
  <2> QED BY <1>1, <2>1, <2>2, PrefixSet
<1>4. Emplace(s, t) = SubSeq(s, 1, k) \o <<t>> \o SubSeq(s, k + 1, Len(s))
  BY DEF Emplace
<1>5. \A i \in 1..Len(s) : i \in 1..k <=> s[i].expires <= t.expires
  BY <1>1, <1>3
<1> HIDE DEF k, S
<1>6. /\ Emplace(s, t) \in Seq(TimerRec) /\ Len(Emplace(s, t)) = Len(s) + 1
      /\ \A i \in 1..k : Emplace(s, t)[i] = s[i]
      /\ Emplace(s, t)[k + 1] = t
      /\ \A i \in (k + 1)..Len(s) : Emplace(s, t)[i + 1] = s[i]
  <2>1. PICK n \in 0..Len(s) : n = k
    BY <1>3
  <2>2. PICK r : r = Emplace(s, t)
    OBVIOUS
  <2>3. r = SubSeq(s, 1, n) \o <<t>> \o SubSeq(s, n + 1, Len(s))
    BY <1>4, <2>1, <2>2
  <2>4. /\ r \in Seq(TimerRec) /\ Len(r) = Len(s) + 1
        /\ \A i \in 1..n : r[i] = s[i]
        /\ r[n + 1] = t
        /\ \A i \in (n + 1)..Len(s) : r[i + 1] = s[i]
    BY <2>3, Inserted
  <2> QED BY <2>1, <2>2, <2>4
<1>7. \A i \in 1..k : s[i].expires <= t.expires
  BY <1>1, <1>3, <1>5
<1>8. \A i \in (k + 1)..Len(s) : t.expires <= s[i].expires
  BY <1>1, <1>2, <1>3, <1>5
<1> QED BY <1>3, <1>6, <1>7, <1>8

\* emplace() adds the timer to the elements and keeps the multimap in order.
LEMMA EmplaceFacts ==
    ASSUME NEW s \in Seq(TimerRec), WellOrdered(s), NEW t \in TimerRec, \A x \in Elements(s) : x.id # t.id
    PROVE  /\ Emplace(s, t) \in Seq(TimerRec) /\ WellOrdered(Emplace(s, t))
           /\ Elements(Emplace(s, t)) = Elements(s) \cup {t}
<1>1. PICK k \in 0..Len(s) :
          /\ Emplace(s, t) \in Seq(TimerRec) /\ Len(Emplace(s, t)) = Len(s) + 1
          /\ \A i \in 1..k : Emplace(s, t)[i] = s[i]
          /\ Emplace(s, t)[k + 1] = t
          /\ \A i \in (k + 1)..Len(s) : Emplace(s, t)[i + 1] = s[i]
          /\ \A i \in 1..k : s[i].expires <= t.expires
          /\ \A i \in (k + 1)..Len(s) : t.expires <= s[i].expires
  BY EmplaceShape
<1>2. PICK r : r = Emplace(s, t)
  OBVIOUS
<1>3. Len(s) \in Nat /\ DOMAIN s = 1..Len(s) /\ r \in Seq(TimerRec) /\ DOMAIN r = 1..(Len(s) + 1)
  BY <1>1, <1>2
<1>4. WellOrdered(r)
  <2> SUFFICES ASSUME NEW i \in 1..(Len(s) + 1), NEW j \in 1..(Len(s) + 1), i < j
               PROVE  r[i].expires <= r[j].expires /\ r[i].id # r[j].id
    BY <1>3 DEF WellOrdered
  <2>1. \A x \in 1..Len(s) : s[x].id # t.id
    BY <1>3 DEF Elements
  <2>2. \A x, y \in 1..Len(s) : x < y => s[x].expires <= s[y].expires /\ s[x].id # s[y].id
    BY <1>3 DEF WellOrdered
  <2>3. CASE j <= k
    BY <1>1, <1>2, <1>3, <2>2, <2>3
  <2>4. CASE j = k + 1
    <3>1. r[j] = t /\ r[i] = s[i] /\ i \in 1..k /\ i \in 1..Len(s)
      BY <1>1, <1>2, <1>3, <2>4
    <3> QED BY <1>1, <2>1, <3>1
  <2>5. CASE j > k + 1 /\ i = k + 1
    <3>1. r[i] = t /\ r[j] = s[j - 1] /\ j - 1 \in (k + 1)..Len(s) /\ j - 1 \in 1..Len(s)
      BY <1>1, <1>2, <1>3, <2>5
    <3> QED BY <1>1, <2>1, <3>1
  <2>6. CASE j > k + 1 /\ i <= k
    <3>1. r[i] = s[i] /\ r[j] = s[j - 1] /\ i \in 1..Len(s) /\ j - 1 \in 1..Len(s) /\ i < j - 1
      BY <1>1, <1>2, <1>3, <2>6
    <3> QED BY <2>2, <3>1
  <2>7. CASE i > k + 1
    <3>1. r[i] = s[i - 1] /\ r[j] = s[j - 1] /\ i - 1 \in 1..Len(s) /\ j - 1 \in 1..Len(s) /\ i - 1 < j - 1
      <4>1. i - 1 \in (k + 1)..Len(s) /\ j - 1 \in (k + 1)..Len(s) /\ i = (i - 1) + 1 /\ j = (j - 1) + 1
        BY <1>3, <2>7
      <4>2. \A x \in (k + 1)..Len(s) : r[x + 1] = s[x]
        BY <1>1, <1>2
      <4> QED BY <1>3, <4>1, <4>2
    <3> QED BY <2>2, <3>1
  <2> QED BY <1>3, <2>3, <2>4, <2>5, <2>6, <2>7
<1>5. Elements(r) = Elements(s) \cup {t}
  <2>1. ASSUME NEW i \in 1..(Len(s) + 1) PROVE r[i] \in Elements(s) \cup {t}
    <3>1. CASE i = k + 1
      BY <1>1, <1>2, <3>1
    <3>2. CASE i <= k
      BY <1>1, <1>2, <1>3, <3>2 DEF Elements
    <3>3. CASE i > k + 1
      <4>1. PICK j \in (k + 1)..Len(s) : i = j + 1 /\ j \in DOMAIN s
        <5>1. i - 1 \in (k + 1)..Len(s) /\ i = (i - 1) + 1 /\ i - 1 \in DOMAIN s
          BY <1>3, <3>3
        <5> QED BY <5>1
      <4>2. r[i] = s[j]
        BY <1>1, <1>2, <4>1
      <4> QED BY <4>1, <4>2 DEF Elements
    <3> QED BY <1>3, <3>1, <3>2, <3>3
  <2>2. ASSUME NEW i \in 1..Len(s) PROVE s[i] \in Elements(r)
    <3>1. CASE i <= k
      BY <1>1, <1>2, <1>3, <3>1 DEF Elements
    <3>2. CASE i > k
      <4>1. i + 1 \in 1..(Len(s) + 1) /\ r[i + 1] = s[i]
        BY <1>1, <1>2, <1>3, <3>2
      <4> QED BY <1>3, <4>1 DEF Elements
    <3> QED BY <1>3, <3>1, <3>2
  <2>3. t \in Elements(r)
    <3>1. k + 1 \in 1..(Len(s) + 1) /\ r[k + 1] = t
      BY <1>1, <1>2, <1>3
    <3> QED BY <1>3, <3>1 DEF Elements
  <2> QED BY <1>3, <2>1, <2>2, <2>3 DEF Elements
<1> QED BY <1>2, <1>3, <1>4, <1>5

\* Taking out one element leaves the others, in order.
LEMMA RemovedFacts ==
    ASSUME NEW s \in Seq(TimerRec), WellOrdered(s), NEW k \in 1..Len(s),
           NEW r \in Seq(TimerRec), Len(r) = Len(s) - 1,
           \A i \in 1..(k - 1) : r[i] = s[i], \A i \in k..(Len(s) - 1) : r[i] = s[i + 1]
    PROVE  WellOrdered(r) /\ Elements(r) = {x \in Elements(s) : x.id # s[k].id}
<1>1. Len(s) \in Nat /\ DOMAIN s = 1..Len(s) /\ DOMAIN r = 1..(Len(s) - 1)
  OBVIOUS
<1>2. \A x, y \in 1..Len(s) : x < y => s[x].expires <= s[y].expires /\ s[x].id # s[y].id
  BY <1>1 DEF WellOrdered
<1>3. WellOrdered(r)
  <2> SUFFICES ASSUME NEW i \in 1..(Len(s) - 1), NEW j \in 1..(Len(s) - 1), i < j
               PROVE  r[i].expires <= r[j].expires /\ r[i].id # r[j].id
    BY <1>1 DEF WellOrdered
  <2>1. PICK x \in 1..Len(s), y \in 1..Len(s) : r[i] = s[x] /\ r[j] = s[y] /\ x < y
    <3>1. CASE j < k
      <4>1. i \in 1..Len(s) /\ j \in 1..Len(s) /\ r[i] = s[i] /\ r[j] = s[j]
        BY <1>1, <3>1
      <4> QED BY <4>1
    <3>2. CASE j >= k /\ i < k
      <4>1. i \in 1..Len(s) /\ j + 1 \in 1..Len(s) /\ r[i] = s[i] /\ r[j] = s[j + 1] /\ i < j + 1
        BY <1>1, <3>2
      <4> QED BY <4>1
    <3>3. CASE i >= k
      <4>1. i + 1 \in 1..Len(s) /\ j + 1 \in 1..Len(s) /\ r[i] = s[i + 1] /\ r[j] = s[j + 1] /\ i + 1 < j + 1
        BY <1>1, <3>3
      <4> QED BY <4>1
    <3> QED BY <1>1, <3>1, <3>2, <3>3
  <2> QED BY <1>2, <2>1
<1>4. ASSUME NEW i \in 1..(Len(s) - 1) PROVE r[i] \in {x \in Elements(s) : x.id # s[k].id}
  <2>1. CASE i < k
    <3>1. r[i] = s[i] /\ i \in 1..Len(s)
      BY <1>1, <2>1
    <3> QED BY <1>1, <1>2, <2>1, <3>1 DEF Elements
  <2>2. CASE i >= k
    <3>1. r[i] = s[i + 1] /\ i + 1 \in 1..Len(s) /\ k < i + 1
      BY <1>1, <2>2
    <3> QED BY <1>1, <1>2, <3>1 DEF Elements
  <2> QED BY <1>1, <2>1, <2>2
<1>5. ASSUME NEW i \in 1..Len(s), s[i].id # s[k].id PROVE s[i] \in Elements(r)
  <2>1. i # k
    BY <1>5
  <2>2. CASE i < k
    <3>1. i \in 1..(Len(s) - 1) /\ r[i] = s[i]
      BY <1>1, <2>2
    <3> QED BY <1>1, <3>1 DEF Elements
  <2>3. CASE i > k
    <3>1. i - 1 \in 1..(Len(s) - 1) /\ r[i - 1] = s[i]
      BY <1>1, <2>3
    <3> QED BY <1>1, <3>1 DEF Elements
  <2> QED BY <1>1, <2>1, <2>2, <2>3
<1>6. Elements(r) \subseteq {x \in Elements(s) : x.id # s[k].id}
  BY <1>1, <1>4 DEF Elements
<1>7. ASSUME NEW x \in Elements(s), x.id # s[k].id PROVE x \in Elements(r)
  <2>1. PICK i \in 1..Len(s) : x = s[i]
    BY <1>1 DEF Elements
  <2> QED BY <1>5, <1>7, <2>1
<1> QED BY <1>3, <1>6, <1>7

\* The multimap holds an element with the id a call names: find() finds it, and no
\* other element has that id.
LEMMA FindFacts ==
    ASSUME NEW s \in Seq(TimerRec), WellOrdered(s), NEW x \in Elements(s)
    PROVE  Find(s, x.id) \in 1..Len(s) /\ s[Find(s, x.id)] = x
<1>1. PICK i \in 1..Len(s) : s[i] = x
  BY DEF Elements
<1>2. Find(s, x.id) \in DOMAIN s /\ s[Find(s, x.id)].id = x.id
  BY <1>1 DEF Find
<1>3. Find(s, x.id) = i
  BY <1>1, <1>2 DEF WellOrdered
<1> QED BY <1>1, <1>3

\* erase() takes out the timer with that id and no other.
LEMMA EraseFacts ==
    ASSUME NEW s \in Seq(TimerRec), WellOrdered(s), NEW y \in Elements(s)
    PROVE  /\ Erase(s, y.id) \in Seq(TimerRec) /\ WellOrdered(Erase(s, y.id))
           /\ Elements(Erase(s, y.id)) = {x \in Elements(s) : x.id # y.id}
<1>1. PICK k \in 1..Len(s) : k = Find(s, y.id) /\ s[k] = y
  BY FindFacts
<1>2. Erase(s, y.id) = SubSeq(s, 1, k - 1) \o SubSeq(s, k + 1, Len(s))
  BY <1>1 DEF Erase
<1>3. PICK r : r = Erase(s, y.id)
  OBVIOUS
<1>4. /\ r \in Seq(TimerRec) /\ Len(r) = Len(s) - 1
      /\ \A i \in 1..(k - 1) : r[i] = s[i]
      /\ \A i \in k..(Len(s) - 1) : r[i] = s[i + 1]
  BY <1>2, <1>3, Removed
<1>5. WellOrdered(r) /\ Elements(r) = {x \in Elements(s) : x.id # s[k].id}
  BY <1>4, RemovedFacts
<1> QED BY <1>1, <1>3, <1>4, <1>5

\* So does the removal of the front.
LEMMA TailFacts ==
    ASSUME NEW s \in Seq(TimerRec), WellOrdered(s), s # <<>>
    PROVE  /\ Tail(s) \in Seq(TimerRec) /\ WellOrdered(Tail(s)) /\ Head(s) \in Elements(s)
           /\ Elements(Tail(s)) = {x \in Elements(s) : x.id # Head(s).id}
           /\ \A x \in Elements(s) : Head(s).expires <= x.expires
<1>1. /\ 1 \in 1..Len(s) /\ Head(s) = s[1] /\ Tail(s) \in Seq(TimerRec) /\ Len(Tail(s)) = Len(s) - 1
      /\ \A i \in 1..(Len(s) - 1) : Tail(s)[i] = s[i + 1]
  OBVIOUS
<1>2. \A i \in 1..(1 - 1) : Tail(s)[i] = s[i]
  BY <1>1
<1>3. WellOrdered(Tail(s)) /\ Elements(Tail(s)) = {x \in Elements(s) : x.id # s[1].id}
  BY <1>1, <1>2, RemovedFacts
<1>4. ASSUME NEW i \in 1..Len(s) PROVE s[1].expires <= s[i].expires
  <2>1. CASE i = 1
    <3>1. s[1] \in TimerRec
      BY <1>1
    <3>2. s[1].expires \in Nat
      BY <3>1 DEF TimerRec
    <3> QED BY <2>1, <3>2
  <2>2. CASE i > 1
    BY <1>1, <2>2 DEF WellOrdered
  <2> QED BY <2>1, <2>2
<1> QED BY <1>1, <1>3, <1>4 DEF Elements

-----------------------------------------------------------------------------
(* The inductive invariant, over the set of the queued timers. *)

\* A queued timer has been neither cancelled nor cleared, and expires as many
\* periods after its first expiry as it has been run: NoDrift and CancelIsFinal.
OnTime ==
    \A x \in Elements(timers_) : x.id \notin ended /\ x.expires = origin[x.id] + laps[x.id] * x.period

\* NeverEarly: the running timer's last expiry is in the past.
RunLate ==
    thr = "running" /\ laps[current] > 0 =>
        /\ origin[current] <= now
        /\ \A x \in Elements(timers_) : x.id = current => origin[current] + (laps[current] - 1) * x.period <= now

\* WakesInTime: the sleeping thread has a deadline that no timer precedes.
DeadlineFirst ==
    thr = "asleep" /\ ~woken /\ timers_ # <<>> =>
        \E d \in deadline : \A x \in Elements(timers_) : d <= x.expires

\* The ids handed out so far are those below next_: nothing is known of the others.
IdsKnown ==
    /\ \A x \in Elements(timers_) : x.id < next_
    /\ \A i \in Ids : i >= next_ => laps[i] = 0 /\ i \notin ended
    /\ thr = "running" => current < next_

\* A client is inside shutdown() only once stop_ is set, and until a restart, or a
\* task that stops its own queue, a set stop_ with a joinable thread_ means that one is.
StopKnown ==
    /\ \A c \in Clients : pc[c] # "idle" => stop_
    /\ misuse = {} /\ stop_ /\ joinable => \E c \in Clients : pc[c] # "idle"

TimerIInv ==
    /\ TypeOK /\ WellOrdered(timers_) /\ OnTime /\ RunLate /\ DeadlineFirst
    /\ IdsKnown /\ StopKnown /\ StopIsSeen /\ AbortNeedsMisuse

\* Products of laps and periods.
LEMMA LapsTimesPeriod ==
    ASSUME NEW l \in Nat, NEW p \in Nat
    PROVE  l * p \in Nat /\ 0 * p = 0 /\ (l + 1) * p = l * p + p /\ (l + 1) - 1 = l
OBVIOUS

\* The names of TypeOK and the fields of a timer.
LEMMA TimerTypes ==
    ASSUME TypeOK
    PROVE  /\ timers_ \in Seq(TimerRec)
           /\ \A s \in Seq(TimerRec) : \A x \in Elements(s) : x \in TimerRec
           /\ \A x \in TimerRec : x.id \in Ids /\ x.expires \in Nat /\ x.period \in Nat
           /\ Ids \subseteq Nat
<1>1. timers_ \in Seq(TimerRec)
  BY DEF TypeOK, TimerRec
<1>2. \A x \in TimerRec : x.id \in Ids /\ x.expires \in Nat /\ x.period \in Nat
  BY DEF TimerRec
<1>3. ASSUME NEW s \in Seq(TimerRec), NEW x \in Elements(s) PROVE x \in TimerRec
  <2>1. PICK i \in DOMAIN s : x = s[i]
    BY DEF Elements
  <2> QED BY <2>1
<1>4. Ids \subseteq Nat
  BY DEF Ids
<1> QED BY <1>1, <1>2, <1>3, <1>4

LEMMA TimerFields ==
    ASSUME NEW id \in Ids, NEW e \in Nat, NEW p \in Nat
    PROVE  /\ Timer(id, e, p) \in TimerRec
           /\ Timer(id, e, p).id = id /\ Timer(id, e, p).expires = e /\ Timer(id, e, p).period = p
BY DEF Timer, TimerRec

\* A timer with one field changed.
LEMMA ChangedFields ==
    ASSUME NEW x \in TimerRec, NEW v \in Nat
    PROVE  /\ [x EXCEPT !.expires = v] \in TimerRec
           /\ [x EXCEPT !.expires = v].id = x.id /\ [x EXCEPT !.expires = v].expires = v
           /\ [x EXCEPT !.expires = v].period = x.period
           /\ [x EXCEPT !.period = v] \in TimerRec
           /\ [x EXCEPT !.period = v].id = x.id /\ [x EXCEPT !.period = v].expires = x.expires
           /\ [x EXCEPT !.period = v].period = v
BY DEF TimerRec

\* A call that names a queued timer finds it.
LEMMA QueuedIsElement ==
    ASSUME TypeOK, WellOrdered(timers_)
    PROVE  /\ \A id : Queued(id) <=> \E x \in Elements(timers_) : x.id = id
           /\ \A x \in Elements(timers_) : TimerOf(x.id) = x
<1>1. timers_ \in Seq(TimerRec)
  BY TimerTypes
<1>2. \A id : Queued(id) <=> \E x \in Elements(timers_) : x.id = id
  BY DEF Queued, Elements
<1>3. \A x \in Elements(timers_) : TimerOf(x.id) = x
  BY <1>1, FindFacts DEF TimerOf
<1> QED BY <1>2, <1>3

\* The front of a multimap that is not empty.
LEMMA Front ==
    ASSUME TypeOK, WellOrdered(timers_), timers_ # <<>>
    PROVE  /\ Head(timers_) \in Elements(timers_)
           /\ \A x \in Elements(timers_) : Head(timers_).expires <= x.expires
           /\ Tail(timers_) \in Seq(TimerRec) /\ WellOrdered(Tail(timers_))
           /\ Elements(Tail(timers_)) = {x \in Elements(timers_) : x.id # Head(timers_).id}
<1>1. timers_ \in Seq(TimerRec)
  BY TimerTypes
<1> QED BY <1>1, TailFacts

\* The invariant says what the properties say.
LEMMA Implied == TimerIInv => TimerInv /\ OnSchedule
<1> SUFFICES ASSUME TimerIInv PROVE TimerInv /\ OnSchedule
  OBVIOUS
<1>1. TypeOK /\ WellOrdered(timers_)
  BY DEF TimerIInv
<1>2. Ordered
  BY <1>1 DEF WellOrdered, Ordered
<1>3. WakesInTime
  <2> SUFFICES ASSUME thr = "asleep", ~woken, timers_ # <<>>
               PROVE  \E d \in deadline : d <= Head(timers_).expires
    BY DEF WakesInTime
  <2> QED BY <1>1, Front DEF TimerIInv, DeadlineFirst
<1>4. NoDrift
  <2>1. \A i \in DOMAIN timers_ : timers_[i] \in Elements(timers_)
    BY DEF Elements
  <2> QED BY <2>1 DEF NoDrift, TimerIInv, OnTime
<1>5. NeverEarly
  <2> SUFFICES ASSUME thr = "running", laps[current] > 0
               PROVE  /\ origin[current] <= now
                      /\ Queued(current) => origin[current] + (laps[current] - 1) * TimerOf(current).period <= now
    BY DEF NeverEarly
  <2>1. origin[current] <= now
    BY DEF TimerIInv, RunLate
  <2>2. ASSUME Queued(current) PROVE origin[current] + (laps[current] - 1) * TimerOf(current).period <= now
    <3>1. PICK x \in Elements(timers_) : x.id = current /\ TimerOf(current) = x
      BY <1>1, <2>2, QueuedIsElement
    <3> QED BY <3>1 DEF TimerIInv, RunLate
  <2> QED BY <2>1, <2>2
<1>6. CancelIsFinal
  BY <1>1, QueuedIsElement DEF CancelIsFinal, TimerIInv, OnTime
<1> QED BY <1>1, <1>2, <1>3, <1>4, <1>5, <1>6 DEF TimerInv, OnSchedule, TimerIInv

LEMMA InitHolds == ASSUME TimerAssumption PROVE Init => TimerIInv
<1> SUFFICES ASSUME Init PROVE TimerIInv
  OBVIOUS
<1>1. timers_ = <<>> /\ Elements(timers_) = {}
  BY DEF Init, Elements
<1>2. TypeOK
  <2>1. timers_ \in Seq([id : Ids, expires : Nat, period : Nat])
    BY <1>1
  <2>2. next_ \in 0..MaxTimers
    BY DEF Init, TimerAssumption
  <2>3. origin \in [Ids -> Nat] /\ laps \in [Ids -> Nat]
    BY DEF Init
  <2> QED BY <2>1, <2>2, <2>3 DEF Init, TypeOK, ThreadState
<1>3. WellOrdered(timers_)
  BY <1>1 DEF WellOrdered
<1> QED BY <1>1, <1>2, <1>3
        DEF Init, TimerIInv, OnTime, RunLate, DeadlineFirst, IdsKnown, StopKnown, StopIsSeen, AbortNeedsMisuse

-----------------------------------------------------------------------------
(* The steps that leave the multimap alone. *)

\* The timer that runs is one that was created.
LEMMA RunningIsKnown == TimerIInv /\ thr = "running" => current \in Ids /\ current < next_
<1> SUFFICES ASSUME TimerIInv, thr = "running" PROVE current \in Ids /\ current < next_
  OBVIOUS
<1>1. current \in Nat /\ next_ \in 0..MaxTimers /\ current < next_ /\ MaxTimers \in Nat
  BY TimerAssumption DEF TimerIInv, TypeOK, IdsKnown, TimerAssumption
<1> QED BY <1>1 DEF Ids

\* What such a step keeps, if it also starts no task and the clock does not go back.
LEMMA MapUntouched ==
    ASSUME TimerIInv, TypeOK', UNCHANGED <<timers_, next_, origin, laps, ended, current>>,
           now' \in Nat, now <= now', thr' = "running" => thr = "running"
    PROVE  WellOrdered(timers_)' /\ OnTime' /\ RunLate' /\ IdsKnown'
<1>1. WellOrdered(timers_)' /\ OnTime' /\ IdsKnown'
  BY DEF TimerIInv, OnTime, IdsKnown
<1>2. RunLate'
  <2> SUFFICES ASSUME thr' = "running", laps[current] > 0
               PROVE  /\ origin[current] <= now'
                      /\ \A x \in Elements(timers_) :
                            x.id = current => origin[current] + (laps[current] - 1) * x.period <= now'
    BY DEF RunLate
  <2>1. thr = "running" /\ current \in Ids
    BY RunningIsKnown
  <2>2. origin[current] \in Nat /\ now \in Nat /\ laps[current] \in Nat
    BY <2>1 DEF TimerIInv, TypeOK
  <2>3. origin[current] <= now'
    BY <2>1, <2>2 DEF TimerIInv, RunLate
  <2>4. ASSUME NEW x \in Elements(timers_), x.id = current
        PROVE  origin[current] + (laps[current] - 1) * x.period <= now'
    <3>1. x.period \in Nat /\ laps[current] - 1 \in Nat
      BY <2>2, TimerTypes DEF TimerIInv
    <3>2. (laps[current] - 1) * x.period \in Nat
      BY <3>1, LapsTimesPeriod
    <3>3. origin[current] + (laps[current] - 1) * x.period <= now
      BY <2>1, <2>4 DEF TimerIInv, RunLate
    <3> QED BY <2>2, <3>2, <3>3
  <2> QED BY <2>3, <2>4
<1> QED BY <1>1, <1>2

LEMMA StartupStep ==
    ASSUME TimerIInv, NEW c \in Clients, Startup(c)
    PROVE  TimerIInv'
<1>1. TypeOK'
  <2>1. misuse' \in SUBSET Misuses
    BY DEF TimerIInv, TypeOK, Startup, Misuses
  <2> QED BY <2>1 DEF TimerIInv, TypeOK, Startup, ThreadState
<1>2. WellOrdered(timers_)' /\ OnTime' /\ RunLate' /\ IdsKnown'
  BY <1>1, MapUntouched DEF Startup, TimerIInv, TypeOK
<1>3. DeadlineFirst' /\ StopIsSeen'
  BY DEF Startup, DeadlineFirst, StopIsSeen
<1>4. StopKnown' /\ AbortNeedsMisuse'
  BY DEF TimerIInv, Startup, StopKnown, AbortNeedsMisuse, TypeOK
<1> QED BY <1>1, <1>2, <1>3, <1>4 DEF TimerIInv

LEMMA ShutdownStep ==
    ASSUME TimerIInv, NEW c \in Clients, Shutdown(c)
    PROVE  TimerIInv'
<1>1. TypeOK'
  BY DEF TimerIInv, TypeOK, Shutdown
<1>2. WellOrdered(timers_)' /\ OnTime' /\ RunLate' /\ IdsKnown'
  BY <1>1, MapUntouched DEF Shutdown, TimerIInv, TypeOK
<1>3. DeadlineFirst' /\ AbortNeedsMisuse'
  BY DEF TimerIInv, Shutdown, DeadlineFirst, AbortNeedsMisuse
<1>4. \A d \in Clients : pc'[d] = (IF d = c THEN "notify_all" ELSE pc[d])
  BY DEF TimerIInv, TypeOK, Shutdown
<1>5. StopKnown' /\ StopIsSeen'
  BY <1>4 DEF TimerIInv, Shutdown, StopKnown, StopIsSeen
<1> QED BY <1>1, <1>2, <1>3, <1>5 DEF TimerIInv

LEMMA ShutdownNotifyStep ==
    ASSUME TimerIInv, NEW c \in Clients, ShutdownNotify(c)
    PROVE  TimerIInv'
<1>1. TypeOK'
  BY DEF TimerIInv, TypeOK, ShutdownNotify, Notify
<1>2. WellOrdered(timers_)' /\ OnTime' /\ RunLate' /\ IdsKnown'
  BY <1>1, MapUntouched DEF ShutdownNotify, TimerIInv, TypeOK
<1>3. thr = "asleep" => woken'
  BY DEF ShutdownNotify, Notify
<1>4. DeadlineFirst' /\ StopIsSeen' /\ AbortNeedsMisuse'
  BY <1>3 DEF TimerIInv, ShutdownNotify, DeadlineFirst, StopIsSeen, AbortNeedsMisuse
<1>5. StopKnown'
  <2>1. \A d \in Clients : d # c => pc'[d] = pc[d]
    BY DEF TimerIInv, TypeOK, ShutdownNotify
  <2>2. joinable => pc'[c] = "join"
    BY DEF TimerIInv, TypeOK, ShutdownNotify, NeedsJoin
  <2>3. stop_
    BY DEF TimerIInv, StopKnown, ShutdownNotify
  <2> QED BY <2>1, <2>2, <2>3 DEF TimerIInv, ShutdownNotify, StopKnown
<1> QED BY <1>1, <1>2, <1>4, <1>5 DEF TimerIInv

LEMMA ShutdownJoinStep ==
    ASSUME TimerIInv, NEW c \in Clients, ShutdownJoin(c)
    PROVE  TimerIInv'
<1>1. TypeOK'
  BY DEF TimerIInv, TypeOK, ShutdownJoin, ThreadState
<1>2. WellOrdered(timers_)' /\ OnTime' /\ RunLate' /\ IdsKnown'
  BY <1>1, MapUntouched DEF ShutdownJoin, TimerIInv, TypeOK
<1>3. DeadlineFirst' /\ StopIsSeen' /\ AbortNeedsMisuse'
  BY DEF TimerIInv, ShutdownJoin, DeadlineFirst, StopIsSeen, AbortNeedsMisuse
<1>4. StopKnown'
  BY DEF TimerIInv, TypeOK, ShutdownJoin, StopKnown
<1> QED BY <1>1, <1>2, <1>3, <1>4 DEF TimerIInv

\* The destructor meets a joinable thread_ behind a set stop_, and nobody in
\* shutdown(): the queue was restarted, or a task of its own stopped it.
LEMMA DestroyStep ==
    ASSUME TimerIInv, NEW c \in Clients, Destroy(c)
    PROVE  TimerIInv'
<1>1. TypeOK'
  BY DEF TimerIInv, TypeOK, Destroy
<1>2. WellOrdered(timers_)' /\ OnTime' /\ RunLate' /\ IdsKnown'
  BY <1>1, MapUntouched DEF Destroy, TimerIInv, TypeOK
<1>3. DeadlineFirst' /\ StopIsSeen' /\ StopKnown'
  BY DEF TimerIInv, Destroy, DeadlineFirst, StopIsSeen, StopKnown
<1>4. AbortNeedsMisuse'
  BY DEF TimerIInv, StopKnown, Destroy, AbortNeedsMisuse
<1> QED BY <1>1, <1>2, <1>3, <1>4 DEF TimerIInv

\* startup_() returns, the thread stops, a task returns.
LEMMA ThreadControlStep ==
    ASSUME TimerIInv, ThreadInit \/ ThreadStop \/ TaskReturns
    PROVE  TimerIInv'
<1>1. /\ UNCHANGED <<timers_, next_, stop_, joinable, deadline, woken, current, pc, now, broken, aborted,
                     misuse, origin, laps, ended>>
      /\ thr' = "loop" \/ thr' = "done"
  BY DEF ThreadInit, ThreadStop, TaskReturns
<1>2. TypeOK'
  BY <1>1 DEF TimerIInv, TypeOK, ThreadState
<1>3. WellOrdered(timers_)' /\ OnTime' /\ RunLate' /\ IdsKnown'
  BY <1>1, <1>2, MapUntouched DEF TimerIInv, TypeOK
<1>4. DeadlineFirst' /\ StopIsSeen' /\ StopKnown' /\ AbortNeedsMisuse'
  BY <1>1 DEF TimerIInv, DeadlineFirst, StopIsSeen, StopKnown, AbortNeedsMisuse
<1> QED BY <1>2, <1>3, <1>4 DEF TimerIInv

\* A task stops its own queue, or ends the process: the history says so.
LEMMA TaskMisuseStep ==
    ASSUME TimerIInv, TaskStops \/ TaskEscapes
    PROVE  TimerIInv'
<1>1. /\ UNCHANGED <<timers_, next_, joinable, deadline, woken, current, pc, now, broken, origin, laps, ended>>
      /\ thr = "running" /\ thr' \in {"loop", "running"}
      /\ misuse' \in SUBSET Misuses /\ misuse' # {}
      /\ stop_' \in BOOLEAN /\ aborted' \in BOOLEAN /\ (stop_ => stop_')
  BY DEF TaskStops, TaskEscapes, TimerIInv, TypeOK, Misuses
<1>2. TypeOK'
  BY <1>1 DEF TimerIInv, TypeOK, ThreadState
<1>3. WellOrdered(timers_)' /\ OnTime' /\ RunLate' /\ IdsKnown'
  BY <1>1, <1>2, MapUntouched DEF TimerIInv, TypeOK
<1>4. DeadlineFirst' /\ StopIsSeen' /\ StopKnown' /\ AbortNeedsMisuse'
  BY <1>1 DEF TimerIInv, DeadlineFirst, StopIsSeen, StopKnown, AbortNeedsMisuse
<1> QED BY <1>2, <1>3, <1>4 DEF TimerIInv

\* The thread goes to sleep until its first timer expires, and only before stop_ is
\* set: nobody is blocked in join() yet.
LEMMA ThreadSleepStep ==
    ASSUME TimerIInv, ThreadSleep
    PROVE  TimerIInv'
<1>1. timers_ # <<>> => Head(timers_) \in Elements(timers_)
  BY Front DEF TimerIInv
<1>2. WaitFor \in SUBSET Nat
  BY <1>1, TimerTypes DEF TimerIInv, WaitFor
<1>3. TypeOK'
  BY <1>2 DEF TimerIInv, TypeOK, ThreadSleep, ThreadState
<1>4. WellOrdered(timers_)' /\ OnTime' /\ RunLate' /\ IdsKnown'
  BY <1>3, MapUntouched DEF ThreadSleep, TimerIInv, TypeOK
<1>5. DeadlineFirst'
  <2> SUFFICES ASSUME timers_ # <<>> PROVE \E d \in deadline' : \A x \in Elements(timers_) : d <= x.expires
    BY DEF DeadlineFirst, ThreadSleep
  <2>1. deadline' = {Head(timers_).expires}
    BY DEF ThreadSleep, WaitFor
  <2> QED BY <2>1, Front DEF TimerIInv
<1>6. StopIsSeen' /\ StopKnown' /\ AbortNeedsMisuse'
  BY DEF TimerIInv, ThreadSleep, MustStop, StopIsSeen, StopKnown, AbortNeedsMisuse
<1> QED BY <1>3, <1>4, <1>5, <1>6 DEF TimerIInv

LEMMA WakeStep ==
    ASSUME TimerIInv, Wake
    PROVE  TimerIInv'
<1>1. TypeOK'
  BY DEF TimerIInv, TypeOK, Wake, ThreadState
<1>2. WellOrdered(timers_)' /\ OnTime' /\ RunLate' /\ IdsKnown'
  BY <1>1, MapUntouched DEF Wake, TimerIInv, TypeOK
<1>3. DeadlineFirst' /\ StopIsSeen' /\ StopKnown' /\ AbortNeedsMisuse'
  BY DEF TimerIInv, Wake, DeadlineFirst, StopIsSeen, StopKnown, AbortNeedsMisuse
<1> QED BY <1>1, <1>2, <1>3 DEF TimerIInv

LEMMA TickStep ==
    ASSUME TimerIInv, Tick
    PROVE  TimerIInv'
<1>1. TypeOK'
  BY DEF TimerIInv, TypeOK, Tick
<1>2. now' \in Nat /\ now <= now'
  BY DEF TimerIInv, TypeOK, Tick
<1>3. WellOrdered(timers_)' /\ OnTime' /\ RunLate' /\ IdsKnown'
  BY <1>1, <1>2, MapUntouched DEF Tick
<1>4. DeadlineFirst' /\ StopIsSeen' /\ StopKnown' /\ AbortNeedsMisuse'
  BY DEF TimerIInv, Tick, DeadlineFirst, StopIsSeen, StopKnown, AbortNeedsMisuse
<1> QED BY <1>1, <1>3, <1>4 DEF TimerIInv

LEMMA StutterStep ==
    ASSUME TimerIInv, UNCHANGED vars
    PROVE  TimerIInv'
BY DEF TimerIInv, vars, TypeOK, OnTime, RunLate, DeadlineFirst, IdsKnown, StopKnown, StopIsSeen, AbortNeedsMisuse

-----------------------------------------------------------------------------
(* The operations that change the multimap. *)

\* An operation that notifies leaves no thread asleep past a front it has changed.
LEMMA Notified ==
    ASSUME TimerIInv, Notify, UNCHANGED <<thr, stop_, joinable, pc, misuse, aborted>>
    PROVE  DeadlineFirst' /\ StopIsSeen' /\ StopKnown' /\ AbortNeedsMisuse'
<1>1. thr' = "asleep" => woken'
  BY DEF Notify
<1>2. DeadlineFirst' /\ StopIsSeen'
  BY <1>1 DEF DeadlineFirst, StopIsSeen
<1>3. StopKnown' /\ AbortNeedsMisuse'
  BY DEF TimerIInv, StopKnown, AbortNeedsMisuse
<1> QED BY <1>2, <1>3

\* The timer that runs is rescheduled, or keeps its history and its period.
LEMMA StillLate ==
    ASSUME TimerIInv, UNCHANGED <<thr, current, now>>,
           thr = "running" =>
              \/ laps'[current] = 0
              \/ /\ laps'[current] = laps[current] /\ origin'[current] = origin[current]
                 /\ \A x \in Elements(timers_)' : x.id = current =>
                       \E y \in Elements(timers_) : y.id = x.id /\ y.period = x.period
    PROVE  RunLate'
<1> SUFFICES ASSUME thr = "running", laps'[current] > 0
             PROVE  /\ origin'[current] <= now
                    /\ \A x \in Elements(timers_)' :
                          x.id = current => origin'[current] + (laps'[current] - 1) * x.period <= now
  BY DEF RunLate
<1>1. /\ laps'[current] = laps[current] /\ origin'[current] = origin[current]
      /\ \A x \in Elements(timers_)' : x.id = current =>
            \E y \in Elements(timers_) : y.id = x.id /\ y.period = x.period
  OBVIOUS
<1>2. origin[current] <= now
  BY <1>1 DEF TimerIInv, RunLate
<1>3. ASSUME NEW x \in Elements(timers_)', x.id = current
      PROVE  origin'[current] + (laps'[current] - 1) * x.period <= now
  <2>1. PICK y \in Elements(timers_) : y.id = current /\ y.period = x.period
    BY <1>1, <1>3
  <2>2. origin[current] + (laps[current] - 1) * y.period <= now
    BY <1>1, <2>1 DEF TimerIInv, RunLate
  <2> QED BY <1>1, <2>1, <2>2
<1> QED BY <1>1, <1>2, <1>3

LEMMA AddStep ==
    ASSUME TimerIInv, NEW c \in Clients, NEW e \in Nat, NEW p \in Nat, Add(c, e, p)
    PROVE  TimerIInv'
<1>1. TypeOK /\ WellOrdered(timers_) /\ timers_ \in Seq(TimerRec) /\ Ids \subseteq Nat
  BY TimerTypes DEF TimerIInv
<1>2. next_ \in Ids /\ next_ \in Nat /\ next_' = next_ + 1 /\ next_' \in 0..MaxTimers
  BY TimerAssumption DEF Add, TimerIInv, TypeOK, Ids, TimerAssumption
<1>3. PICK t \in TimerRec : t = Timer(next_, e, p) /\ t.id = next_ /\ t.expires = e /\ t.period = p
  BY <1>2, TimerFields
<1>4. \A x \in Elements(timers_) : x \in TimerRec /\ x.id \in Nat /\ x.id < next_ /\ x.id # t.id
  <2>1. \A x \in Elements(timers_) : x \in TimerRec /\ x.id \in Nat
    BY <1>1, TimerTypes
  <2>2. \A x \in Elements(timers_) : x.id < next_
    BY DEF TimerIInv, IdsKnown
  <2> QED BY <1>2, <1>3, <2>1, <2>2
<1>5. timers_' \in Seq(TimerRec) /\ WellOrdered(timers_') /\ Elements(timers_') = Elements(timers_) \cup {t}
  BY <1>1, <1>3, <1>4, EmplaceFacts DEF Add
<1>6. origin' \in [Ids -> Nat] /\ \A i \in Ids : origin'[i] = (IF i = next_ THEN e ELSE origin[i])
  BY <1>1 DEF Add, TypeOK
<1>7. laps' = laps /\ ended' = ended /\ laps[next_] = 0 /\ next_ \notin ended
  BY <1>2 DEF Add, TimerIInv, IdsKnown
<1>8. TypeOK'
  BY <1>1, <1>2, <1>5, <1>6 DEF Add, Notify, TypeOK, TimerRec
<1>9. OnTime'
  <2> SUFFICES ASSUME NEW x \in Elements(timers_')
               PROVE  x.id \notin ended /\ x.expires = origin'[x.id] + laps[x.id] * x.period
    BY <1>7 DEF OnTime
  <2>1. CASE x = t
    <3>1. 0 * p = 0
      OBVIOUS
    <3>2. x.id = next_ /\ x.expires = e /\ x.period = p /\ origin'[next_] = e
      BY <1>2, <1>3, <1>6, <2>1
    <3> QED BY <1>7, <3>1, <3>2
  <2>2. CASE x \in Elements(timers_)
    <3>1. x.id \in Ids /\ x.id # next_
      BY <1>3, <1>4, <2>2, TimerTypes, <1>1
    <3> QED BY <1>6, <2>2, <3>1 DEF TimerIInv, OnTime
  <2> QED BY <1>5, <2>1, <2>2
<1>10. RunLate'
  <2>1. ASSUME thr = "running"
        PROVE  /\ laps'[current] = laps[current] /\ origin'[current] = origin[current]
               /\ \A x \in Elements(timers_') : x.id = current => x \in Elements(timers_)
    <3>1. current \in Ids /\ current # next_
      BY <1>1, <1>2, <2>1, RunningIsKnown
    <3> QED BY <1>3, <1>5, <1>6, <1>7, <3>1
  <2> QED BY <2>1, StillLate DEF Add
<1>11. IdsKnown'
  <2>1. \A x \in Elements(timers_') : x.id < next_'
    BY <1>2, <1>3, <1>4, <1>5
  <2>2. \A i \in Ids : i >= next_' => laps'[i] = 0 /\ i \notin ended'
    <3>1. \A i \in Ids : i >= next_' => i >= next_
      BY <1>1, <1>2
    <3> QED BY <1>7, <3>1 DEF TimerIInv, IdsKnown
  <2>3. thr' = "running" => current' < next_'
    <3>1. thr' = thr /\ current' = current /\ current \in Nat
      BY <1>1 DEF Add, TypeOK
    <3>2. thr = "running" => current < next_
      BY RunningIsKnown
    <3> QED BY <1>2, <3>1, <3>2
  <2> QED BY <2>1, <2>2, <2>3 DEF IdsKnown
<1>12. DeadlineFirst' /\ StopIsSeen' /\ StopKnown' /\ AbortNeedsMisuse'
  BY Notified DEF Add
<1> QED BY <1>5, <1>8, <1>9, <1>10, <1>11, <1>12 DEF TimerIInv

\* cancel(), and refresh() of a timer that is late: the timer leaves the multimap.
LEMMA RemovalStep ==
    ASSUME TimerIInv, NEW c \in Clients, NEW id \in Ids, Cancel(c, id) \/ RefreshLate(c, id)
    PROVE  TimerIInv'
<1>1. TypeOK /\ WellOrdered(timers_) /\ timers_ \in Seq(TimerRec) /\ Ids \subseteq Nat
  BY TimerTypes DEF TimerIInv
<1>2. PICK y \in Elements(timers_) : y.id = id
  BY <1>1, QueuedIsElement DEF Cancel, RefreshLate
<1>3. timers_' \in Seq(TimerRec) /\ WellOrdered(timers_')
      /\ Elements(timers_') = {x \in Elements(timers_) : x.id # id}
  BY <1>1, <1>2, EraseFacts DEF Cancel, RefreshLate
<1>4. /\ UNCHANGED <<next_, stop_, joinable, thr, deadline, current, pc, now, broken, aborted, misuse, origin, laps>>
      /\ ended' \subseteq ended \cup {id} /\ Notify
  BY DEF Cancel, RefreshLate
<1>5. TypeOK'
  BY <1>1, <1>3, <1>4 DEF Notify, TypeOK, TimerRec
<1>6. OnTime'
  BY <1>3, <1>4 DEF TimerIInv, OnTime
<1>7. RunLate'
  <2>1. \A x \in Elements(timers_)' : x \in Elements(timers_)
    BY <1>3
  <2> QED BY <1>4, <2>1, StillLate
<1>8. IdsKnown'
  <2>1. id < next_ /\ id \in Nat /\ next_ \in Nat
    BY <1>1, <1>2 DEF TimerIInv, IdsKnown, TypeOK
  <2>2. \A i \in Ids : i >= next_ => i # id
    BY <1>1, <2>1
  <2> QED BY <1>3, <1>4, <2>2 DEF TimerIInv, IdsKnown
<1>9. DeadlineFirst' /\ StopIsSeen' /\ StopKnown' /\ AbortNeedsMisuse'
  BY <1>4, Notified
<1> QED BY <1>3, <1>5, <1>6, <1>7, <1>8, <1>9 DEF TimerIInv

LEMMA ClearStep ==
    ASSUME TimerIInv, NEW c \in Clients, Clear(c)
    PROVE  TimerIInv'
<1>1. TypeOK /\ WellOrdered(timers_)
  BY DEF TimerIInv
<1>2. timers_' = <<>> /\ Elements(timers_') = {} /\ WellOrdered(timers_')
  BY DEF Clear, Elements, WellOrdered
<1>3. TypeOK'
  <2>1. timers_' \in Seq([id : Ids, expires : Nat, period : Nat])
    BY <1>2
  <2> QED BY <1>1, <2>1 DEF Clear, TypeOK
<1>4. OnTime'
  BY <1>2 DEF OnTime
<1>5. RunLate'
  BY <1>2, StillLate DEF Clear
<1>6. IdsKnown'
  <2>1. ASSUME NEW i \in Ids, i >= next_ PROVE i \notin ended'
    <3>1. i \notin ended
      BY <2>1 DEF TimerIInv, IdsKnown
    <3>2. ~Queued(i)
      <4>1. SUFFICES ASSUME NEW x \in Elements(timers_), x.id = i PROVE FALSE
        BY <1>1, QueuedIsElement
      <4>2. i < next_ /\ i \in Nat /\ next_ \in Nat
        BY <1>1, <4>1, TimerTypes DEF TimerIInv, IdsKnown, TypeOK
      <4> QED BY <2>1, <4>2
    <3> QED BY <3>1, <3>2 DEF Clear
  <2> QED BY <1>2, <2>1 DEF TimerIInv, IdsKnown, Clear
<1>7. DeadlineFirst' /\ StopIsSeen' /\ StopKnown' /\ AbortNeedsMisuse'
  BY <1>2 DEF TimerIInv, Clear, DeadlineFirst, StopIsSeen, StopKnown, AbortNeedsMisuse
<1> QED BY <1>2, <1>3, <1>4, <1>5, <1>6, <1>7 DEF TimerIInv

\* reset(), and refresh() of a timer that is not late: the timer leaves the multimap
\* and comes back with another expiry.
LEMMA RescheduleStep ==
    ASSUME TimerIInv, NEW id \in Ids, NEW e \in Nat, NEW p \in Nat, Queued(id), Reschedule(id, e, p), Notify,
           UNCHANGED <<next_, stop_, joinable, thr, deadline, current, pc, now, aborted, misuse, ended>>
    PROVE  TimerIInv'
<1>1. TypeOK /\ WellOrdered(timers_) /\ timers_ \in Seq(TimerRec) /\ Ids \subseteq Nat
  BY TimerTypes DEF TimerIInv
<1>2. PICK y \in Elements(timers_) : y.id = id
  BY <1>1, QueuedIsElement
<1>3. PICK t \in TimerRec : t = Timer(id, e, p) /\ t.id = id /\ t.expires = e /\ t.period = p
  BY TimerFields
<1>4. PICK s : s = Erase(timers_, id)
  OBVIOUS
<1>5. s \in Seq(TimerRec) /\ WellOrdered(s) /\ Elements(s) = {x \in Elements(timers_) : x.id # id}
  BY <1>1, <1>2, <1>4, EraseFacts
<1>6. /\ timers_' \in Seq(TimerRec) /\ WellOrdered(timers_')
      /\ Elements(timers_') = {x \in Elements(timers_) : x.id # id} \cup {t}
  <2>1. timers_' = Emplace(s, t)
    BY <1>3, <1>4 DEF Reschedule
  <2>2. \A x \in Elements(s) : x.id # t.id
    BY <1>3, <1>5
  <2> QED BY <1>5, <2>1, <2>2, EmplaceFacts
<1>7. /\ origin' \in [Ids -> Nat] /\ \A i \in Ids : origin'[i] = (IF i = id THEN e ELSE origin[i])
      /\ laps' \in [Ids -> Nat] /\ \A i \in Ids : laps'[i] = (IF i = id THEN 0 ELSE laps[i])
  BY <1>1 DEF Reschedule, TypeOK
<1>8. \A x \in Elements(timers_) : x.id \in Ids
  BY <1>1, TimerTypes
<1>9. TypeOK'
  <2>1. broken' \in BOOLEAN
    BY DEF Reschedule
  <2> QED BY <1>1, <1>6, <1>7, <2>1 DEF Notify, TypeOK, TimerRec
<1>10. OnTime'
  <2> SUFFICES ASSUME NEW x \in Elements(timers_')
               PROVE  x.id \notin ended /\ x.expires = origin'[x.id] + laps'[x.id] * x.period
    BY DEF OnTime
  <2>1. CASE x = t
    <3>1. x.id = id /\ x.expires = e /\ x.period = p /\ origin'[id] = e /\ laps'[id] = 0 /\ 0 * p = 0
      BY <1>3, <1>7, <2>1
    <3>2. id \notin ended
      BY <1>2 DEF TimerIInv, OnTime
    <3> QED BY <3>1, <3>2
  <2>2. CASE x \in Elements(timers_) /\ x.id # id
    <3>1. origin'[x.id] = origin[x.id] /\ laps'[x.id] = laps[x.id]
      BY <1>7, <1>8, <2>2
    <3> QED BY <2>2, <3>1 DEF TimerIInv, OnTime
  <2> QED BY <1>6, <2>1, <2>2
<1>11. RunLate'
  <2>1. ASSUME thr = "running", current # id
        PROVE  /\ laps'[current] = laps[current] /\ origin'[current] = origin[current]
               /\ \A x \in Elements(timers_') : x.id = current => x \in Elements(timers_)
    BY <1>3, <1>6, <1>7, <2>1, RunningIsKnown
  <2>2. current = id => laps'[current] = 0
    BY <1>7
  <2> QED BY <2>1, <2>2, StillLate
<1>12. IdsKnown'
  <2>1. id < next_ /\ id \in Nat /\ next_ \in Nat
    BY <1>1, <1>2 DEF TimerIInv, IdsKnown, TypeOK
  <2>2. \A x \in Elements(timers_') : x.id < next_'
    BY <1>3, <1>6, <2>1 DEF TimerIInv, IdsKnown
  <2>3. \A i \in Ids : i >= next_ => laps'[i] = 0 /\ i \notin ended
    BY <1>1, <1>7, <2>1 DEF TimerIInv, IdsKnown
  <2> QED BY <2>2, <2>3 DEF TimerIInv, IdsKnown
<1>13. DeadlineFirst' /\ StopIsSeen' /\ StopKnown' /\ AbortNeedsMisuse'
  BY Notified
<1> QED BY <1>6, <1>9, <1>10, <1>11, <1>12, <1>13 DEF TimerIInv

LEMMA ResetStep ==
    ASSUME TimerIInv, NEW c \in Clients, NEW id \in Ids, NEW o \in Nat, NEW p \in Nat, Reset(c, id, o, p)
    PROVE  TimerIInv'
<1>1. PICK y \in Elements(timers_) : y.id = id /\ TimerOf(id) = y
  BY QueuedIsElement DEF TimerIInv, Reset
<1>2. y.period \in Nat
  BY TimerTypes DEF TimerIInv
<1>3. PICK q \in Nat : q = IF p = 0 THEN TimerOf(id).period ELSE p
  BY <1>1, <1>2
<1>4. PICK e \in Nat : e = now + o
  BY DEF TimerIInv, TypeOK
<1> QED BY <1>3, <1>4, RescheduleStep DEF Reset

LEMMA RefreshStep ==
    ASSUME TimerIInv, NEW c \in Clients, NEW id \in Ids, Refresh(c, id)
    PROVE  TimerIInv'
<1>1. PICK y \in Elements(timers_) : y.id = id /\ TimerOf(id) = y
  BY QueuedIsElement DEF TimerIInv, Refresh
<1>2. y.period \in Nat
  BY TimerTypes DEF TimerIInv
<1>3. PICK e \in Nat : e = now + TimerOf(id).period
  BY <1>1, <1>2 DEF TimerIInv, TypeOK
<1> QED BY <1>1, <1>2, <1>3, RescheduleStep DEF Refresh

\* What repeats() makes of the multimap.
Repeated(s, id, p) == [i \in DOMAIN s |-> IF s[i].id = id THEN [s[i] EXCEPT !.period = p] ELSE s[i]]

\* repeats() changes one element where it stands.
LEMMA RepeatsFacts ==
    ASSUME NEW s \in Seq(TimerRec), WellOrdered(s), NEW id \in Ids, NEW p \in Nat
    PROVE  /\ Repeated(s, id, p) \in Seq(TimerRec) /\ WellOrdered(Repeated(s, id, p))
           /\ \A x \in Elements(Repeated(s, id, p)) : \E z \in Elements(s) :
                 x.id = z.id /\ x.expires = z.expires /\ x.period = (IF z.id = id THEN p ELSE z.period)
<1>1. PICK r : r = Repeated(s, id, p)
  OBVIOUS
<1>2. Len(s) \in Nat /\ DOMAIN s = 1..Len(s) /\ DOMAIN r = 1..Len(s)
  BY <1>1 DEF Repeated
<1>3. ASSUME NEW i \in 1..Len(s)
      PROVE  /\ r[i] \in TimerRec /\ r[i].id = s[i].id /\ r[i].expires = s[i].expires
             /\ r[i].period = (IF s[i].id = id THEN p ELSE s[i].period)
  <2>1. s[i] \in TimerRec /\ r[i] = IF s[i].id = id THEN [s[i] EXCEPT !.period = p] ELSE s[i]
    BY <1>1, <1>2 DEF Repeated
  <2>2. CASE s[i].id = id
    <3>1. PICK x \in TimerRec : x = s[i]
      BY <2>1
    <3>2. PICK q : q = [x EXCEPT !.period = p]
      OBVIOUS
    <3>3. q \in TimerRec /\ q.id = x.id /\ q.expires = x.expires /\ q.period = p
      BY <3>2 DEF TimerRec
    <3>4. r[i] = q
      BY <2>1, <2>2, <3>1, <3>2
    <3> QED BY <2>2, <3>1, <3>3, <3>4
  <2>3. CASE s[i].id # id
    BY <2>1, <2>3
  <2> QED BY <2>2, <2>3
<1>4. r \in Seq(TimerRec) /\ Len(r) = Len(s)
  <2>1. r \in [1..Len(s) -> TimerRec]
    <3>1. r = [i \in 1..Len(s) |-> r[i]]
      BY <1>1, <1>2 DEF Repeated
    <3> QED BY <1>3, <3>1
  <2> QED BY <1>2, <2>1
<1>5. WellOrdered(r)
  BY <1>2, <1>3 DEF WellOrdered
<1>6. \A x \in Elements(r) : \E z \in Elements(s) :
         x.id = z.id /\ x.expires = z.expires /\ x.period = (IF z.id = id THEN p ELSE z.period)
  <2> SUFFICES ASSUME NEW x \in Elements(r)
               PROVE  \E z \in Elements(s) :
                         x.id = z.id /\ x.expires = z.expires /\ x.period = (IF z.id = id THEN p ELSE z.period)
    OBVIOUS
  <2>1. PICK i \in 1..Len(s) : x = r[i]
    BY <1>2 DEF Elements
  <2>2. s[i] \in Elements(s)
    BY <1>2 DEF Elements
  <2> QED BY <1>3, <2>1, <2>2
<1> QED BY <1>1, <1>4, <1>5, <1>6

LEMMA RepeatsStep ==
    ASSUME TimerIInv, NEW c \in Clients, NEW id \in Ids, NEW p \in Nat, Repeats(c, id, p)
    PROVE  TimerIInv'
<1>1. TypeOK /\ WellOrdered(timers_) /\ timers_ \in Seq(TimerRec) /\ Ids \subseteq Nat
  BY TimerTypes DEF TimerIInv
<1>2. PICK y \in Elements(timers_) : y.id = id /\ TimerOf(id) = y /\ y.expires \in Nat
  BY <1>1, QueuedIsElement, TimerTypes DEF Repeats
<1>3. PICK r : r = timers_'
  OBVIOUS
<1>4. /\ r \in Seq(TimerRec) /\ WellOrdered(r)
      /\ \A x \in Elements(r) : \E z \in Elements(timers_) :
            x.id = z.id /\ x.expires = z.expires /\ x.period = (IF z.id = id THEN p ELSE z.period)
  <2>1. r = Repeated(timers_, id, p)
    BY <1>3 DEF Repeats, Repeated
  <2> QED BY <1>1, <2>1, RepeatsFacts
<1>5. /\ origin' \in [Ids -> Nat] /\ \A i \in Ids : origin'[i] = (IF i = id THEN y.expires ELSE origin[i])
      /\ laps' \in [Ids -> Nat] /\ \A i \in Ids : laps'[i] = (IF i = id THEN 0 ELSE laps[i])
  BY <1>1, <1>2 DEF Repeats, TypeOK
<1>6. \A x \in Elements(timers_) : x.id \in Ids /\ x.expires \in Nat /\ TimerOf(x.id) = x
  BY <1>1, TimerTypes, QueuedIsElement
<1>7. TypeOK'
  BY <1>1, <1>3, <1>4, <1>5 DEF Repeats, TypeOK, TimerRec
<1>8. OnTime'
  <2> SUFFICES ASSUME NEW x \in Elements(r)
               PROVE  x.id \notin ended /\ x.expires = origin'[x.id] + laps'[x.id] * x.period
    BY <1>3 DEF OnTime, Repeats
  <2>1. PICK z \in Elements(timers_) :
            x.id = z.id /\ x.expires = z.expires /\ x.period = (IF z.id = id THEN p ELSE z.period)
    BY <1>4
  <2>2. z.id \notin ended /\ z.expires = origin[z.id] + laps[z.id] * z.period
    BY DEF TimerIInv, OnTime
  <2>3. CASE z.id = id
    <3>1. x.expires = y.expires /\ x.id = id /\ x.period = p
      BY <1>2, <1>6, <2>1, <2>3
    <3>2. origin'[id] = y.expires /\ laps'[id] = 0 /\ 0 * p = 0
      BY <1>5
    <3> QED BY <1>2, <2>1, <2>2, <3>1, <3>2
  <2>4. CASE z.id # id
    <3>1. origin'[z.id] = origin[z.id] /\ laps'[z.id] = laps[z.id]
      BY <1>5, <1>6, <2>4
    <3> QED BY <2>1, <2>2, <2>4, <3>1
  <2> QED BY <2>3, <2>4
<1>9. RunLate'
  <2>1. current = id => laps'[current] = 0
    BY <1>5
  <2>2. ASSUME thr = "running", current # id
        PROVE  /\ laps'[current] = laps[current] /\ origin'[current] = origin[current]
               /\ \A x \in Elements(timers_)' : x.id = current =>
                     \E z \in Elements(timers_) : z.id = x.id /\ z.period = x.period
    <3>1. laps'[current] = laps[current] /\ origin'[current] = origin[current]
      BY <1>5, <2>2, RunningIsKnown
    <3>2. ASSUME NEW x \in Elements(r), x.id = current
          PROVE  \E z \in Elements(timers_) : z.id = x.id /\ z.period = x.period
      BY <1>4, <2>2, <3>2
    <3> QED BY <1>3, <3>1, <3>2
  <2>3. UNCHANGED <<thr, current, now>>
    BY DEF Repeats
  <2> QED BY <2>1, <2>2, <2>3, StillLate
<1>10. IdsKnown'
  <2>1. \A x \in Elements(r) : x.id < next_
    BY <1>4 DEF TimerIInv, IdsKnown
  <2>2. \A i \in Ids : i >= next_ => laps'[i] = 0
    BY <1>5 DEF TimerIInv, IdsKnown
  <2> QED BY <1>3, <2>1, <2>2 DEF TimerIInv, IdsKnown, Repeats
<1>11. DeadlineFirst'
  <2> SUFFICES ASSUME thr = "asleep", ~woken, r # <<>>
               PROVE  \E d \in deadline : \A x \in Elements(r) : d <= x.expires
    BY <1>3 DEF DeadlineFirst, Repeats
  <2>1. timers_ # <<>>
    BY DEF Repeats, Queued
  <2>2. PICK d \in deadline : \A z \in Elements(timers_) : d <= z.expires
    BY <2>1 DEF TimerIInv, DeadlineFirst
  <2>3. \A x \in Elements(r) : d <= x.expires
    BY <1>4, <2>2
  <2> QED BY <2>3
<1>12. StopIsSeen' /\ StopKnown' /\ AbortNeedsMisuse'
  BY DEF TimerIInv, Repeats, StopIsSeen, StopKnown, AbortNeedsMisuse
<1> QED BY <1>3, <1>4, <1>7, <1>8, <1>9, <1>10, <1>11, <1>12 DEF TimerIInv

\* The front is due: it leaves the multimap, and comes back one period later if it is
\* periodic.
LEMMA FireStep ==
    ASSUME TimerIInv, Fire
    PROVE  TimerIInv'
<1>1. TypeOK /\ WellOrdered(timers_) /\ timers_ \in Seq(TimerRec) /\ Ids \subseteq Nat /\ timers_ # <<>>
  BY TimerTypes DEF TimerIInv, Fire
<1>2. PICK f : f = Head(timers_)
  OBVIOUS
<1>3. PICK u : u = Tail(timers_)
  OBVIOUS
<1>4. /\ f \in Elements(timers_) /\ u \in Seq(TimerRec) /\ WellOrdered(u)
      /\ Elements(u) = {x \in Elements(timers_) : x.id # f.id}
  BY <1>1, <1>2, <1>3, Front
<1>5. f \in TimerRec /\ f.id \in Ids /\ f.id \in Nat /\ f.expires \in Nat /\ f.period \in Nat
  BY <1>1, <1>4, TimerTypes
<1>6. f.expires <= now /\ current' = f.id
  BY <1>2 DEF Fire, IsDue
<1>7. laps' \in [Ids -> Nat] /\ \A i \in Ids : laps'[i] = (IF i = f.id THEN laps[i] + 1 ELSE laps[i])
  <2>1. laps' = [laps EXCEPT ![f.id] = @ + 1]
    BY <1>2 DEF Fire
  <2>2. laps \in [Ids -> Nat]
    BY <1>1 DEF TypeOK
  <2> QED BY <1>5, <2>1, <2>2
<1>8. /\ origin[f.id] \in Nat /\ laps[f.id] \in Nat /\ now \in Nat
      /\ f.id \notin ended /\ f.expires = origin[f.id] + laps[f.id] * f.period
  BY <1>1, <1>4, <1>5 DEF TimerIInv, OnTime, TypeOK
<1>9. laps[f.id] * f.period \in Nat /\ (laps[f.id] + 1) * f.period = laps[f.id] * f.period + f.period
      /\ (laps[f.id] + 1) - 1 = laps[f.id]
  BY <1>5, <1>8, LapsTimesPeriod
<1>10. \A x \in Elements(timers_) : x.id \in Ids
  BY <1>1, TimerTypes
<1>11. PICK g \in TimerRec : /\ g = [f EXCEPT !.expires = NextExpiry(f)]
                             /\ g.id = f.id /\ g.expires = f.expires + f.period /\ g.period = f.period
  <2>1. NextExpiry(f) = f.expires + f.period /\ f.expires + f.period \in Nat
    BY <1>5 DEF NextExpiry
  <2> QED BY <1>5, <2>1, ChangedFields
<1>12. PICK r : r = timers_'
  OBVIOUS
<1>13. /\ r \in Seq(TimerRec) /\ WellOrdered(r)
       /\ \A x \in Elements(r) : (x \in Elements(timers_) /\ x.id # f.id) \/ x = g
  <2>1. CASE PutBack(f)
    <3>1. r = Emplace(u, g)
      BY <1>2, <1>3, <1>11, <1>12, <2>1 DEF Fire
    <3>2. \A x \in Elements(u) : x.id # g.id
      BY <1>4, <1>11
    <3>3. r \in Seq(TimerRec) /\ WellOrdered(r) /\ Elements(r) = Elements(u) \cup {g}
      BY <1>4, <3>1, <3>2, EmplaceFacts
    <3> QED BY <1>4, <3>3
  <2>2. CASE ~PutBack(f)
    <3>1. r = u
      BY <1>2, <1>3, <1>12, <2>2 DEF Fire
    <3> QED BY <1>4, <3>1
  <2> QED BY <2>1, <2>2
<1>14. TypeOK'
  BY <1>1, <1>5, <1>6, <1>7, <1>12, <1>13 DEF Fire, TypeOK, TimerRec, ThreadState
<1>15. OnTime'
  <2> SUFFICES ASSUME NEW x \in Elements(r)
               PROVE  x.id \notin ended /\ x.expires = origin[x.id] + laps'[x.id] * x.period
    BY <1>12 DEF OnTime, Fire
  <2>1. CASE x = g
    <3>1. laps'[f.id] = laps[f.id] + 1
      BY <1>5, <1>7
    <3> QED BY <1>5, <1>8, <1>9, <1>11, <2>1, <3>1
  <2>2. CASE x \in Elements(timers_) /\ x.id # f.id
    <3>1. laps'[x.id] = laps[x.id]
      BY <1>7, <1>10, <2>2
    <3> QED BY <2>2, <3>1 DEF TimerIInv, OnTime
  <2> QED BY <1>13, <2>1, <2>2
<1>16. RunLate'
  <2>1. laps'[f.id] = laps[f.id] + 1 /\ now' = now /\ origin' = origin
    BY <1>5, <1>7 DEF Fire
  <2>2. origin[f.id] <= now
    BY <1>5, <1>6, <1>8, <1>9
  <2>3. origin[f.id] + laps[f.id] * f.period <= now
    BY <1>6, <1>8
  <2>4. ASSUME NEW x \in Elements(r), x.id = f.id PROVE x.period = f.period
    BY <1>11, <1>13, <2>4
  <2>5. \A x \in Elements(r) : x.id = f.id => origin[f.id] + (laps'[f.id] - 1) * x.period <= now
    BY <1>9, <2>1, <2>3, <2>4
  <2> QED BY <1>6, <1>12, <2>1, <2>2, <2>5 DEF RunLate
<1>17. IdsKnown'
  <2>1. f.id < next_ /\ next_ \in Nat
    BY <1>1, <1>4 DEF TimerIInv, IdsKnown, TypeOK
  <2>2. \A x \in Elements(r) : x.id < next_
    BY <1>11, <1>13, <2>1 DEF TimerIInv, IdsKnown
  <2>3. \A i \in Ids : i >= next_ => laps'[i] = 0 /\ i \notin ended
    BY <1>1, <1>5, <1>7, <2>1 DEF TimerIInv, IdsKnown
  <2> QED BY <1>6, <1>12, <2>1, <2>2, <2>3 DEF IdsKnown, Fire
<1>18. DeadlineFirst' /\ StopIsSeen' /\ StopKnown' /\ AbortNeedsMisuse'
  BY DEF TimerIInv, Fire, DeadlineFirst, StopIsSeen, StopKnown, AbortNeedsMisuse
<1> QED BY <1>12, <1>13, <1>14, <1>15, <1>16, <1>17, <1>18 DEF TimerIInv

-----------------------------------------------------------------------------
(* The theorems. *)

LEMMA ClientCallStep ==
    ASSUME TimerIInv, NEW c \in Clients, ClientCall(c)
    PROVE  TimerIInv'
<1>1. Times \subseteq Nat /\ Periods \cup {0} \subseteq Nat /\ Offsets \subseteq Nat
  BY TimerAssumption DEF TimerAssumption, Times
<1>2. ASSUME NEW e \in Times, NEW p \in Periods \cup {0}, Add(c, e, p) PROVE TimerIInv'
  <2>1. e \in Nat /\ p \in Nat
    BY <1>1
  <2> QED BY <1>2, <2>1, AddStep
<1>3. ASSUME NEW id \in Ids, NEW p \in Periods \cup {0}, Repeats(c, id, p) PROVE TimerIInv'
  <2>1. p \in Nat
    BY <1>1
  <2> QED BY <1>3, <2>1, RepeatsStep
<1>4. ASSUME NEW id \in Ids, Cancel(c, id) \/ Refresh(c, id) \/ RefreshLate(c, id) PROVE TimerIInv'
  BY <1>4, RemovalStep, RefreshStep
<1>5. ASSUME NEW id \in Ids, NEW o \in Offsets, NEW p \in Periods \cup {0}, Reset(c, id, o, p) PROVE TimerIInv'
  <2>1. o \in Nat /\ p \in Nat
    BY <1>1
  <2> QED BY <1>5, <2>1, ResetStep
<1> QED BY <1>2, <1>3, <1>4, <1>5, ClearStep, StartupStep, ShutdownStep, DestroyStep DEF ClientCall

LEMMA NextKeeps == TimerIInv /\ [Next]_vars => TimerIInv'
<1> SUFFICES ASSUME TimerIInv, [Next]_vars PROVE TimerIInv'
  OBVIOUS
<1>1. ASSUME NEW c \in Clients, ClientCall(c) PROVE TimerIInv'
  BY <1>1, ClientCallStep
<1>2. ASSUME NEW c \in Clients, ClientStep(c) PROVE TimerIInv'
  BY <1>2, ShutdownNotifyStep, ShutdownJoinStep DEF ClientStep
<1>3. ASSUME ThreadStep PROVE TimerIInv'
  BY <1>3, ThreadControlStep, TaskMisuseStep, FireStep, ThreadSleepStep DEF ThreadStep
<1>4. CASE Wake
  BY <1>4, WakeStep
<1>5. CASE Tick
  BY <1>5, TickStep
<1>6. CASE UNCHANGED vars
  BY <1>6, StutterStep
<1> QED BY <1>1, <1>2, <1>3, <1>4, <1>5, <1>6 DEF Next

LEMMA Inductive == Spec => []TimerIInv
<1>1. Init => TimerIInv
  BY InitHolds, TimerAssumption
<1> QED BY <1>1, NextKeeps, PTL DEF Spec

\* The timer queue keeps its multimap in order of expiry with no id twice, never
\* sleeps past its front or past a request to stop, and ends the process only when
\* startup() was called after shutdown(), a task stopped its own queue or a task
\* threw what is no std::exception.
THEOREM TimerCorrect == Spec => []TimerInv
<1>1. TimerIInv => TimerInv
  BY Implied
<1> QED BY <1>1, Inductive, PTL

\* A timer is run at the times asked for: run() adds whole periods to the first
\* expiry, runs no task before its time, and nothing brings back a timer that
\* cancel() or clear() has removed.
THEOREM ScheduleKept == Spec => []OnSchedule
<1>1. TimerIInv => OnSchedule
  BY Implied
<1> QED BY <1>1, Inductive, PTL
=============================================================================
