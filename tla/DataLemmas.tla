----------------------------- MODULE DataLemmas -----------------------------
(***************************************************************************)
(* Facts about sequences and finite sets that the proofs of several        *)
(* components rest on.                                                     *)
(***************************************************************************)
EXTENDS Integers, SequencesExt, VectorOps, FiniteSetTheorems, SequenceTheorems,
        WellFoundedInduction, TLAPS

\* How one element more or less changes the size of a finite set.
LEMMA OneMoreOrLess ==
  ASSUME NEW S, NEW T, NEW x, IsFiniteSet(S)
  PROVE  /\ Cardinality(S) \in Nat
         /\ T = S \cup {x} => /\ Cardinality(T) \in Nat
                              /\ Cardinality(T) >= Cardinality(S)
                              /\ x \notin S => Cardinality(T) = Cardinality(S) + 1
         /\ T = S \ {x} /\ x \in S => Cardinality(T) = Cardinality(S) - 1
<1>1. Cardinality(S) \in Nat
  BY FS_CardinalityType
<1>2. Cardinality(S \cup {x}) = IF x \in S THEN Cardinality(S) ELSE Cardinality(S) + 1
  BY FS_AddElement
<1>3. Cardinality(S \ {x}) = IF x \in S THEN Cardinality(S) - 1 ELSE Cardinality(S)
  BY FS_RemoveElement
<1> QED
  BY <1>1, <1>2, <1>3

\* A function that extends a sequence by one element at its end.
LEMMA AppendIs ==
  ASSUME NEW S, NEW q \in Seq(S), NEW x \in S, NEW f,
         \A i \in 1 .. Len(q) : f[i] = q[i], f[Len(q) + 1] = x
  PROVE  [i \in 1 .. Len(q) + 1 |-> f[i]] = Append(q, x)
<1> DEFINE r == [i \in 1 .. Len(q) + 1 |-> f[i]]
<1>1. Len(q) \in Nat /\ \A i \in 1 .. Len(q) : q[i] \in S
  BY LenProperties
<1>2. \A i \in 1 .. Len(q) + 1 : f[i] \in S
  BY <1>1
<1>3. r \in Seq(S) /\ Len(r) = Len(q) + 1
  BY <1>1, <1>2
<1>4. /\ Append(q, x) \in Seq(S)
      /\ Len(Append(q, x)) = Len(q) + 1
      /\ \A i \in 1 .. Len(q) : Append(q, x)[i] = q[i]
      /\ Append(q, x)[Len(q) + 1] = x
  BY AppendProperties
<1>5. \A i \in 1 .. Len(r) : r[i] = Append(q, x)[i]
  BY <1>1, <1>3, <1>4
<1> HIDE DEF r
<1> QED
  BY <1>3, <1>4, <1>5, SeqEqual DEF r

\* A function that drops the first element of a sequence.
LEMMA TailIs ==
  ASSUME NEW S, NEW q \in Seq(S), q # <<>>, NEW f,
         \A i \in 1 .. Len(q) - 1 : f[i] = q[i + 1]
  PROVE  [i \in 1 .. Len(q) - 1 |-> f[i]] = Tail(q)
<1> DEFINE r == [i \in 1 .. Len(q) - 1 |-> f[i]]
<1>1. Len(q) \in Nat \ {0} /\ \A i \in 1 .. Len(q) : q[i] \in S
  BY LenProperties, EmptySeq
<1>2. \A i \in 1 .. Len(q) - 1 : f[i] \in S
  BY <1>1
<1>3. r \in Seq(S) /\ Len(r) = Len(q) - 1
  BY <1>1, <1>2
<1>4. /\ Tail(q) \in Seq(S)
      /\ Len(Tail(q)) = Len(q) - 1
      /\ \A i \in 1 .. Len(Tail(q)) : Tail(q)[i] = q[i + 1]
  BY HeadTailProperties
<1>5. \A i \in 1 .. Len(r) : r[i] = Tail(q)[i]
  BY <1>1, <1>3, <1>4
<1> HIDE DEF r
<1> QED
  BY <1>3, <1>4, <1>5, SeqEqual DEF r

\* What erasing one element does to a sequence.
LEMMA RemoveAtProperties ==
  ASSUME NEW S, NEW q \in Seq(S), NEW i \in 1 .. Len(q)
  PROVE  /\ RemoveAt(q, i) \in Seq(S)
         /\ Len(RemoveAt(q, i)) = Len(q) - 1
         /\ \A j \in 1 .. Len(q) - 1 :
               RemoveAt(q, i)[j] = IF j < i THEN q[j] ELSE q[j + 1]
<1> DEFINE l == SubSeq(q, 1, i - 1)
           r == SubSeq(q, i + 1, Len(q))
<1>1. Len(q) \in Nat /\ i \in Int /\ \A j \in 1 .. Len(q) : q[j] \in S
  BY LenProperties
<1>2. /\ l \in Seq(S)
      /\ Len(l) = i - 1
      /\ \A j \in 1 .. i - 1 : l[j] = q[j]
  <2>1. 1 \in Int /\ i - 1 \in Int /\ \A j \in 1 .. i - 1 : q[j] \in S
    BY <1>1
  <2>2. /\ l \in Seq(S)
        /\ Len(l) = IF 1 <= i - 1 THEN (i - 1) - 1 + 1 ELSE 0
        /\ \A j \in 1 .. (i - 1) - 1 + 1 : l[j] = q[1 + j - 1]
    BY <2>1, SubSeqProperties
  <2> QED
    BY <1>1, <2>2
<1>3. /\ r \in Seq(S)
      /\ Len(r) = Len(q) - i
      /\ \A j \in 1 .. Len(q) - i : r[j] = q[i + j]
  <2>1. i + 1 \in Int /\ Len(q) \in Int /\ \A j \in i + 1 .. Len(q) : q[j] \in S
    BY <1>1
  <2>2. /\ r \in Seq(S)
        /\ Len(r) = IF i + 1 <= Len(q) THEN Len(q) - (i + 1) + 1 ELSE 0
        /\ \A j \in 1 .. Len(q) - (i + 1) + 1 : r[j] = q[(i + 1) + j - 1]
    BY <2>1, SubSeqProperties
  <2> QED
    BY <1>1, <2>2
<1>4. RemoveAt(q, i) = l \o r
  BY DEF RemoveAt
<1> HIDE DEF l, r
<1>5. /\ l \o r \in Seq(S)
      /\ Len(l \o r) = Len(l) + Len(r)
      /\ \A j \in 1 .. Len(l) + Len(r) : (l \o r)[j] = IF j <= Len(l) THEN l[j] ELSE r[j - Len(l)]
  BY <1>2, <1>3, ConcatProperties
<1>6. ASSUME NEW j \in 1 .. Len(q) - 1
      PROVE  RemoveAt(q, i)[j] = IF j < i THEN q[j] ELSE q[j + 1]
  <2>1. CASE j < i
    BY <1>1, <1>2, <1>3, <1>4, <1>5, <2>1
  <2>2. CASE ~(j < i)
    <3>1. j - (i - 1) \in 1 .. Len(q) - i /\ i + (j - (i - 1)) = j + 1
      BY <1>1, <2>2
    <3>2. RemoveAt(q, i)[j] = r[j - (i - 1)]
      <4>1. j \in 1 .. Len(l) + Len(r) /\ ~(j <= Len(l)) /\ Len(l) = i - 1
        BY <1>1, <1>2, <1>3, <2>2
      <4>2. (l \o r)[j] = r[j - Len(l)]
        BY <1>5, <4>1
      <4> QED
        BY <1>4, <4>1, <4>2
    <3> QED
      BY <1>3, <2>2, <3>1, <3>2
  <2> QED
    BY <2>1, <2>2
<1> QED
  BY <1>1, <1>2, <1>3, <1>4, <1>5, <1>6

\* An empty sequence has no elements.
LEMMA ToSetEmpty == ToSet(<<>>) = {}
BY DEF ToSet

\* The elements of a sequence over S are in S.
LEMMA ToSetType ==
  ASSUME NEW S, NEW q \in Seq(S)
  PROVE  ToSet(q) \subseteq S
BY LenProperties DEF ToSet

\* Appending adds one element.
LEMMA ToSetAppend ==
  ASSUME NEW S, NEW q \in Seq(S), NEW x \in S
  PROVE  ToSet(Append(q, x)) = ToSet(q) \cup {x}
<1> DEFINE r == Append(q, x)
<1>1. Len(q) \in Nat /\ DOMAIN q = 1 .. Len(q)
  BY LenProperties
<1>2. /\ r \in Seq(S) /\ Len(r) = Len(q) + 1
      /\ \A i \in 1 .. Len(q) : r[i] = q[i]
      /\ r[Len(q) + 1] = x
  BY AppendProperties
<1>3. DOMAIN r = 1 .. Len(q) + 1
  BY <1>2, LenProperties
<1> HIDE DEF r
<1>4. \A y : y \in ToSet(r) <=> y \in ToSet(q) \/ y = x
  BY <1>1, <1>2, <1>3 DEF ToSet
<1> QED
  BY <1>4 DEF r

\* Joining two sequences joins their elements.
LEMMA ToSetJoined ==
  ASSUME NEW S, NEW q \in Seq(S), NEW r \in Seq(S)
  PROVE  q \o r \in Seq(S) /\ ToSet(q \o r) = ToSet(q) \cup ToSet(r)
<1> DEFINE t == q \o r
<1>1. Len(q) \in Nat /\ DOMAIN q = 1 .. Len(q) /\ Len(r) \in Nat /\ DOMAIN r = 1 .. Len(r)
  BY LenProperties
<1>2. /\ t \in Seq(S) /\ Len(t) = Len(q) + Len(r)
      /\ \A i \in 1 .. Len(q) + Len(r) : t[i] = IF i <= Len(q) THEN q[i] ELSE r[i - Len(q)]
  BY ConcatProperties
<1>3. DOMAIN t = 1 .. Len(q) + Len(r)
  BY <1>2, LenProperties
<1> HIDE DEF t
<1>4. ASSUME NEW y \in ToSet(q) PROVE y \in ToSet(t)
  <2>1. PICK i \in 1 .. Len(q) : y = q[i]
    BY <1>1 DEF ToSet
  <2>2. i \in 1 .. Len(q) + Len(r) /\ t[i] = y
    BY <1>1, <1>2, <2>1
  <2> QED
    BY <1>3, <2>2 DEF ToSet
<1>5. ASSUME NEW y \in ToSet(r) PROVE y \in ToSet(t)
  <2>1. PICK i \in 1 .. Len(r) : y = r[i]
    BY <1>1 DEF ToSet
  <2> DEFINE j == Len(q) + i
  <2>2. j \in 1 .. Len(q) + Len(r) /\ ~(j <= Len(q)) /\ j - Len(q) = i
    BY <1>1, <2>1
  <2>3. t[j] = y
    BY <1>2, <2>1, <2>2
  <2> QED
    BY <1>3, <2>2, <2>3 DEF ToSet
<1>6. ASSUME NEW y \in ToSet(t) PROVE y \in ToSet(q) \cup ToSet(r)
  <2>1. PICK i \in 1 .. Len(q) + Len(r) : y = t[i]
    BY <1>3, <1>6 DEF ToSet
  <2>2. CASE i <= Len(q)
    BY <1>1, <1>2, <2>1, <2>2 DEF ToSet
  <2>3. CASE ~(i <= Len(q))
    <3>1. i - Len(q) \in 1 .. Len(r) /\ y = r[i - Len(q)]
      BY <1>1, <1>2, <2>1, <2>3
    <3> QED
      BY <1>1, <3>1 DEF ToSet
  <2> QED
    BY <2>2, <2>3
<1> QED
  BY <1>2, <1>4, <1>5, <1>6 DEF t

\* A sequence of one element.
LEMMA ToSetSingle ==
  ASSUME NEW S, NEW x \in S
  PROVE  <<x>> \in Seq(S) /\ ToSet(<<x>>) = {x}
BY DEF ToSet

\* Taking the head away leaves the other elements.
LEMMA ToSetTail ==
  ASSUME NEW S, NEW q \in Seq(S), q # <<>>
  PROVE  /\ Head(q) \in S /\ Tail(q) \in Seq(S)
         /\ ToSet(q) = ToSet(Tail(q)) \cup {Head(q)}
<1> DEFINE r == Tail(q)
           h == Head(q)
<1>1. Len(q) \in Nat \ {0} /\ DOMAIN q = 1 .. Len(q)
  BY LenProperties, EmptySeq
<1>2. /\ h \in S /\ r \in Seq(S) /\ Len(r) = Len(q) - 1
      /\ \A i \in 1 .. Len(r) : r[i] = q[i + 1]
      /\ h = q[1]
  <2>1. h = q[1]
    OBVIOUS
  <2> QED
    BY <2>1, HeadTailProperties
<1>3. DOMAIN r = 1 .. Len(q) - 1
  BY <1>2, LenProperties
<1> HIDE DEF r, h
<1>4. ASSUME NEW y PROVE y \in ToSet(q) <=> y \in ToSet(r) \/ y = h
  <2>1. ASSUME NEW i \in 1 .. Len(q), y = q[i] PROVE y \in ToSet(r) \/ y = h
    <3>1. CASE i = 1
      BY <1>2, <2>1, <3>1
    <3>2. CASE i # 1
      <4>1. i - 1 \in 1 .. Len(q) - 1 /\ (i - 1) + 1 = i
        BY <1>1, <3>2
      <4>2. r[i - 1] = q[(i - 1) + 1]
        BY <1>2, <4>1
      <4> QED
        BY <1>3, <2>1, <4>1, <4>2 DEF ToSet
    <3> QED
      BY <3>1, <3>2
  <2>2. ASSUME NEW i \in 1 .. Len(q) - 1, y = r[i] PROVE y \in ToSet(q)
    <3>1. i + 1 \in 1 .. Len(q) /\ r[i] = q[i + 1]
      BY <1>1, <1>2
    <3> QED
      BY <1>1, <2>2, <3>1 DEF ToSet
  <2>3. y = h => y \in ToSet(q)
    <3>1. 1 \in 1 .. Len(q)
      BY <1>1
    <3> QED
      BY <1>1, <1>2, <3>1 DEF ToSet
  <2> QED
    BY <1>1, <1>3, <2>1, <2>2, <2>3 DEF ToSet
<1> QED
  BY <1>2, <1>4 DEF r, h

\* A sequence without repetitions, with a new element at its end.
LEMMA InjectiveAppend ==
  ASSUME NEW S, NEW q \in Seq(S), NEW x \in S, IsInjective(q), x \notin ToSet(q)
  PROVE  IsInjective(Append(q, x))
<1>1. Len(q) \in Nat /\ DOMAIN q = 1 .. Len(q)
  BY LenProperties
<1>2. /\ Append(q, x) \in Seq(S) /\ Len(Append(q, x)) = Len(q) + 1
      /\ \A i \in 1 .. Len(q) : Append(q, x)[i] = q[i]
      /\ Append(q, x)[Len(q) + 1] = x
  BY AppendProperties
<1>3. DOMAIN Append(q, x) = 1 .. Len(q) + 1
  BY <1>2, LenProperties
<1>4. \A i \in 1 .. Len(q) : q[i] # x
  BY <1>1 DEF ToSet
<1>5. \A i, j \in 1 .. Len(q) : q[i] = q[j] => i = j
  BY <1>1 DEF IsInjective
<1>6. ASSUME NEW i \in 1 .. Len(q) + 1, NEW j \in 1 .. Len(q) + 1,
             Append(q, x)[i] = Append(q, x)[j]
      PROVE  i = j
  <2>1. (i \in 1 .. Len(q) \/ i = Len(q) + 1) /\ (j \in 1 .. Len(q) \/ j = Len(q) + 1)
    BY <1>1
  <2> QED
    BY <1>2, <1>4, <1>5, <1>6, <2>1
<1> QED
  BY <1>3, <1>6 DEF IsInjective

\* Erasing one element of a sequence without repetitions takes it out of the set.
LEMMA InjectiveRemoveAt ==
  ASSUME NEW S, NEW q \in Seq(S), NEW i \in 1 .. Len(q), IsInjective(q)
  PROVE  IsInjective(RemoveAt(q, i)) /\ ToSet(RemoveAt(q, i)) = ToSet(q) \ {q[i]}
<1> DEFINE r == RemoveAt(q, i)
<1>1. Len(q) \in Nat /\ DOMAIN q = 1 .. Len(q)
  BY LenProperties
<1>2. /\ r \in Seq(S) /\ Len(r) = Len(q) - 1
      /\ \A j \in 1 .. Len(q) - 1 : r[j] = IF j < i THEN q[j] ELSE q[j + 1]
  BY RemoveAtProperties
<1>3. DOMAIN r = 1 .. Len(q) - 1
  BY <1>2, LenProperties
<1>4. \A j, k \in 1 .. Len(q) : q[j] = q[k] => j = k
  BY <1>1 DEF IsInjective
<1> DEFINE at(j) == IF j < i THEN j ELSE j + 1
<1> HIDE DEF r
<1>5. \A j \in 1 .. Len(q) - 1 : at(j) \in 1 .. Len(q) /\ at(j) # i /\ r[j] = q[at(j)]
  BY <1>1, <1>2
<1>6. \A j, k \in 1 .. Len(q) - 1 : at(j) = at(k) => j = k
  BY <1>1
<1>7. ASSUME NEW k \in 1 .. Len(q), k # i
      PROVE  \E j \in 1 .. Len(q) - 1 : at(j) = k
  <2>1. CASE k < i
    <3>1. k \in 1 .. Len(q) - 1 /\ at(k) = k
      BY <1>1, <2>1
    <3> QED
      BY <3>1
  <2>2. CASE ~(k < i)
    <3>1. k - 1 \in 1 .. Len(q) - 1 /\ at(k - 1) = k
      BY <1>1, <1>7, <2>2
    <3> QED
      BY <3>1
  <2> QED
    BY <2>1, <2>2
<1> HIDE DEF at
<1>8. IsInjective(r)
  BY <1>3, <1>4, <1>5, <1>6 DEF IsInjective
<1>9. \A x : x \in ToSet(r) <=> x \in ToSet(q) /\ x # q[i]
  <2>1. ASSUME NEW j \in 1 .. Len(q) - 1
        PROVE  r[j] \in ToSet(q) /\ r[j] # q[i]
    BY <1>1, <1>4, <1>5 DEF ToSet
  <2>2. ASSUME NEW k \in 1 .. Len(q), q[k] # q[i] PROVE q[k] \in ToSet(r)
    <3>1. PICK j \in 1 .. Len(q) - 1 : at(j) = k
      BY <1>7, <2>2
    <3> QED
      BY <1>3, <1>5, <3>1 DEF ToSet
  <2> QED
    BY <1>1, <1>3, <2>1, <2>2 DEF ToSet
<1> QED
  BY <1>8, <1>9 DEF r

\* A set of natural numbers that is not empty has a least element.
LEMMA LeastExists ==
  ASSUME NEW N \in SUBSET Nat, N # {}
  PROVE  \E i \in N : \A j \in N : i <= j
<1>1. PICK i \in N : \A j \in N : ~(<<j, i>> \in OpToRel(<, Nat))
  BY WFMin, NatLessThanWellFounded, Zenon
<1>2. \A j \in N : ~(j < i)
  BY <1>1, Zenon DEF OpToRel
<1> QED
  BY <1>2

\* How many numbers there are up to one.
LEMMA FirstNumbers ==
  ASSUME NEW n \in Nat
  PROVE  IsFiniteSet(1 .. n) /\ Cardinality(1 .. n) = n
<1>1. /\ IsFiniteSet(1 .. n)
      /\ Cardinality(1 .. n) = IF 1 > n THEN 0 ELSE n - 1 + 1
  BY FS_Interval
<1> QED
  BY <1>1

\* Erasing nothing.
LEMMA KeptAll ==
  ASSUME NEW S, NEW q \in Seq(S)
  PROVE  KeptAt(q, DOMAIN q) = q
<1> DEFINE kept == DOMAIN q
           rank(i) == Cardinality({j \in kept : j <= i})
           at(n) == CHOOSE i \in kept : rank(i) = n
<1>1. Len(q) \in Nat /\ kept = 1 .. Len(q) /\ Cardinality(kept) = Len(q)
  <2>1. Len(q) \in Nat /\ kept = 1 .. Len(q)
    BY LenProperties
  <2> QED
    BY <2>1, FirstNumbers
<1>2. ASSUME NEW i \in kept PROVE rank(i) = i
  <2>1. {j \in kept : j <= i} = 1 .. i /\ i \in Nat
    BY <1>1
  <2> QED
    BY <2>1, FirstNumbers
<1>3. ASSUME NEW n \in kept PROVE at(n) = n
  BY <1>2
<1>4. KeptAt(q, kept) = [n \in 1 .. Cardinality(kept) |-> q[at(n)]]
  BY DEF KeptAt
<1> HIDE DEF at
<1>5. KeptAt(q, kept) = [n \in 1 .. Len(q) |-> q[n]]
  BY <1>1, <1>3, <1>4
<1>6. q = [n \in 1 .. Len(q) |-> q[n]]
  BY <1>1
<1> QED
  BY <1>5, <1>6

\* Erasing one element.
LEMMA KeptButOne ==
  ASSUME NEW S, NEW q \in Seq(S), NEW m \in 1 .. Len(q)
  PROVE  KeptAt(q, DOMAIN q \ {m}) = RemoveAt(q, m)
<1> DEFINE kept == DOMAIN q \ {m}
           rank(i) == Cardinality({j \in kept : j <= i})
           at(n) == CHOOSE i \in kept : rank(i) = n
           place(n) == IF n < m THEN n ELSE n + 1
<1>1. Len(q) \in Nat \ {0} /\ DOMAIN q = 1 .. Len(q) /\ m \in Nat \ {0}
  BY LenProperties
<1>2. Cardinality(kept) = Len(q) - 1
  <2>1. IsFiniteSet(1 .. Len(q)) /\ Cardinality(1 .. Len(q)) = Len(q)
    BY <1>1, FirstNumbers
  <2>2. Cardinality((1 .. Len(q)) \ {m}) = Len(q) - 1
    BY <2>1, FS_RemoveElement
  <2> QED
    BY <1>1, <2>2
<1>3. ASSUME NEW i \in kept PROVE rank(i) = IF i < m THEN i ELSE i - 1
  <2>1. i \in Nat \ {0} /\ i # m /\ i \in 1 .. Len(q)
    BY <1>1
  <2>2. IsFiniteSet(1 .. i) /\ Cardinality(1 .. i) = i
    BY <2>1, FirstNumbers
  <2>3. CASE i < m
    <3>1. {j \in kept : j <= i} = 1 .. i
      BY <1>1, <2>1, <2>3
    <3> QED
      BY <2>2, <2>3, <3>1
  <2>4. CASE ~(i < m)
    <3>1. {j \in kept : j <= i} = (1 .. i) \ {m} /\ m \in 1 .. i
      BY <1>1, <2>1, <2>4
    <3>2. Cardinality((1 .. i) \ {m}) = i - 1
      BY <2>2, <3>1, FS_RemoveElement
    <3> QED
      BY <2>4, <3>1, <3>2
  <2> QED
    BY <2>3, <2>4
<1>4. ASSUME NEW n \in 1 .. Len(q) - 1 PROVE at(n) = place(n)
  <2>1. place(n) \in kept /\ n \in Int
    BY <1>1
  <2>2. rank(place(n)) = n
    <3>1. rank(place(n)) = IF place(n) < m THEN place(n) ELSE place(n) - 1
      BY <1>3, <2>1
    <3> HIDE DEF rank
    <3> QED
      BY <1>1, <2>1, <3>1
  <2>3. \A i \in kept : rank(i) = n => i = place(n)
    <3> SUFFICES ASSUME NEW i \in kept, rank(i) = n PROVE i = place(n)
      OBVIOUS
    <3>1. n = IF i < m THEN i ELSE i - 1
      BY <1>3
    <3>2. i \in 1 .. Len(q) /\ i # m
      BY <1>1
    <3> QED
      BY <1>1, <3>1, <3>2
  <2> HIDE DEF kept, rank
  <2> QED
    BY <2>1, <2>2, <2>3
<1>5. KeptAt(q, kept) = [n \in 1 .. Cardinality(kept) |-> q[at(n)]]
  BY DEF KeptAt
<1> HIDE DEF at
<1>6. KeptAt(q, kept) = [n \in 1 .. Len(q) - 1 |-> q[place(n)]]
  BY <1>2, <1>4, <1>5
<1>7. RemoveAt(q, m) = [n \in 1 .. Len(q) - 1 |-> q[place(n)]]
  <2> DEFINE r == RemoveAt(q, m)
  <2>1. /\ r \in Seq(S) /\ Len(r) = Len(q) - 1
        /\ \A n \in 1 .. Len(q) - 1 : r[n] = q[place(n)]
    BY RemoveAtProperties
  <2> HIDE DEF r
  <2>2. r = [n \in 1 .. Len(q) - 1 |-> r[n]]
    BY <2>1, LenProperties
  <2>3. r = [n \in 1 .. Len(q) - 1 |-> q[place(n)]]
    BY <2>1, <2>2
  <2> QED
    BY <2>3 DEF r
<1> QED
  BY <1>6, <1>7
==============================================================================
