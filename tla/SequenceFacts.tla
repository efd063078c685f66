---------------------------- MODULE SequenceFacts ----------------------------
(***************************************************************************)
(* What the proofs about queues use of the operators on sequences.          *)
(***************************************************************************)
EXTENDS Naturals, Sequences, SequencesExt, SequenceTheorems,
        FiniteSetTheorems, TLAPS

\* What RemoveAt does to the places of a sequence.
LEMMA RemoveAtPlaces ==
  ASSUME NEW S, NEW q \in Seq(S), NEW i \in 1..Len(q)
  PROVE  /\ RemoveAt(q, i) \in Seq(S)
         /\ Len(RemoveAt(q, i)) = Len(q) - 1
         /\ \A j \in 1..(Len(q) - 1) :
              RemoveAt(q, i)[j] = IF j < i THEN q[j] ELSE q[j + 1]
<1> DEFINE a == SubSeq(q, 1, i - 1)
           b == SubSeq(q, i + 1, Len(q))
<1>1. a \in Seq(S) /\ Len(a) = i - 1 /\ \A j \in 1..(i - 1) : a[j] = q[j]
  OBVIOUS
<1>2. /\ b \in Seq(S)
      /\ Len(b) = Len(q) - i
      /\ \A j \in 1..(Len(q) - i) : b[j] = q[j + i]
  OBVIOUS
<1>3. RemoveAt(q, i) = a \o b
  BY DEF RemoveAt
<1> HIDE DEF a, b
<1>4. /\ a \o b \in Seq(S)
      /\ Len(a \o b) = Len(a) + Len(b)
      /\ \A j \in 1..(Len(a) + Len(b)) :
           (a \o b)[j] = IF j <= Len(a) THEN a[j] ELSE b[j - Len(a)]
  BY <1>1, <1>2, ConcatProperties
<1>5. Len(a) + Len(b) = Len(q) - 1
  BY <1>1, <1>2
<1>6. ASSUME NEW j \in 1..(Len(q) - 1)
      PROVE  (a \o b)[j] = IF j < i THEN q[j] ELSE q[j + 1]
  <2>0. i \in Nat /\ j \in Nat
    OBVIOUS
  <2>1. CASE j < i
    BY <2>1, <1>1, <1>4, <1>5
  <2>2. CASE j >= i
    <3>1. (a \o b)[j] = b[j - (i - 1)]
      BY <2>2, <1>1, <1>4, <1>5
    <3>2. j - (i - 1) \in 1..(Len(q) - i)
      BY <2>2
    <3> QED
      BY <2>2, <3>1, <3>2, <1>2
  <2> HIDE DEF a, b
  <2>3. j < i \/ j >= i
    BY <2>0
  <2> QED
    BY <2>1, <2>2, <2>3
<1> QED
  BY <1>3, <1>4, <1>5, <1>6

\* A sequence without repetition loses exactly the element removed.
LEMMA RemoveAtInjective ==
  ASSUME NEW S, NEW q \in Seq(S), NEW i \in 1..Len(q), IsInjective(q)
  PROVE  /\ IsInjective(RemoveAt(q, i))
         /\ ToSet(RemoveAt(q, i)) = ToSet(q) \ {q[i]}
<1> DEFINE r == RemoveAt(q, i)
<1>0. /\ r \in Seq(S) /\ Len(r) = Len(q) - 1
      /\ \A j \in 1..(Len(q) - 1) : r[j] = IF j < i THEN q[j] ELSE q[j + 1]
      /\ Len(q) \in Nat /\ i \in Nat
  <2>1. Len(q) \in Nat /\ i \in Nat
    OBVIOUS
  <2> QED
    BY <2>1, RemoveAtPlaces, Zenon
<1>1. DOMAIN r = 1..(Len(q) - 1) /\ DOMAIN q = 1..Len(q)
  BY <1>0
<1>2. \A j, k \in 1..Len(q) : q[j] = q[k] => j = k
  BY <1>1 DEF IsInjective
<1> HIDE DEF r
<1>3. IsInjective(r)
  <2>1. SUFFICES ASSUME NEW j \in 1..(Len(q) - 1), NEW k \in 1..(Len(q) - 1), r[j] = r[k]
                 PROVE  j = k
    BY <1>1 DEF IsInjective
  <2>2. j + 1 \in 1..Len(q) /\ k + 1 \in 1..Len(q) /\ j \in 1..Len(q) /\ k \in 1..Len(q)
    BY <1>0
  <2> QED
    BY <2>1, <2>2, <1>0, <1>2
<1>4. ASSUME NEW x \in ToSet(r) PROVE x \in ToSet(q) \ {q[i]}
  <2>1. PICK j \in 1..(Len(q) - 1) : x = r[j]
    BY <1>0, <1>1 DEF ToSet
  <2>2. j + 1 \in 1..Len(q) /\ j \in 1..Len(q)
    BY <1>0
  <2>3. PICK k \in 1..Len(q) : x = q[k] /\ k # i
    BY <2>1, <2>2, <1>0
  <2>4. x \in ToSet(q)
    BY <2>3, <1>1 DEF ToSet
  <2> QED
    BY <2>3, <2>4, <1>2
<1>5. ASSUME NEW x \in ToSet(q) \ {q[i]} PROVE x \in ToSet(r)
  <2>1. PICK j \in 1..Len(q) : x = q[j] /\ j # i
    BY DEF ToSet
  <2>2. CASE j < i
    <3>1. j \in 1..(Len(q) - 1) /\ r[j] = x
      BY <2>1, <2>2, <1>0
    <3> QED
      BY <3>1, <1>0 DEF ToSet
  <2>3. CASE j > i
    <3>1. j - 1 \in 1..(Len(q) - 1) /\ ~(j - 1 < i) /\ (j - 1) + 1 = j
      BY <2>1, <2>3, <1>0
    <3>2. r[j - 1] = x
      BY <3>1, <2>1, <1>0
    <3> QED
      BY <3>1, <3>2, <1>0 DEF ToSet
  <2> QED
    BY <2>1, <2>2, <2>3, <1>0
<1> QED
  BY <1>3, <1>4, <1>5 DEF r

\* A new element at the end.
LEMMA AppendNewElement ==
  ASSUME NEW S, NEW q \in Seq(S), NEW x \in S, IsInjective(q), x \notin ToSet(q)
  PROVE  /\ IsInjective(Append(q, x))
         /\ ToSet(Append(q, x)) = ToSet(q) \cup {x}
<1>0. SUFFICES ASSUME NEW r, r = Append(q, x)
               PROVE  IsInjective(r) /\ ToSet(r) = ToSet(q) \cup {x}
  OBVIOUS
<1>1. /\ r \in Seq(S) /\ Len(r) = Len(q) + 1 /\ Len(q) \in Nat
      /\ \A j \in 1..Len(q) : r[j] = q[j]
      /\ r[Len(q) + 1] = x
  BY <1>0
<1>2. DOMAIN r = 1..(Len(q) + 1) /\ DOMAIN q = 1..Len(q)
  BY <1>1
<1>3. \A j, k \in 1..Len(q) : q[j] = q[k] => j = k
  BY <1>2 DEF IsInjective
<1>4. \A j \in 1..Len(q) : q[j] # x
  BY DEF ToSet
<1>5. IsInjective(r)
  <2>1. SUFFICES ASSUME NEW j \in 1..(Len(q) + 1), NEW k \in 1..(Len(q) + 1), r[j] = r[k]
                 PROVE  j = k
    BY <1>2 DEF IsInjective
  <2>2. (j \in 1..Len(q) \/ j = Len(q) + 1) /\ (k \in 1..Len(q) \/ k = Len(q) + 1)
    BY <1>1
  <2> QED
    BY <2>1, <2>2, <1>1, <1>3, <1>4
<1>6. ToSet(r) = ToSet(q) \cup {x}
  <2>1. ASSUME NEW y \in ToSet(r) PROVE y \in ToSet(q) \cup {x}
    <3>1. PICK j \in 1..(Len(q) + 1) : y = r[j]
      BY <1>1 DEF ToSet
    <3>2. j \in 1..Len(q) \/ j = Len(q) + 1
      BY <1>1
    <3> QED
      BY <3>1, <3>2, <1>1 DEF ToSet
  <2>2. ASSUME NEW y \in ToSet(q) \cup {x} PROVE y \in ToSet(r)
    <3>1. CASE y = x
      <4>1. Len(q) + 1 \in 1..Len(r)
        BY <1>1
      <4> QED
        BY <3>1, <4>1, <1>1 DEF ToSet
    <3>2. CASE y \in ToSet(q)
      <4>1. PICK j \in 1..Len(q) : y = q[j]
        BY <3>2 DEF ToSet
      <4>2. j \in 1..Len(r) /\ r[j] = y
        BY <4>1, <1>1
      <4> QED
        BY <4>2 DEF ToSet
    <3> QED
      BY <3>1, <3>2
  <2> QED
    BY <2>1, <2>2
<1> QED
  BY <1>5, <1>6

\* Two sequences without repetition and without a common element.
LEMMA ConcatInjective ==
  ASSUME NEW S, NEW q \in Seq(S), NEW r \in Seq(S), IsInjective(q), IsInjective(r),
         ToSet(q) \cap ToSet(r) = {}
  PROVE  /\ q \o r \in Seq(S)
         /\ IsInjective(q \o r)
         /\ ToSet(q \o r) = ToSet(q) \cup ToSet(r)
<1>0. SUFFICES ASSUME NEW t, t = q \o r
               PROVE  t \in Seq(S) /\ IsInjective(t) /\ ToSet(t) = ToSet(q) \cup ToSet(r)
  OBVIOUS
<1>1. /\ t \in Seq(S) /\ Len(t) = Len(q) + Len(r)
      /\ \A j \in 1..(Len(q) + Len(r)) : t[j] = IF j <= Len(q) THEN q[j] ELSE r[j - Len(q)]
  BY <1>0, ConcatProperties
<1>2. /\ DOMAIN t = 1..(Len(q) + Len(r)) /\ DOMAIN q = 1..Len(q) /\ DOMAIN r = 1..Len(r)
      /\ Len(q) \in Nat /\ Len(r) \in Nat
  BY <1>1
<1>3. ASSUME NEW j \in 1..(Len(q) + Len(r))
      PROVE  \/ j \in 1..Len(q) /\ t[j] = q[j]
             \/ j - Len(q) \in 1..Len(r) /\ t[j] = r[j - Len(q)]
  BY <1>1, <1>2
<1>4. \A j \in 1..Len(q), k \in 1..Len(r) : q[j] # r[k]
  BY <1>2 DEF ToSet
<1>5. IsInjective(t)
  <2>1. SUFFICES ASSUME NEW j \in 1..(Len(q) + Len(r)), NEW k \in 1..(Len(q) + Len(r)),
                        t[j] = t[k]
                 PROVE  j = k
    BY <1>2 DEF IsInjective
  <2>2. /\ \A x, y \in 1..Len(q) : q[x] = q[y] => x = y
        /\ \A x, y \in 1..Len(r) : r[x] = r[y] => x = y
    BY <1>2 DEF IsInjective
  <2>3. j = k \/ j - Len(q) = k - Len(q)
    BY <1>3, <1>4, <2>1, <2>2
  <2>4. QED
    BY <1>2, <2>3
<1>6. ToSet(t) = ToSet(q) \cup ToSet(r)
  <2>1. ASSUME NEW x \in ToSet(t) PROVE x \in ToSet(q) \cup ToSet(r)
    <3>1. PICK j \in 1..(Len(q) + Len(r)) : x = t[j]
      BY <1>2 DEF ToSet
    <3>2. QED
      BY <1>2, <1>3, <3>1 DEF ToSet
  <2>2. ASSUME NEW x \in ToSet(q) PROVE x \in ToSet(t)
    <3>1. PICK j \in 1..Len(q) : x = q[j]
      BY DEF ToSet
    <3>2. j \in 1..(Len(q) + Len(r)) /\ t[j] = x
      BY <1>1, <1>2, <3>1
    <3>3. QED
      BY <1>2, <3>2 DEF ToSet
  <2>3. ASSUME NEW x \in ToSet(r) PROVE x \in ToSet(t)
    <3>1. PICK j \in 1..Len(r) : x = r[j]
      BY DEF ToSet
    <3>2. j + Len(q) \in 1..(Len(q) + Len(r)) /\ t[j + Len(q)] = x
      BY <1>1, <1>2, <3>1
    <3>3. QED
      BY <1>2, <3>2 DEF ToSet
  <2>4. QED
    BY <2>1, <2>2, <2>3
<1>7. QED
  BY <1>1, <1>5, <1>6

\* A sequence without repetition loses its first element.
LEMMA TailInjective ==
  ASSUME NEW S, NEW q \in Seq(S), q # <<>>, IsInjective(q)
  PROVE  /\ Head(q) \in S /\ Head(q) \in ToSet(q)
         /\ Tail(q) \in Seq(S) /\ IsInjective(Tail(q))
         /\ ToSet(Tail(q)) = ToSet(q) \ {Head(q)}
<1>0. SUFFICES ASSUME NEW t, t = Tail(q)
               PROVE  /\ Head(q) \in S /\ Head(q) \in ToSet(q)
                      /\ t \in Seq(S) /\ IsInjective(t)
                      /\ ToSet(t) = ToSet(q) \ {Head(q)}
  OBVIOUS
<1>1. /\ t \in Seq(S) /\ Len(t) = Len(q) - 1 /\ Len(q) \in Nat /\ Len(q) > 0
      /\ \A j \in 1..(Len(q) - 1) : t[j] = q[j + 1]
      /\ Head(q) = q[1]
  BY <1>0
<1>2. DOMAIN t = 1..(Len(q) - 1) /\ DOMAIN q = 1..Len(q) /\ 1 \in 1..Len(q)
  BY <1>1
<1>3. \A j, k \in 1..Len(q) : q[j] = q[k] => j = k
  BY <1>2 DEF IsInjective
<1>4. Head(q) \in S /\ Head(q) \in ToSet(q)
  BY <1>1, <1>2 DEF ToSet
<1>5. IsInjective(t)
  <2>1. SUFFICES ASSUME NEW j \in 1..(Len(q) - 1), NEW k \in 1..(Len(q) - 1), t[j] = t[k]
                 PROVE  j = k
    BY <1>2 DEF IsInjective
  <2>2. j + 1 \in 1..Len(q) /\ k + 1 \in 1..Len(q)
    BY <1>1
  <2>3. QED
    BY <1>1, <1>3, <2>1, <2>2
<1>6. ASSUME NEW x \in ToSet(t) PROVE x \in ToSet(q) \ {Head(q)}
  <2>1. PICK j \in 1..(Len(q) - 1) : x = t[j]
    BY <1>2 DEF ToSet
  <2>2. j + 1 \in 1..Len(q) /\ x = q[j + 1] /\ j + 1 # 1
    BY <1>1, <2>1
  <2>3. QED
    BY <1>1, <1>2, <1>3, <2>2 DEF ToSet
<1>7. ASSUME NEW x \in ToSet(q) \ {Head(q)} PROVE x \in ToSet(t)
  <2>1. PICK j \in 1..Len(q) : x = q[j]
    BY DEF ToSet
  <2>2. j - 1 \in 1..(Len(q) - 1) /\ t[j - 1] = x
    BY <1>1, <2>1
  <2>3. QED
    BY <1>2, <2>2 DEF ToSet
<1>8. QED
  BY <1>1, <1>4, <1>5, <1>6, <1>7

\* The orders of a finite set.
LEMMA OrdersOfASet ==
  ASSUME NEW S, IsFiniteSet(S), NEW q \in SetToSeqs(S)
  PROVE  q \in Seq(S) /\ IsInjective(q) /\ ToSet(q) = S
<1>1. Cardinality(S) \in Nat
  BY FS_CardinalityType
<1>2. q \in [1..Cardinality(S) -> S] /\ \A i, j \in 1..Cardinality(S) : i # j => q[i] # q[j]
  BY DEF SetToSeqs
<1>3. q \in Injection(1..Cardinality(S), S)
  BY <1>2 DEF Injection, IsInjective
<1>4. IsFiniteSet(1..Cardinality(S)) /\ Cardinality(1..Cardinality(S)) = Cardinality(S)
  BY <1>1, FS_Interval
<1>5. q \in Surjection(1..Cardinality(S), S)
  BY <1>3, <1>4, FS_Injection
<1>6. ToSet(q) = S
  BY <1>2, <1>5 DEF ToSet, Surjection
<1>7. IsInjective(q)
  BY <1>2 DEF IsInjective
<1>8. QED
  BY <1>1, <1>2, <1>6, <1>7
=============================================================================
