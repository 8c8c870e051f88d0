------------------------- MODULE StreamParsers_proofs -------------------------
(***************************************************************************)
(* What is proved of StreamParsers: that a read may end anywhere.  Here of *)
(* IvfParser, AdtsParser and OggOpusDemux, which take frame after frame    *)
(* from the front, for all streams, payloads and reads: after every read,  *)
(* the parts that have been read have been returned and the rest is kept.  *)
(* AnnexB_proofs goes on with AnnexBParser.                                *)
(***************************************************************************)
EXTENDS StreamParsers, FiniteSetTheorems, SequenceTheorems, WellFoundedInduction, TLAPS

-----------------------------------------------------------------------------
(* Sequences of sequences, and sets of numbers in their order.  What is so  *)
(* of 0 and of n + 1 where it is so of n is so of all numbers (Induction):  *)
(* with this, what is computed over data of any length is proved.          *)

\* A set of numbers that is not empty has a least one.
LEMMA LeastOf ==
  ASSUME NEW I \in SUBSET Nat, I # {}
  PROVE  \E n \in I : \A m \in I : n <= m
<1>1. \E n \in I : \A m \in I : ~(<<m, n>> \in OpToRel(<, Nat))
  BY NatLessThanWellFounded, WFMin
<1>2. \A m, n \in Nat : <<m, n>> \in OpToRel(<, Nat) <=> m < n
  BY DEF OpToRel
<1>3. PICK n \in I : \A m \in I : ~(<<m, n>> \in OpToRel(<, Nat))
  BY <1>1
<1>4. \A m \in I : ~(m < n)
  BY <1>2, <1>3
<1> QED
  BY <1>4

\* What holds of zero and of the successor of whatever it holds of, holds of all.
LEMMA Induction ==
  ASSUME NEW I \in SUBSET Nat, 0 \in I, \A n \in I : n + 1 \in I
  PROVE  I = Nat
<1> SUFFICES ASSUME I # Nat PROVE FALSE
  OBVIOUS
<1>1. PICK n \in Nat \ I : \A m \in Nat \ I : n <= m
  BY LeastOf
<1>2. n - 1 \in Nat /\ n - 1 \notin Nat \ I
  BY <1>1
<1> QED
  BY <1>1, <1>2

\* FlattenSeq goes from sequence to sequence, and adds each at the end.
LEMMA FlattenUnfolds ==
  ASSUME NEW seqs, Len(seqs) \in Nat
  PROVE  \E f : /\ f = [i \in 1..Len(seqs) |-> IF i = 1 THEN seqs[i] ELSE f[i - 1] \o seqs[i]]
                /\ Len(seqs) # 0 => FlattenSeq(seqs) = f[Len(seqs)]
<1> DEFINE n == Len(seqs)
           Right(f, i) == IF i = 1 THEN seqs[i] ELSE f[i - 1] \o seqs[i]
           Step(f) == [i \in 1..n |-> Right(f, i)]
           I == {k \in Nat : \E f : \A i \in 1..n : i <= k => f[i] = Right(f, i)}
<1>1. 0 \in I
  OBVIOUS
<1>2. ASSUME NEW k \in I PROVE k + 1 \in I
  <2>1. PICK f : \A i \in 1..n : i <= k => f[i] = Right(f, i)
    OBVIOUS
  <2> DEFINE g == [i \in 1..n |-> IF i = k + 1 THEN Right(f, i) ELSE f[i]]
  <2>2. \A i \in 1..n : i # 1 /\ i <= k + 1 => g[i - 1] = f[i - 1]
    OBVIOUS
  <2>3. \A i \in 1..n : i <= k + 1 => Right(g, i) = Right(f, i)
    BY <2>2
  <2>4. \A i \in 1..n : i <= k + 1 => g[i] = Right(f, i)
    BY <2>1
  <2>5. k + 1 \in Nat
    OBVIOUS
  <2> HIDE DEF g, Right
  <2> QED
    BY <2>3, <2>4, <2>5
<1>3. n \in I
  <2> HIDE DEF I
  <2> QED
    BY <1>1, <1>2, Induction, I \subseteq Nat DEF I
<1>4. \E f : f = Step(f)
  <2>1. PICK f : \A i \in 1..n : i <= n => f[i] = Right(f, i)
    BY <1>3
  <2> DEFINE h == Step(f)
  <2>2. \A i \in 1..n : h[i] = f[i]
    <3> HIDE DEF Right
    <3> QED
      BY <2>1
  <2>3. \A i \in 1..n : Right(h, i) = Right(f, i)
    <3>1. \A i \in 1..n : i # 1 => i - 1 \in 1..n
      OBVIOUS
    <3> HIDE DEF h
    <3> QED
      BY <2>2, <3>1
  <2>4. h = Step(h)
    <3> HIDE DEF Right
    <3> QED
      BY <2>3
  <2> QED
    BY <2>4
<1>5. (CHOOSE f : f = Step(f)) = Step(CHOOSE f : f = Step(f))
  <2> HIDE DEF Step
  <2> QED
    BY <1>4
<1>6. n # 0 => FlattenSeq(seqs) = (CHOOSE f : f = Step(f))[n]
  BY DEF FlattenSeq
<1> QED
  BY <1>5, <1>6

\* InOrder gives each member of a finite set once, the lesser before the greater.
LEMMA InOrderEnumerates ==
  ASSUME NEW S \in SUBSET Int, IsFiniteSet(S)
  PROVE  /\ Cardinality(S) \in Nat
         /\ InOrder(S) \in [1..Cardinality(S) -> S]
         /\ \A i, j \in 1..Cardinality(S) : i < j => InOrder(S)[i] < InOrder(S)[j]
         /\ \A x \in S : \E i \in 1..Cardinality(S) : InOrder(S)[i] = x
<1> DEFINE n == Cardinality(S)
           Below(x) == {y \in S : y < x}
           f == [x \in S |-> Cardinality(Below(x)) + 1]
<1>1. n \in Nat
  BY FS_CardinalityType
<1>2. \A x \in S : IsFiniteSet(Below(x)) /\ Cardinality(Below(x)) \in Nat
  <2> TAKE x \in S
  <2>1. Below(x) \in SUBSET S
    OBVIOUS
  <2> HIDE DEF Below
  <2> QED
    BY <2>1, FS_Subset, FS_CardinalityType
<1>3. \A x \in S : Cardinality(Below(x)) < n
  <2> TAKE x \in S
  <2>1. Below(x) \in SUBSET (S \ {x})
    OBVIOUS
  <2>2. IsFiniteSet(S \ {x}) /\ Cardinality(S \ {x}) = n - 1
    BY FS_RemoveElement
  <2> HIDE DEF Below
  <2>3. Cardinality(Below(x)) <= n - 1
    BY <2>1, <2>2, FS_Subset
  <2> QED
    BY <1>1, <1>2, <2>3
<1>4. \A x, z \in S : x < z => Cardinality(Below(x)) < Cardinality(Below(z))
  <2> TAKE x, z \in S
  <2> HAVE x < z
  <2>1. (Below(x) \cup {x}) \in SUBSET Below(z) /\ x \notin Below(x)
    <3>1. \A y \in Below(x) : y \in Below(z)
      <4>1. \A y \in S : y < x => y < z
        OBVIOUS
      <4> QED
        BY <4>1
    <3>2. x \in Below(z) /\ ~(x < x)
      OBVIOUS
    <3> QED
      BY <3>1, <3>2
  <2> HIDE DEF Below
  <2>2. Cardinality(Below(x) \cup {x}) = Cardinality(Below(x)) + 1
    BY <1>2, <2>1, FS_AddElement
  <2>3. Cardinality(Below(x) \cup {x}) <= Cardinality(Below(z))
    BY <1>2, <2>1, FS_Subset
  <2> QED
    BY <1>2, <2>2, <2>3
<1>5. f \in [S -> 1..n]
  <2> HIDE DEF Below
  <2> QED
    BY <1>1, <1>2, <1>3
<1>6. \A x, z \in S : f[x] = f[z] => x = z
  <2> SUFFICES ASSUME NEW x \in S, NEW z \in S, f[x] = f[z], x # z PROVE FALSE
    OBVIOUS
  <2>1. x < z \/ z < x
    OBVIOUS
  <2> HIDE DEF Below
  <2> QED
    BY <1>2, <1>4, <2>1
<1>7. f \in Injection(S, 1..n)
  <2> HIDE DEF f
  <2> QED
    BY <1>5, <1>6 DEF Injection, IsInjective
<1>8. \A k \in 1..n : \E x \in S : f[x] = k
  <2>1. IsFiniteSet(1..n) /\ Cardinality(1..n) = n
    BY <1>1, FS_Interval
  <2> HIDE DEF f
  <2>2. f \in Surjection(S, 1..n)
    BY <1>7, <2>1, FS_Injection
  <2> QED
    BY <2>2 DEF Surjection
<1>9. \A k \in 1..n : InOrder(S)[k] \in S /\ f[InOrder(S)[k]] = k
  <2> TAKE k \in 1..n
  <2>1. PICK x \in S : f[x] = k
    BY <1>8
  <2>2. x \in S /\ Cardinality(Below(x)) = k - 1
    <3> HIDE DEF Below
    <3> QED
      BY <1>2, <2>1
  <2>3. InOrder(S)[k] = CHOOSE y \in S : Cardinality(Below(y)) = k - 1
    BY DEF InOrder
  <2> HIDE DEF Below
  <2>4. InOrder(S)[k] \in S /\ Cardinality(Below(InOrder(S)[k])) = k - 1
    BY <2>2, <2>3
  <2> QED
    BY <2>4
<1>10. InOrder(S) \in [1..n -> S]
  <2>1. InOrder(S) = [k \in 1..n |-> InOrder(S)[k]]
    BY DEF InOrder
  <2> QED
    BY <1>9, <2>1
<1>11. ASSUME NEW i \in 1..n, NEW j \in 1..n, i < j PROVE InOrder(S)[i] < InOrder(S)[j]
  <2> DEFINE x == InOrder(S)[i]
             z == InOrder(S)[j]
  <2>1. x \in S /\ z \in S /\ f[x] = i /\ f[z] = j
    BY <1>9
  <2> HIDE DEF x, z
  <2>2. Cardinality(Below(x)) + 1 = i /\ Cardinality(Below(z)) + 1 = j
    <3> HIDE DEF Below
    <3> QED
      BY <2>1
  <2>3. ~(z < x)
    <3> HIDE DEF Below
    <3> QED
      BY <1>2, <1>4, <1>11, <2>1, <2>2
  <2>4. x # z
    BY <2>1, <1>11
  <2>5. x < z
    BY <2>1, <2>3, <2>4
  <2> QED
    BY <2>5 DEF x, z
<1>12. ASSUME NEW x \in S PROVE \E i \in 1..n : InOrder(S)[i] = x
  <2> HIDE DEF f
  <2>1. f[x] \in 1..n
    BY <1>5
  <2>2. InOrder(S)[f[x]] = x
    BY <1>6, <1>9, <2>1
  <2> QED
    BY <2>1, <2>2
<1> QED
  BY <1>1, <1>10, <1>11, <1>12

\* Numbers that grow are as many as their places.
LEMMA CountOf ==
  ASSUME NEW n \in Nat, NEW q \in [1..n -> Int], \A i, j \in 1..n : i < j => q[i] < q[j]
  PROVE  IsFiniteSet({q[i] : i \in 1..n}) /\ Cardinality({q[i] : i \in 1..n}) = n
<1> DEFINE S == {q[i] : i \in 1..n}
<1>1. q \in [1..n -> S]
  OBVIOUS
<1>2. \A i, j \in 1..n : q[i] = q[j] => i = j
  <2> SUFFICES ASSUME NEW i \in 1..n, NEW j \in 1..n, q[i] = q[j], i # j PROVE FALSE
    OBVIOUS
  <2>1. i < j \/ j < i
    OBVIOUS
  <2> QED
    BY <2>1
<1>3. \A x \in S : \E i \in 1..n : q[i] = x
  OBVIOUS
<1> HIDE DEF S
<1>4. q \in Bijection(1..n, S)
  BY <1>1, <1>2, <1>3 DEF Bijection, Injection, Surjection, IsInjective
<1>5. ExistsBijection(1..n, S)
  BY <1>4 DEF ExistsBijection
<1>6. IsFiniteSet(S) /\ Cardinality(S) = n
  BY <1>5, FS_NatBijection, FS_CountingElements
<1> QED
  BY <1>6 DEF S

\* They are their own order.
LEMMA InOrderIs ==
  ASSUME NEW n \in Nat, NEW q \in [1..n -> Int], \A i, j \in 1..n : i < j => q[i] < q[j]
  PROVE  InOrder({q[i] : i \in 1..n}) = q
<1> DEFINE S == {q[i] : i \in 1..n}
           r == InOrder(S)
<1>1. IsFiniteSet(S) /\ Cardinality(S) = n
  BY CountOf
<1>2. S \in SUBSET Int
  OBVIOUS
<1>3. \A k \in 1..n : Cardinality({y \in S : y < q[k]}) = k - 1
  <2> TAKE k \in 1..n
  <2> DEFINE p == [i \in 1..k - 1 |-> q[i]]
  <2>1. {y \in S : y < q[k]} = {p[i] : i \in 1..k - 1}
    <3>1. ASSUME NEW i \in 1..n, q[i] < q[k] PROVE i \in 1..k - 1
      <4>1. ~(k < i) /\ k # i
        BY <3>1
      <4> QED
        BY <4>1
    <3>2. \A i \in 1..k - 1 : i \in 1..n /\ p[i] = q[i] /\ q[i] < q[k]
      OBVIOUS
    <3> HIDE DEF p
    <3> QED
      BY <3>1, <3>2
  <2>2. k - 1 \in Nat /\ p \in [1..k - 1 -> Int] /\ \A i, j \in 1..k - 1 : i < j => p[i] < p[j]
    OBVIOUS
  <2> HIDE DEF p, S
  <2> QED
    BY <2>1, <2>2, CountOf
<1>4. \A k \in 1..n : r[k] = q[k]
  <2> TAKE k \in 1..n
  <2>1. r[k] = CHOOSE x \in S : Cardinality({y \in S : y < x}) = k - 1
    BY <1>1 DEF InOrder
  <2>2. q[k] \in S
    OBVIOUS
  <2>3. \A x \in S : Cardinality({y \in S : y < x}) = k - 1 => x = q[k]
    <3> SUFFICES ASSUME NEW i \in 1..n, Cardinality({y \in S : y < q[i]}) = k - 1 PROVE q[i] = q[k]
      OBVIOUS
    <3>1. i - 1 = k - 1
      BY <1>3
    <3> QED
      BY <3>1
  <2> HIDE DEF r, S
  <2> QED
    BY <1>3, <2>1, <2>2, <2>3
<1>5. r = [k \in 1..n |-> r[k]]
  <2> DEFINE Ranked(k) == CHOOSE x \in S : Cardinality({y \in S : y < x}) = k - 1
  <2> HIDE DEF S
  <2>1. r = [k \in 1..n |-> Ranked(k)]
    BY <1>1 DEF InOrder
  <2> HIDE DEF r, Ranked
  <2> QED
    BY <2>1
<1>6. q = [k \in 1..n |-> q[k]]
  OBVIOUS
<1> HIDE DEF r, S
<1>7. r = q
  BY <1>4, <1>5, <1>6
<1> QED
  BY <1>7 DEF r, S

\* What the first k make together.
Flat(ss, k) == FlattenSeq(SubSeq(ss, 1, k))

\* With one more of the seqs there is one more at the end.
LEMMA FlatSteps ==
  ASSUME NEW T, NEW ss \in Seq(Seq(T))
  PROVE  /\ Flat(ss, 0) = <<>>
         /\ \A k \in 0..Len(ss) - 1 : Flat(ss, k + 1) = Flat(ss, k) \o ss[k + 1]
         /\ \A k \in 0..Len(ss) : Flat(ss, k) \in Seq(T)
         /\ FlattenSeq(ss) = Flat(ss, Len(ss))
<1> DEFINE n == Len(ss)
<1>0. n \in Nat /\ \A i \in 1..n : ss[i] \in Seq(T)
  OBVIOUS
<1>1. Flat(ss, 0) = <<>>
  BY DEF Flat, FlattenSeq
<1>2. PICK f : /\ f = [i \in 1..n |-> IF i = 1 THEN ss[i] ELSE f[i - 1] \o ss[i]]
               /\ n # 0 => FlattenSeq(ss) = f[n]
  BY <1>0, FlattenUnfolds
<1>3. \A k \in 1..n : Flat(ss, k) = f[k]
  <2> TAKE k \in 1..n
  <2> DEFINE t == SubSeq(ss, 1, k)
  <2>1. Len(t) = k /\ \A i \in 1..k : t[i] = ss[i]
    OBVIOUS
  <2> HIDE DEF t
  <2>2. PICK g : /\ g = [i \in 1..k |-> IF i = 1 THEN t[i] ELSE g[i - 1] \o t[i]]
                 /\ k # 0 => FlattenSeq(t) = g[k]
    BY <2>1, FlattenUnfolds, k \in Nat
  <2> DEFINE I == {i \in Nat : i \in 1..k => g[i] = f[i]}
  <2>3. \A i \in 1..k : g[i] = IF i = 1 THEN ss[i] ELSE g[i - 1] \o ss[i]
    BY <2>1, <2>2
  <2>4. \A i \in 1..k : f[i] = IF i = 1 THEN ss[i] ELSE f[i - 1] \o ss[i]
    <3>1. \A i \in 1..k : i \in 1..n
      OBVIOUS
    <3> QED
      BY <1>2, <3>1
  <2>5. 0 \in I
    OBVIOUS
  <2>6. ASSUME NEW i \in I PROVE i + 1 \in I
    <3>1. i + 1 \in 1..k => g[i + 1] = f[i + 1]
      <4> HAVE i + 1 \in 1..k
      <4>1. CASE i = 0
        BY <2>3, <2>4, <4>1
      <4>2. CASE i # 0
        <5>1. g[i] = f[i] /\ (i + 1) - 1 = i /\ i + 1 # 1
          BY <4>2
        <5> QED
          BY <2>3, <2>4, <5>1
      <4> QED
        BY <4>1, <4>2
    <3> QED
      BY <3>1
  <2>7. I = Nat
    <3>1. I \in SUBSET Nat
      OBVIOUS
    <3> HIDE DEF I
    <3> QED
      BY <2>5, <2>6, <3>1, Induction
  <2>8. k \in I
    BY <2>7
  <2> QED
    BY <2>2, <2>8 DEF Flat, t
<1>4. \A k \in 0..n : Flat(ss, k) \in Seq(T)
  <2> DEFINE I == {i \in Nat : i \in 1..n => f[i] \in Seq(T)}
  <2>1. 0 \in I
    OBVIOUS
  <2>2. ASSUME NEW i \in I PROVE i + 1 \in I
    <3>1. i + 1 \in 1..n => f[i + 1] \in Seq(T)
      <4> HAVE i + 1 \in 1..n
      <4>1. CASE i = 0
        BY <1>0, <1>2, <4>1
      <4>2. CASE i # 0
        <5>1. f[i] \in Seq(T) /\ (i + 1) - 1 = i /\ i + 1 # 1
          BY <4>2
        <5>2. f[i + 1] = f[i] \o ss[i + 1]
          BY <1>2, <5>1
        <5> QED
          BY <1>0, <5>1, <5>2
      <4> QED
        BY <4>1, <4>2
    <3> QED
      BY <3>1
  <2>3. I = Nat
    <3>1. I \in SUBSET Nat
      OBVIOUS
    <3> HIDE DEF I
    <3> QED
      BY <2>1, <2>2, <3>1, Induction
  <2>4. \A k \in 1..n : f[k] \in Seq(T)
    <3>1. \A k \in 1..n : k \in I
      BY <2>3
    <3> QED
      BY <3>1
  <2>5. <<>> \in Seq(T)
    OBVIOUS
  <2>6. \A k \in 0..n : k = 0 \/ k \in 1..n
    OBVIOUS
  <2> QED
    BY <1>1, <1>3, <2>4, <2>5, <2>6
<1>5. ASSUME NEW k \in 0..n - 1 PROVE Flat(ss, k + 1) = Flat(ss, k) \o ss[k + 1]
  <2>1. Flat(ss, k + 1) = f[k + 1]
    BY <1>3
  <2>4. k + 1 \in 1..n /\ (k + 1) - 1 = k
    OBVIOUS
  <2>2. CASE k = 0
    <3>1. f[1] = ss[1]
      BY <1>2, <2>2
    <3>2. <<>> \o ss[1] = ss[1]
      BY <1>0, <2>2
    <3> QED
      BY <1>1, <2>1, <2>2, <3>1, <3>2
  <2>3. CASE k # 0
    <3>1. f[k + 1] = f[k] \o ss[k + 1]
      <4>1. k + 1 # 1
        BY <2>3
      <4> QED
        BY <1>2, <2>4, <4>1
    <3>2. k \in 1..n
      BY <2>3
    <3> QED
      BY <1>3, <2>1, <3>1, <3>2
  <2> QED
    BY <2>2, <2>3
<1>6. FlattenSeq(ss) = Flat(ss, n)
  <2>1. CASE n = 0
    <3>1. FlattenSeq(ss) = ss /\ ss = <<>>
      BY <2>1 DEF FlattenSeq
    <3> QED
      BY <1>1, <2>1, <3>1
  <2>2. CASE n # 0
    <3>1. n \in 1..n
      BY <1>0, <2>2
    <3> QED
      BY <1>2, <1>3, <2>2, <3>1
  <2> QED
    BY <2>1, <2>2
<1> QED
  BY <1>1, <1>4, <1>5, <1>6

\* The k-th is found behind what the ones before it make.
LEMMA FlatHolds ==
  ASSUME NEW T, NEW ss \in Seq(Seq(T))
  PROVE  /\ \A k \in 0..Len(ss) : Len(Flat(ss, k)) \in Nat
         /\ \A k \in 1..Len(ss) : Len(Flat(ss, k)) = Len(Flat(ss, k - 1)) + Len(ss[k])
         /\ \A j, k \in 0..Len(ss) : j <= k =>
              /\ Len(Flat(ss, j)) <= Len(Flat(ss, k))
              /\ \A x \in 1..Len(Flat(ss, j)) : Flat(ss, k)[x] = Flat(ss, j)[x]
         /\ \A k \in 1..Len(ss) : \A x \in 1..Len(ss[k]) :
              FlattenSeq(ss)[Len(Flat(ss, k - 1)) + x] = ss[k][x]
<1> DEFINE n == Len(ss)
           Fl(k) == Flat(ss, k)
<1>0. n \in Nat /\ \A i \in 1..n : ss[i] \in Seq(T)
  OBVIOUS
<1>1. /\ Fl(0) = <<>>
      /\ \A k \in 0..n - 1 : Fl(k + 1) = Fl(k) \o ss[k + 1]
      /\ \A k \in 0..n : Fl(k) \in Seq(T)
      /\ FlattenSeq(ss) = Fl(n)
  BY FlatSteps
<1> HIDE DEF Fl
<1>2. \A k \in 0..n : Len(Fl(k)) \in Nat
  BY <1>1
<1>3. ASSUME NEW k \in 1..n
      PROVE  /\ Len(Fl(k)) = Len(Fl(k - 1)) + Len(ss[k])
             /\ \A x \in 1..Len(Fl(k - 1)) : Fl(k)[x] = Fl(k - 1)[x]
             /\ \A x \in 1..Len(ss[k]) : Fl(k)[Len(Fl(k - 1)) + x] = ss[k][x]
  <2>1. k - 1 \in 0..n - 1 /\ (k - 1) + 1 = k /\ k - 1 \in 0..n
    BY <1>0
  <2>2. Fl(k) = Fl(k - 1) \o ss[k] /\ Fl(k - 1) \in Seq(T) /\ ss[k] \in Seq(T)
    BY <1>0, <1>1, <2>1
  <2> QED
    BY <2>2
<1>4. ASSUME NEW j \in 0..n
      PROVE  \A k \in 0..n : j <= k => /\ Len(Fl(j)) <= Len(Fl(k))
                                       /\ \A x \in 1..Len(Fl(j)) : Fl(k)[x] = Fl(j)[x]
  <2> DEFINE Good(k) == /\ Len(Fl(j)) <= Len(Fl(k))
                        /\ \A x \in 1..Len(Fl(j)) : Fl(k)[x] = Fl(j)[x]
             I == {m \in Nat : j + m <= n => Good(j + m)}
  <2>1. 0 \in I
    <3>1. Good(j)
      BY <1>2
    <3>2. j + 0 = j
      OBVIOUS
    <3> HIDE DEF Good
    <3> QED
      BY <3>1, <3>2
  <2>2. ASSUME NEW m \in I PROVE m + 1 \in I
    <3>1. ASSUME j + (m + 1) <= n PROVE Good(j + (m + 1))
      <4>1. Good(j + m)
        BY <3>1, <1>0
      <4>2. j + m + 1 \in 1..n /\ (j + m + 1) - 1 = j + m /\ j + m \in 0..n /\ j + (m + 1) = j + m + 1
        BY <3>1, <1>0
      <4> DEFINE k == j + m + 1
      <4>3. /\ Len(Fl(k)) = Len(Fl(j + m)) + Len(ss[k])
            /\ \A x \in 1..Len(Fl(j + m)) : Fl(k)[x] = Fl(j + m)[x]
        BY <1>3, <4>2
      <4>4. Len(ss[k]) \in Nat /\ Len(Fl(j + m)) \in Nat /\ Len(Fl(j)) \in Nat
        BY <1>0, <1>2, <4>2
      <4>5. Good(k)
        <5>1. Len(Fl(j)) <= Len(Fl(j + m)) /\ \A x \in 1..Len(Fl(j)) : Fl(j + m)[x] = Fl(j)[x]
          BY <4>1
        <5> HIDE DEF k
        <5>2. Len(Fl(j)) <= Len(Fl(k))
          <6>1. Len(Fl(j)) <= Len(Fl(j + m)) /\ Len(Fl(k)) = Len(Fl(j + m)) + Len(ss[k])
            BY <4>3, <5>1
          <6>2. \A a, b, c, d \in Nat : a <= b /\ c = b + d => a <= c
            OBVIOUS
          <6>3. Len(Fl(k)) \in Nat
            BY <1>2, <4>2 DEF k
          <6> QED
            BY <4>4, <6>1, <6>2, <6>3
        <5>3. \A x \in 1..Len(Fl(j)) : x \in 1..Len(Fl(j + m))
          BY <4>4, <5>1
        <5>4. \A x \in 1..Len(Fl(j)) : Fl(k)[x] = Fl(j)[x]
          BY <4>3, <5>1, <5>3
        <5> QED
          BY <5>2, <5>4
      <4> HIDE DEF Good
      <4> QED
        BY <4>2, <4>5
    <3> HIDE DEF Good
    <3>2. m + 1 \in Nat
      OBVIOUS
    <3> QED
      BY <3>1, <3>2
  <2>3. I = Nat
    <3>1. I \in SUBSET Nat
      OBVIOUS
    <3> HIDE DEF I
    <3> QED
      BY <2>1, <2>2, <3>1, Induction
  <2>4. ASSUME NEW k \in 0..n, j <= k PROVE Good(k)
    <3>1. k - j \in Nat /\ j + (k - j) = k /\ k <= n
      BY <2>4, <1>0
    <3>2. j + (k - j) <= n => Good(j + (k - j))
      <4> HIDE DEF Good
      <4> QED
        BY <2>3, <3>1
    <3> HIDE DEF Good
    <3> QED
      BY <3>1, <3>2
  <2> QED
    BY <2>4
<1>5. ASSUME NEW k \in 1..n, NEW x \in 1..Len(ss[k])
      PROVE  FlattenSeq(ss)[Len(Fl(k - 1)) + x] = ss[k][x]
  <2>1. k \in 0..n /\ n \in 0..n /\ k <= n /\ k - 1 \in 0..n
    BY <1>0
  <2>2. Len(Fl(k - 1)) \in Nat /\ Len(ss[k]) \in Nat
    BY <1>0, <1>2, <2>1
  <2>3. Len(Fl(k - 1)) + x \in 1..Len(Fl(k))
    <3>1. Len(Fl(k)) = Len(Fl(k - 1)) + Len(ss[k])
      BY <1>3
    <3> HIDE DEF n
    <3> QED
      BY <2>2, <3>1
  <2> QED
    BY <1>1, <1>3, <1>4, <2>1, <2>3
<1> QED
  BY <1>2, <1>3, <1>4, <1>5 DEF Fl

-----------------------------------------------------------------------------
(* Who takes frame after frame from the front.                             *)

\* The function by which Taken is defined.
IsFrom(b, found, from) ==
  from = [i \in 1..Len(b) + 1 |->
            IF found[i].more /\ found[i].next # i
            THEN [from[found[i].next] EXCEPT !.out = found[i].out \o @]
            ELSE [rest |-> From(b, found[i].next), out |-> <<>>, hung |-> found[i].more]]

\* Each look goes on, if it does.
Forward(b, found) ==
  Len(b) \in Nat /\ \A i \in 1..Len(b) + 1 : found[i].more => found[i].next \in i..Len(b) + 1

\* What Taken looks through, place by place.
LEMMA TakenUnfolds ==
  ASSUME NEW b, NEW found, Forward(b, found)
  PROVE  \E from : IsFrom(b, found, from) /\ Taken(b, found) = from[1]
<1> USE DEF Forward
<1> DEFINE n == Len(b) + 1
           Right(f, i) == IF found[i].more /\ found[i].next # i
                          THEN [f[found[i].next] EXCEPT !.out = found[i].out \o @]
                          ELSE [rest |-> From(b, found[i].next), out |-> <<>>, hung |-> found[i].more]
           Step(f) == [i \in 1..n |-> Right(f, i)]
           I == {k \in Nat : \E f : \A i \in 1..n : i > n - k => f[i] = Right(f, i)}
<1>0. \A i \in 1..n : found[i].more /\ found[i].next # i => found[i].next \in i + 1..n
  <2>1. n \in Nat
    OBVIOUS
  <2>2. \A i \in 1..n : found[i].more => found[i].next \in i..n
    OBVIOUS
  <2>3. \A i \in 1..n : \A j \in i..n : j # i => j \in i + 1..n
    BY <2>1
  <2> QED
    BY <2>2, <2>3
<1>1. 0 \in I
  <2>1. \A i \in 1..n : ~(i > n - 0)
    OBVIOUS
  <2> HIDE DEF Right, n
  <2> QED
    BY <2>1
<1>2. ASSUME NEW k \in I PROVE k + 1 \in I
  <2>1. PICK f : \A i \in 1..n : i > n - k => f[i] = Right(f, i)
    OBVIOUS
  <2> DEFINE g == [i \in 1..n |-> IF i = n - k THEN Right(f, i) ELSE f[i]]
  <2>2. k \in Nat /\ n \in Nat
    OBVIOUS
  <2> HIDE DEF n
  <2>3. ASSUME NEW i \in 1..n, i > n - (k + 1), NEW j \in i + 1..n PROVE g[j] = f[j]
    <3>1. j \in 1..n /\ j # n - k
      BY <2>2, <2>3
    <3> QED
      BY <3>1
  <2>4. \A i \in 1..n : i > n - (k + 1) => Right(g, i) = Right(f, i)
    <3> HIDE DEF g
    <3> QED
      BY <1>0, <2>3
  <2>5. \A i \in 1..n : i > n - (k + 1) => i = n - k \/ i > n - k
    BY <2>2
  <2>6. \A i \in 1..n : i > n - (k + 1) => g[i] = Right(f, i)
    <3> HIDE DEF Right
    <3> QED
      BY <2>1, <2>5
  <2>7. k + 1 \in Nat
    OBVIOUS
  <2> HIDE DEF g, Right
  <2> QED
    BY <2>4, <2>6, <2>7
<1>3. n \in I
  <2>1. I \in SUBSET Nat
    OBVIOUS
  <2>2. n \in Nat
    OBVIOUS
  <2> HIDE DEF I, n
  <2> QED
    BY <1>1, <1>2, <2>1, <2>2, Induction
<1>4. \E f : f = Step(f)
  <2>0. \A i \in 1..n : i > n - n
    <3>1. n \in Nat
      OBVIOUS
    <3> HIDE DEF n
    <3> QED
      BY <3>1
  <2>1. PICK f : \A i \in 1..n : f[i] = Right(f, i)
    <3> HIDE DEF n, Right
    <3> QED
      BY <1>3, <2>0
  <2> DEFINE h == Step(f)
  <2>2. \A i \in 1..n : h[i] = f[i]
    <3> HIDE DEF Right
    <3> QED
      BY <2>1
  <2>3. \A i \in 1..n : found[i].more /\ found[i].next # i => found[i].next \in 1..n
    BY <1>0
  <2>4. \A i \in 1..n : Right(h, i) = Right(f, i)
    <3> HIDE DEF h, n
    <3> QED
      BY <2>2, <2>3
  <2>5. h = Step(h)
    <3> HIDE DEF Right
    <3> QED
      BY <2>4
  <2> QED
    BY <2>5
<1>5. (CHOOSE f : f = Step(f)) = Step(CHOOSE f : f = Step(f))
  <2> HIDE DEF Step
  <2> QED
    BY <1>4
<1>6. Taken(b, found) = (CHOOSE f : f = Step(f))[1]
  BY DEF Taken
<1> QED
  BY <1>5, <1>6 DEF IsFrom

\* From p[0] to p[1] and so on, and nothing more at p[n]; out[k] is what is found from p[k] on.
Along(b, found, n, p, out) ==
  /\ n \in Nat /\ p \in [0..n -> 1..Len(b) + 1] /\ p[0] = 1
  /\ \A k \in 0..n - 1 : /\ found[p[k]].more /\ found[p[k]].next = p[k + 1] /\ p[k + 1] # p[k]
                         /\ out[k] = found[p[k]].out \o out[k + 1]
  /\ found[p[n]].more = FALSE /\ out[n] = <<>>

\* Who goes from p[0] to p[1] and so on, and finds nothing more at p[n], has taken what
\* is found on the way.
LEMMA TakenAlong ==
  ASSUME NEW b, NEW found, Forward(b, found), NEW n, NEW p, NEW out, Along(b, found, n, p, out)
  PROVE  Taken(b, found) = [rest |-> From(b, found[p[n]].next), out |-> out[0], hung |-> FALSE]
<1> USE DEF Forward, Along
<1>0. PICK from : IsFrom(b, found, from) /\ Taken(b, found) = from[1]
  BY TakenUnfolds
<1>1. \A i \in 1..Len(b) + 1 :
        from[i] = IF found[i].more /\ found[i].next # i
                  THEN [from[found[i].next] EXCEPT !.out = found[i].out \o @]
                  ELSE [rest |-> From(b, found[i].next), out |-> <<>>, hung |-> found[i].more]
  <2> DEFINE Right(i) == IF found[i].more /\ found[i].next # i
                         THEN [from[found[i].next] EXCEPT !.out = found[i].out \o @]
                         ELSE [rest |-> From(b, found[i].next), out |-> <<>>, hung |-> found[i].more]
  <2>1. from = [i \in 1..Len(b) + 1 |-> Right(i)]
    BY <1>0 DEF IsFrom
  <2> HIDE DEF Right
  <2>2. \A i \in 1..Len(b) + 1 : from[i] = Right(i)
    BY <2>1
  <2> QED
    BY <2>2 DEF Right
<1> DEFINE rest == From(b, found[p[n]].next)
           Done(k) == [rest |-> rest, out |-> out[k], hung |-> FALSE]
           I == {m \in Nat : m <= n => from[p[n - m]] = Done(n - m)}
<1>2. \A k \in 0..n : p[k] \in 1..Len(b) + 1
  OBVIOUS
<1>3. from[p[n]] = Done(n)
  <2>1. n \in 0..n
    OBVIOUS
  <2> QED
    BY <1>1, <1>2, <2>1
<1>4. ASSUME NEW k \in 0..n - 1, from[p[k + 1]] = Done(k + 1) PROVE from[p[k]] = Done(k)
  <2>1. k \in 0..n
    OBVIOUS
  <2>2. found[p[k]].more /\ found[p[k]].next = p[k + 1] /\ p[k + 1] # p[k] /\ p[k] \in 1..Len(b) + 1
    BY <1>2, <2>1
  <2> DEFINE i == p[k]
             j == p[k + 1]
  <2> HIDE DEF i, j, Done
  <2>5. from[i] = [from[j] EXCEPT !.out = found[i].out \o @]
    <3>1. found[i].more /\ found[i].next = j /\ j # i /\ i \in 1..Len(b) + 1
      BY ONLY <2>2 DEF i, j
    <3> QED
      BY ONLY <1>1, <3>1
  <2>3. from[p[k]] = [Done(k + 1) EXCEPT !.out = found[p[k]].out \o @]
    BY <1>4, <2>5 DEF i, j
  <2> USE DEF Done
  <2>4. from[p[k]] = [rest |-> rest, out |-> found[p[k]].out \o out[k + 1], hung |-> FALSE]
    BY <2>3
  <2> QED
    BY <2>4
<1>5. 0 \in I
  <2>1. n - 0 = n
    OBVIOUS
  <2> HIDE DEF Done
  <2> QED
    BY <1>3, <2>1
<1>6. ASSUME NEW m \in I PROVE m + 1 \in I
  <2>1. ASSUME m + 1 <= n PROVE from[p[n - (m + 1)]] = Done(n - (m + 1))
    <3>1. n - (m + 1) \in 0..n - 1 /\ (n - (m + 1)) + 1 = n - m
      BY <2>1
    <3>2. from[p[n - m]] = Done(n - m)
      BY <2>1
    <3> HIDE DEF Done
    <3> QED
      BY <1>4, <3>1, <3>2
  <2>2. m + 1 \in Nat
    OBVIOUS
  <2> HIDE DEF Done
  <2> QED
    BY <2>1, <2>2
<1>7. n \in I
  <2>1. I \in SUBSET Nat
    OBVIOUS
  <2> HIDE DEF I
  <2> QED
    BY <1>5, <1>6, <2>1, Induction
<1>8. n - n = 0
  OBVIOUS
<1> QED
  BY <1>0, <1>7, <1>8

-----------------------------------------------------------------------------
(* A stream, and what of it is not used yet.                               *)

\* What stands in front of the parts, and the parts as they are written.
HeadOf(s)  == IF s.format = "ivf" THEN IvfFile ELSE <<>>
Encoded(s) == [i \in DOMAIN s.parts |-> Bytes(s.format, s.parts[i])]

\* Where the k-th part ends.
Ends(s, k) == Len(HeadOf(s)) + Len(Flat(Encoded(s), k))

\* A stream holds each part, as it is written, from where the one before it ends.
LEMMA StreamHolds ==
  ASSUME NEW s, Encoded(s) \in Seq(Seq(Nat)), DOMAIN s.parts = 1..Len(s.parts), Len(s.parts) \in Nat
  PROVE  /\ AllBytes(s) \in Seq(Nat)
         /\ Len(Encoded(s)) = Len(s.parts)
         /\ \A k \in 0..Len(s.parts) : Ends(s, k) \in Nat
         /\ Ends(s, 0) = Len(HeadOf(s))
         /\ Ends(s, Len(s.parts)) = Len(AllBytes(s))
         /\ \A k \in 1..Len(s.parts) : /\ Ends(s, k) = Ends(s, k - 1) + Len(Bytes(s.format, s.parts[k]))
                                       /\ Bytes(s.format, s.parts[k]) \in Seq(Nat)
         /\ \A j, k \in 0..Len(s.parts) : j <= k => Ends(s, j) <= Ends(s, k)
         /\ \A k \in 1..Len(s.parts) : \A x \in 1..Len(Bytes(s.format, s.parts[k])) :
              AllBytes(s)[Ends(s, k - 1) + x] = Bytes(s.format, s.parts[k])[x]
         /\ \A x \in 1..Len(HeadOf(s)) : AllBytes(s)[x] = HeadOf(s)[x]
<1> DEFINE ss == Encoded(s)
           n == Len(s.parts)
           hd == HeadOf(s)
<1>1. Len(ss) = n /\ n \in Nat /\ \A k \in 1..n : ss[k] = Bytes(s.format, s.parts[k])
  <2>1. DOMAIN ss = 1..n /\ \A k \in 1..n : ss[k] = Bytes(s.format, s.parts[k])
    BY DEF Encoded
  <2> QED
    BY <2>1
<1>2. hd \in Seq(Nat) /\ Len(hd) \in Nat
  BY DEF HeadOf, IvfFile
<1>3. AllBytes(s) = hd \o FlattenSeq(ss)
  BY DEF AllBytes, HeadOf, Encoded
<1>0. ss \in Seq(Seq(Nat))
  OBVIOUS
<1> HIDE DEF ss, hd, n
<1>4. /\ Flat(ss, 0) = <<>>
      /\ \A k \in 0..n : Flat(ss, k) \in Seq(Nat)
      /\ FlattenSeq(ss) = Flat(ss, n)
  BY <1>1, FlatSteps DEF ss
<1>5. /\ \A k \in 0..n : Len(Flat(ss, k)) \in Nat
      /\ \A k \in 1..n : Len(Flat(ss, k)) = Len(Flat(ss, k - 1)) + Len(ss[k])
      /\ \A j, k \in 0..n : j <= k => Len(Flat(ss, j)) <= Len(Flat(ss, k))
      /\ \A k \in 1..n : \A x \in 1..Len(ss[k]) :
           FlattenSeq(ss)[Len(Flat(ss, k - 1)) + x] = ss[k][x]
  <2>1. /\ \A k \in 0..Len(ss) : Len(Flat(ss, k)) \in Nat
        /\ \A k \in 1..Len(ss) : Len(Flat(ss, k)) = Len(Flat(ss, k - 1)) + Len(ss[k])
        /\ \A j, k \in 0..Len(ss) : j <= k => Len(Flat(ss, j)) <= Len(Flat(ss, k))
        /\ \A k \in 1..Len(ss) : \A x \in 1..Len(ss[k]) :
             FlattenSeq(ss)[Len(Flat(ss, k - 1)) + x] = ss[k][x]
    BY ONLY <1>0, FlatHolds
  <2> QED
    BY ONLY <1>1, <2>1
<1>6. n \in 0..n /\ FlattenSeq(ss) \in Seq(Nat)
  BY <1>1, <1>4
<1>7. AllBytes(s) \in Seq(Nat)
  BY <1>2, <1>3, <1>6
<1>8. \A k \in 0..n : Ends(s, k) = Len(hd) + Len(Flat(ss, k))
  BY DEF Ends, hd, ss
<1>9. Ends(s, 0) = Len(hd)
  BY <1>1, <1>2, <1>4, <1>8
<1>10. Ends(s, n) = Len(AllBytes(s))
  BY <1>2, <1>3, <1>4, <1>6, <1>8
<1>11. ASSUME NEW k \in 1..n
       PROVE  /\ Ends(s, k) = Ends(s, k - 1) + Len(ss[k])
              /\ ss[k] \in Seq(Nat)
              /\ \A x \in 1..Len(ss[k]) : AllBytes(s)[Ends(s, k - 1) + x] = ss[k][x]
  <2>1. k \in 0..n /\ k - 1 \in 0..n /\ k <= n
    BY <1>1
  <2>2. ss[k] \in Seq(Nat)
    BY <1>1 DEF ss
  <2>3. Ends(s, k) = Ends(s, k - 1) + Len(ss[k])
    <3>1. Len(Flat(ss, k)) = Len(Flat(ss, k - 1)) + Len(ss[k])
      BY <1>5
    <3>2. Len(Flat(ss, k)) \in Nat /\ Len(Flat(ss, k - 1)) \in Nat /\ Len(ss[k]) \in Nat
      BY <1>5, <2>1, <2>2
    <3>3. Ends(s, k) = Len(hd) + Len(Flat(ss, k)) /\ Ends(s, k - 1) = Len(hd) + Len(Flat(ss, k - 1))
      BY <1>8, <2>1
    <3> DEFINE a == Len(hd)
               p == Len(Flat(ss, k))
               q == Len(Flat(ss, k - 1))
               l == Len(ss[k])
               e == Ends(s, k)
               d == Ends(s, k - 1)
    <3>4. a \in Nat /\ p \in Nat /\ q \in Nat /\ l \in Nat /\ p = q + l /\ e = a + p /\ d = a + q
      BY <1>2, <3>1, <3>2, <3>3
    <3>5. e = d + l
      <4> HIDE DEF a, p, q, l, e, d
      <4> QED
        BY ONLY <3>4
    <3> QED
      BY <3>5
  <2>4. ASSUME NEW x \in 1..Len(ss[k]) PROVE AllBytes(s)[Ends(s, k - 1) + x] = ss[k][x]
    <3> DEFINE y == Len(Flat(ss, k - 1)) + x
    <3>1. FlattenSeq(ss)[y] = ss[k][x]
      BY <1>5
    <3>2. Len(Flat(ss, k)) = Len(Flat(ss, k - 1)) + Len(ss[k]) /\ Len(Flat(ss, k)) <= Len(Flat(ss, n))
      BY <1>5, <1>6, <2>1
    <3>3. Len(Flat(ss, k - 1)) \in Nat /\ Len(Flat(ss, n)) \in Nat /\ Len(ss[k]) \in Nat /\ x \in Nat /\ x <= Len(ss[k]) /\ x >= 1
      BY <1>5, <1>6, <2>1, <2>2
    <3>4. y \in 1..Len(FlattenSeq(ss))
      <4>1. \A a, c, l, z \in Nat : c = a + l /\ c <= z /\ x <= l => a + x \in 1..z
        BY <3>3
      <4>2. Len(Flat(ss, k)) \in Nat /\ Len(FlattenSeq(ss)) = Len(Flat(ss, n))
        BY <1>4, <1>5, <2>1
      <4> DEFINE a == Len(Flat(ss, k - 1))
                 c == Len(Flat(ss, k))
                 l == Len(ss[k])
                 z == Len(Flat(ss, n))
      <4>3. a \in Nat /\ c \in Nat /\ l \in Nat /\ z \in Nat /\ c = a + l /\ c <= z /\ x <= l
        BY <3>2, <3>3, <4>2
      <4> HIDE DEF a, c, l, z
      <4>4. a + x \in 1..z
        BY ONLY <4>1, <4>3
      <4> QED
        BY ONLY <4>2, <4>4 DEF a, z, y
    <3>5. Ends(s, k - 1) + x = Len(hd) + y
      <4>1. Ends(s, k - 1) = Len(hd) + Len(Flat(ss, k - 1))
        BY ONLY <1>8, <2>1
      <4> DEFINE e == Ends(s, k - 1)
                 a == Len(hd)
                 f == Len(Flat(ss, k - 1))
      <4>2. a \in Nat /\ f \in Nat /\ x \in Nat /\ e = a + f
        BY ONLY <1>2, <3>3, <4>1
      <4> HIDE DEF e, a, f
      <4>3. e + x = a + (f + x)
        BY ONLY <4>2
      <4> QED
        BY ONLY <4>3 DEF e, a, f, y
    <3> HIDE DEF y
    <3>6. (hd \o FlattenSeq(ss))[Len(hd) + y] = FlattenSeq(ss)[y]
      BY <1>2, <1>6, <3>4
    <3> QED
      BY <1>3, <3>1, <3>5, <3>6
  <2> QED
    BY <2>2, <2>3, <2>4
<1>12. \A k \in 0..n : Ends(s, k) \in Nat
  BY <1>2, <1>5, <1>8
<1>13. ASSUME NEW j \in 0..n, NEW k \in 0..n, j <= k PROVE Ends(s, j) <= Ends(s, k)
  <2>1. Len(Flat(ss, j)) <= Len(Flat(ss, k)) /\ Len(Flat(ss, j)) \in Nat /\ Len(Flat(ss, k)) \in Nat
    BY <1>5, <1>13
  <2> QED
    BY <1>2, <1>8, <2>1
<1>14. \A x \in 1..Len(hd) : AllBytes(s)[x] = hd[x]
  BY <1>2, <1>3, <1>6
<1> QED
  BY <1>1, <1>7, <1>9, <1>10, <1>11, <1>12, <1>13, <1>14 DEF n, hd, ss

\* Where a read ends, there is a part that has been read and none after it.
LEMMA LastRead ==
  ASSUME NEW s, Encoded(s) \in Seq(Seq(Nat)), DOMAIN s.parts = 1..Len(s.parts), Len(s.parts) \in Nat,
         NEW k \in 0..Len(s.parts), NEW g \in Nat, Ends(s, k) <= g
  PROVE  \E j \in k..Len(s.parts) : Ends(s, j) <= g /\ (j < Len(s.parts) => g < Ends(s, j + 1))
<1> DEFINE n == Len(s.parts)
           I == {m \in Nat : m <= n - k /\ Ends(s, n - m) <= g}
<1>1. n - k \in I
  <2>1. n - (n - k) = k
    OBVIOUS
  <2> QED
    BY <2>1
<1>2. PICK m \in I : \A l \in I : m <= l
  <2> I \in SUBSET Nat
    OBVIOUS
  <2> HIDE DEF I
  <2> QED
    BY <1>1, LeastOf
<1>3. n - m \in k..n /\ Ends(s, n - m) <= g
  BY <1>2
<1>4. ASSUME n - m < n PROVE g < Ends(s, n - m + 1)
  <2>1. m - 1 \in Nat /\ m - 1 <= n - k /\ m - 1 \notin I /\ n - (m - 1) = n - m + 1 /\ n - m + 1 \in 0..n
    <3>1. m \in Nat /\ m <= n - k /\ n \in Nat /\ k \in 0..n /\ m # 0
      BY <1>4
    <3>2. m - 1 \notin I
      <4>1. ~(m <= m - 1)
        BY <3>1
      <4> HIDE DEF I
      <4> QED
        BY <1>2, <4>1
    <3> HIDE DEF n, I
    <3> QED
      BY <3>1, <3>2
  <2>2. ~(Ends(s, n - m + 1) <= g)
    BY <2>1
  <2>3. Ends(s, n - m + 1) \in Nat
    BY <2>1, StreamHolds
  <2> HIDE DEF n
  <2> QED
    BY <2>2, <2>3
<1> QED
  BY <1>3, <1>4

\* What is between two places of a sequence; and when there is more of it.
LEMMA WindowOf ==
  ASSUME NEW W \in Seq(Nat), NEW a \in Nat, NEW g \in a..Len(W)
  PROVE  /\ SubSeq(W, a + 1, g) \in Seq(Nat)
         /\ Len(SubSeq(W, a + 1, g)) = g - a
         /\ \A x \in 1..g - a : SubSeq(W, a + 1, g)[x] = W[a + x]
         /\ \A i \in 1..g - a + 1 : From(SubSeq(W, a + 1, g), i) = SubSeq(W, a + i, g)
         /\ \A n \in Nat : g + n <= Len(W) =>
              SubSeq(W, a + 1, g) \o SubSeq(W, g + 1, g + n) = SubSeq(W, a + 1, g + n)
<1> DEFINE b == SubSeq(W, a + 1, g)
<1>1. b \in Seq(Nat) /\ Len(b) = g - a /\ \A x \in 1..g - a : b[x] = W[a + x]
  OBVIOUS
<1>2. ASSUME NEW i \in 1..g - a + 1 PROVE From(b, i) = SubSeq(W, a + i, g)
  <2> HIDE DEF b
  <2>1. From(b, i) = [x \in 1..(g - a) - i + 1 |-> b[i + x - 1]]
    <3>1. From(b, i) = SubSeq(b, i, g - a)
      BY <1>1 DEF From
    <3>2. i \in Nat /\ g - a \in Nat
      OBVIOUS
    <3> QED
      BY <1>1, <3>1, <3>2
  <2>2. SubSeq(W, a + i, g) = [x \in 1..g - (a + i) + 1 |-> W[(a + i) + x - 1]]
    OBVIOUS
  <2>3. (g - a) - i + 1 = g - (a + i) + 1
    OBVIOUS
  <2>4. \A x \in 1..(g - a) - i + 1 : b[i + x - 1] = W[(a + i) + x - 1]
    <3> TAKE x \in 1..(g - a) - i + 1
    <3>1. i + x - 1 \in 1..g - a /\ a + (i + x - 1) = (a + i) + x - 1
      OBVIOUS
    <3> QED
      BY <1>1, <3>1
  <2> QED
    BY <2>1, <2>2, <2>3, <2>4
<1>3. ASSUME NEW n \in Nat, g + n <= Len(W)
      PROVE  b \o SubSeq(W, g + 1, g + n) = SubSeq(W, a + 1, g + n)
  <2>1. a + 1 \in 1..Len(W) + 1 /\ g \in (a + 1) - 1..Len(W) /\ g + n \in g..Len(W)
    <3>1. Len(W) \in Nat
      OBVIOUS
    <3> QED
      BY <1>3, <3>1
  <2> QED
    BY <2>1, ConcatAdjacentSubSeq
<1> QED
  BY <1>1, <1>2, <1>3

\* What laces have in front of them is about what they are.
LEMMA UpToAdds ==
  ASSUME NEW laces \in Seq(Nat)
  PROVE  /\ UpTo(laces)[0] = 0
         /\ \A k \in 1..Len(laces) : UpTo(laces)[k] = UpTo(laces)[k - 1] + laces[k]
         /\ \A k \in 0..Len(laces) : UpTo(laces)[k] \in Nat
<1> DEFINE n == Len(laces)
           Right(f, i) == IF i = 0 THEN 0 ELSE f[i - 1] + laces[i]
           Step(f) == [i \in 0..n |-> Right(f, i)]
           I == {k \in Nat : \E f : \A i \in 0..n : i <= k => f[i] = Right(f, i)}
<1>0. n \in Nat
  OBVIOUS
<1> HIDE DEF n
<1>1. 0 \in I
  <2>1. \A i \in 0..n : i <= 0 => [j \in {0} |-> 0][i] = Right([j \in {0} |-> 0], i)
    OBVIOUS
  <2> HIDE DEF Right
  <2> QED
    BY <2>1
<1>2. ASSUME NEW k \in I PROVE k + 1 \in I
  <2>1. PICK f : \A i \in 0..n : i <= k => f[i] = Right(f, i)
    OBVIOUS
  <2> DEFINE g == [i \in 0..n |-> IF i = k + 1 THEN Right(f, i) ELSE f[i]]
  <2>2. \A i \in 0..n : i # 0 /\ i <= k + 1 => g[i - 1] = f[i - 1]
    BY <1>0
  <2>3. \A i \in 0..n : i <= k + 1 => Right(g, i) = Right(f, i)
    BY <2>2
  <2>4. \A i \in 0..n : i <= k + 1 => g[i] = Right(f, i)
    BY <2>1
  <2>5. k + 1 \in Nat
    OBVIOUS
  <2> HIDE DEF g, Right
  <2> QED
    BY <2>3, <2>4, <2>5
<1>3. n \in I
  <2>1. I \subseteq Nat
    OBVIOUS
  <2> HIDE DEF I
  <2> QED
    BY <1>0, <1>1, <1>2, <2>1, Induction
<1>4. \E f : f = Step(f)
  <2>1. PICK f : \A i \in 0..n : i <= n => f[i] = Right(f, i)
    BY <1>3
  <2> DEFINE h == Step(f)
  <2>2. \A i \in 0..n : h[i] = f[i]
    <3> HIDE DEF Right
    <3> QED
      BY <1>0, <2>1
  <2>3. \A i \in 0..n : Right(h, i) = Right(f, i)
    <3>1. \A i \in 0..n : i # 0 => i - 1 \in 0..n
      BY <1>0
    <3> HIDE DEF h
    <3> QED
      BY <2>2, <3>1
  <2>4. h = Step(h)
    <3> HIDE DEF Right
    <3> QED
      BY <2>3
  <2> QED
    BY <2>4
<1>5. (CHOOSE f : f = Step(f)) = Step(CHOOSE f : f = Step(f))
  <2> HIDE DEF Step
  <2> QED
    BY <1>4
<1>6. UpTo(laces) = (CHOOSE f : f = Step(f))
  BY DEF UpTo, n
<1>7. \A i \in 0..n : UpTo(laces)[i] = Right(UpTo(laces), i)
  <2> DEFINE u == UpTo(laces)
  <2>1. u = Step(u)
    <3> HIDE DEF Step
    <3> QED
      BY <1>5, <1>6
  <2> HIDE DEF u, Right
  <2> QED
    BY <2>1 DEF u
<1>8. UpTo(laces)[0] = 0 /\ \A k \in 1..n : UpTo(laces)[k] = UpTo(laces)[k - 1] + laces[k]
  BY <1>0, <1>7
<1>9. \A k \in 0..n : UpTo(laces)[k] \in Nat
  <2> DEFINE J == {k \in Nat : k <= n => UpTo(laces)[k] \in Nat}
  <2>1. 0 \in J
    BY <1>8
  <2>2. ASSUME NEW k \in J PROVE k + 1 \in J
    <3>1. ASSUME k + 1 <= n PROVE UpTo(laces)[k + 1] \in Nat
      <4>1. k + 1 \in 1..n /\ (k + 1) - 1 = k /\ UpTo(laces)[k] \in Nat
        BY <1>0, <3>1
      <4>2. laces[k + 1] \in Nat
        BY <4>1 DEF n
      <4> QED
        BY <1>8, <4>1, <4>2
    <3> QED
      BY <3>1
  <2>3. J \subseteq Nat
    OBVIOUS
  <2>4. J = Nat
    <3> HIDE DEF J
    <3> QED
      BY <2>1, <2>2, <2>3, Induction
  <2> QED
    BY <1>0, <2>4
<1> QED
  BY <1>8, <1>9 DEF n

\* What is left of ss when the first j of it have been flattened but for the first k.
Rest(ss, k, j) == SubSeq(Flat(ss, j), Len(Flat(ss, k)) + 1, Len(Flat(ss, j)))

\* What is made of the seqs from the k-th on, one after the other.
LEMMA RestGoesOn ==
  ASSUME NEW T, NEW ss \in Seq(Seq(T)), NEW k \in 0..Len(ss), NEW j \in k..Len(ss)
  PROVE  /\ Rest(ss, j, j) = <<>>
         /\ k < j => Rest(ss, k, j) = ss[k + 1] \o Rest(ss, k + 1, j)
         /\ Rest(ss, k, j) \in Seq(T)
         /\ Flat(ss, k) \in Seq(T)
         /\ Flat(ss, k) \o Rest(ss, k, j) = Flat(ss, j)
<1> DEFINE n == Len(ss)
           F == Flat(ss, j)
<1>0. n \in Nat /\ k \in 0..n /\ j \in 0..n /\ k <= j
  OBVIOUS
<1>1. ASSUME NEW i \in 0..n, i <= j
      PROVE  /\ Flat(ss, i) \in Seq(T) /\ Rest(ss, i, j) \in Seq(T)
             /\ Flat(ss, i) \o Rest(ss, i, j) = F
  <2> DEFINE c == Flat(ss, i)
             l == Len(c)
             w == Rest(ss, i, j)
  <2>1. /\ F \in Seq(T) /\ c \in Seq(T) /\ l <= Len(F)
        /\ \A x \in 1..l : c[x] = F[x]
    BY <1>0, <1>1, FlatSteps, FlatHolds
  <2>2. w = SubSeq(F, l + 1, Len(F))
    BY DEF Rest
  <2> HIDE DEF c, w, F
  <2>3. l \in Nat /\ Len(F) \in Nat
    BY <2>1
  <2>4. SubSeq(F, 1, l) = c
    <3>1. SubSeq(F, 1, l) \in Seq(T) /\ Len(SubSeq(F, 1, l)) = l /\ \A x \in 1..l : SubSeq(F, 1, l)[x] = F[x]
      BY <2>1, <2>3
    <3> QED
      BY <2>1, <3>1, SeqEqual
  <2>5. 1 \in 1..Len(F) + 1 /\ l \in 1 - 1..Len(F) /\ Len(F) \in l..Len(F)
    BY <2>1, <2>3
  <2>6. SubSeq(F, 1, l) \o SubSeq(F, l + 1, Len(F)) = SubSeq(F, 1, Len(F))
    BY <2>1, <2>5, ConcatAdjacentSubSeq
  <2>7. SubSeq(F, 1, Len(F)) = F
    BY <2>1, SubSeqFull
  <2>8. w \in Seq(T)
    BY <2>1, <2>2, <2>3
  <2> QED
    BY <2>1, <2>2, <2>4, <2>6, <2>7, <2>8 DEF c, w
<1>2. Rest(ss, j, j) = <<>>
  <2>1. F \in Seq(T) /\ Len(F) \in Nat
    BY <1>0, <1>1
  <2>2. Rest(ss, j, j) = SubSeq(F, Len(F) + 1, Len(F))
    BY DEF Rest
  <2> HIDE DEF F
  <2> QED
    BY <2>1, <2>2, SubSeqEmpty
<1>3. ASSUME k < j PROVE Rest(ss, k, j) = ss[k + 1] \o Rest(ss, k + 1, j)
  <2>1. k + 1 \in 0..n /\ k + 1 <= j /\ k + 1 \in 1..n /\ k \in 0..n - 1
    BY <1>0, <1>3
  <2>2. Flat(ss, k + 1) = Flat(ss, k) \o ss[k + 1]
    BY <2>1, FlatSteps
  <2>3. ss[k + 1] \in Seq(T)
    BY <2>1
  <2>4. /\ Flat(ss, k) \in Seq(T) /\ Rest(ss, k, j) \in Seq(T) /\ Rest(ss, k + 1, j) \in Seq(T)
        /\ Flat(ss, k) \o Rest(ss, k, j) = Flat(ss, k + 1) \o Rest(ss, k + 1, j)
    BY <1>0, <1>1, <2>1
  <2> DEFINE a == Flat(ss, k)
             b == ss[k + 1]
             c == Rest(ss, k + 1, j)
             d == Rest(ss, k, j)
  <2> HIDE DEF a, b, c, d, F
  <2>5. a \in Seq(T) /\ b \in Seq(T) /\ c \in Seq(T) /\ d \in Seq(T) /\ a \o d = (a \o b) \o c
    BY <2>2, <2>3, <2>4 DEF a, b, c, d
  <2>6. (a \o b) \o c = a \o (b \o c)
    <3>1. a \in Seq(T) /\ b \in Seq(T) /\ c \in Seq(T)
      BY ONLY <2>5
    <3> QED
      BY ONLY <3>1, ConcatAssociative
  <2>7. b \o c \in Seq(T)
    BY <2>5
  <2>8. d = b \o c
    <3>1. \A s, t, v \in Seq(T) : s \o t = s \o v => t = v
      BY ConcatSimplifications
    <3>2. a \o d = a \o (b \o c)
      BY <2>5, <2>6
    <3> DEFINE e == b \o c
    <3> HIDE DEF e
    <3>3. e \in Seq(T) /\ a \o d = a \o e
      BY <2>7, <3>2 DEF e
    <3>4. d = e
      BY <2>5, <3>1, <3>3
    <3> QED
      BY <3>4 DEF e
  <2> QED
    BY <2>8 DEF b, c, d
<1> QED
  BY <1>0, <1>1, <1>2, <1>3

\* A stream of parts, none of which is written as nothing.
IsStream(s) ==
  /\ Encoded(s) \in Seq(Seq(Nat))
  /\ Len(s.parts) \in Nat /\ DOMAIN s.parts = 1..Len(s.parts)
  /\ \A k \in 1..Len(s.parts) : Len(Bytes(s.format, s.parts[k])) > 0

\* Of the first g bytes, those of the first k parts have been used, ...
Unused(s, k, g) == SubSeq(AllBytes(s), Ends(s, k) + 1, g)

\* ... which are all the parts there are in them.
AreRead(s, k, g) ==
  /\ k \in 0..Len(s.parts) /\ Ends(s, k) <= g
  /\ k < Len(s.parts) => g < Ends(s, k + 1)

\* Byte by byte, what is unused is what the stream has there; without its next parts it is
\* what is unused after them.
LEMMA UnusedIs ==
  ASSUME NEW s, IsStream(s), NEW k \in 0..Len(s.parts), NEW g \in Ends(s, k)..Len(AllBytes(s))
  PROVE  /\ Unused(s, k, g) \in Seq(Nat)
         /\ Len(Unused(s, k, g)) = g - Ends(s, k)
         /\ \A x \in 1..g - Ends(s, k) : Unused(s, k, g)[x] = AllBytes(s)[Ends(s, k) + x]
         /\ \A i \in 1..g - Ends(s, k) + 1 :
              From(Unused(s, k, g), i) = SubSeq(AllBytes(s), Ends(s, k) + i, g)
         /\ \A j \in k..Len(s.parts) : Ends(s, j) <= g =>
              /\ Ends(s, j) - Ends(s, k) + 1 \in 1..Len(Unused(s, k, g)) + 1
              /\ From(Unused(s, k, g), Ends(s, j) - Ends(s, k) + 1) = Unused(s, j, g)
<1> DEFINE W == AllBytes(s)
           e == Ends(s, k)
<1>1. W \in Seq(Nat) /\ e \in Nat
  BY StreamHolds DEF IsStream
<1>2. /\ Unused(s, k, g) \in Seq(Nat)
      /\ Len(Unused(s, k, g)) = g - e
      /\ \A x \in 1..g - e : Unused(s, k, g)[x] = W[e + x]
      /\ \A i \in 1..g - e + 1 : From(Unused(s, k, g), i) = SubSeq(W, e + i, g)
  <2>1. Unused(s, k, g) = SubSeq(W, e + 1, g)
    BY DEF Unused
  <2>2. g \in e..Len(W)
    OBVIOUS
  <2> HIDE DEF W, e
  <2> QED
    BY <1>1, <2>1, <2>2, WindowOf
<1>3. ASSUME NEW j \in k..Len(s.parts), Ends(s, j) <= g
      PROVE  /\ Ends(s, j) - e + 1 \in 1..g - e + 1
             /\ From(Unused(s, k, g), Ends(s, j) - e + 1) = Unused(s, j, g)
  <2> DEFINE d == Ends(s, j)
  <2>1. d \in Nat /\ e <= d
    <3>1. j \in 0..Len(s.parts) /\ k <= j
      BY DEF IsStream
    <3> QED
      BY <3>1, StreamHolds DEF IsStream
  <2>2. Unused(s, j, g) = SubSeq(W, d + 1, g)
    BY DEF Unused
  <2>3. g \in Int /\ d <= g
    BY <1>1, <1>3
  <2> HIDE DEF d, e, W
  <2>4. d - e + 1 \in 1..g - e + 1 /\ e + (d - e + 1) = d + 1
    BY <1>1, <2>1, <2>3
  <2>5. From(Unused(s, k, g), d - e + 1) = Unused(s, j, g)
    BY <1>2, <2>2, <2>4
  <2> QED
    BY <2>4, <2>5 DEF d
<1> QED
  BY <1>2, <1>3

\* A part lies at that place in what is unused, as far as it has been read.
IsPart(s, k, g, m, at, bytes) ==
  /\ at \in Nat /\ bytes \in Seq(Nat) /\ Len(bytes) > 0
  /\ Ends(s, m + 1) = Ends(s, m) + Len(bytes)
  /\ Ends(s, m + 1) - Ends(s, k) = at + Len(bytes)
  /\ Ends(s, m + 1) <= g <=> at + Len(bytes) <= Len(Unused(s, k, g))
  /\ \A x \in 1..Len(bytes) : at + x <= Len(Unused(s, k, g)) => Unused(s, k, g)[at + x] = bytes[x]

\* That is so of each part that is not used.
LEMMA PartAt ==
  ASSUME NEW s, IsStream(s), NEW k \in 0..Len(s.parts), NEW g \in Ends(s, k)..Len(AllBytes(s)),
         NEW m \in k..Len(s.parts) - 1,
         NEW at, at = Ends(s, m) - Ends(s, k),
         NEW bytes, bytes = Bytes(s.format, s.parts[m + 1])
  PROVE  IsPart(s, k, g, m, at, bytes)
<1> DEFINE e == Ends(s, k)
           d == Ends(s, m)
           f == Ends(s, m + 1)
           l == Len(bytes)
           u == Len(Unused(s, k, g))
<1>0. Len(s.parts) \in Nat /\ m \in 0..Len(s.parts) /\ m + 1 \in 1..Len(s.parts) /\ (m + 1) - 1 = m /\ k <= m
      /\ m + 1 \in 0..Len(s.parts)
  BY DEF IsStream
<1>1. e \in Nat /\ d \in Nat /\ f \in Nat /\ e <= d /\ f = d + l /\ bytes \in Seq(Nat)
  BY <1>0, StreamHolds DEF IsStream
<1>2. l \in Nat /\ l > 0
  BY <1>0, <1>1 DEF IsStream
<1>3. \A x \in 1..l : AllBytes(s)[d + x] = bytes[x]
  <2> DEFINE i == m + 1
  <2>1. i \in 1..Len(s.parts) /\ i - 1 = m /\ bytes = Bytes(s.format, s.parts[i])
    BY <1>0
  <2> HIDE DEF i
  <2>0. \A j \in 1..Len(s.parts) : \A x \in 1..Len(Bytes(s.format, s.parts[j])) :
          AllBytes(s)[Ends(s, j - 1) + x] = Bytes(s.format, s.parts[j])[x]
    BY ONLY IsStream(s), StreamHolds DEF IsStream
  <2>2. \A x \in 1..l : AllBytes(s)[Ends(s, i - 1) + x] = bytes[x]
    BY ONLY <2>0, <2>1
  <2> QED
    BY <2>1, <2>2
<1>4. u = g - e /\ g \in Int /\ \A x \in 1..g - e : Unused(s, k, g)[x] = AllBytes(s)[e + x]
  BY <1>1, UnusedIs
<1> HIDE DEF e, d, f, l, u
<1>5. at = d - e
  BY DEF d, e
<1>6. at \in Nat /\ f - e = at + l /\ (f <= g <=> at + l <= u)
  BY ONLY <1>1, <1>2, <1>4, <1>5
<1>7. ASSUME NEW x \in 1..l, at + x <= u PROVE Unused(s, k, g)[at + x] = bytes[x]
  <2>1. at + x \in 1..g - e /\ e + (at + x) = d + x
    BY ONLY <1>1, <1>2, <1>4, <1>5, <1>6, <1>7
  <2> QED
    BY <1>3, <1>4, <2>1
<1> QED
  BY <1>1, <1>2, <1>6, <1>7 DEF IsPart, d, e, f, l, u

\* From the k-th part on, one part after the other is found up to the j-th.
Leads(s, k, j, ss, found) ==
  /\ \A m \in k..j - 1 : /\ found[Ends(s, m) - Ends(s, k) + 1].more
                         /\ found[Ends(s, m) - Ends(s, k) + 1].next = Ends(s, m + 1) - Ends(s, k) + 1
                         /\ found[Ends(s, m) - Ends(s, k) + 1].out = ss[m + 1]
  /\ found[Ends(s, j) - Ends(s, k) + 1].more = FALSE

\* Who finds part after part in what is unused takes those that are read.
LEMMA PartsTaken ==
  ASSUME NEW s, IsStream(s), NEW k \in 0..Len(s.parts), NEW g \in Ends(s, k)..Len(AllBytes(s)),
         NEW j \in k..Len(s.parts), Ends(s, j) <= g,
         NEW T, NEW ss \in Seq(Seq(T)), Len(ss) = Len(s.parts),
         NEW b, b = Unused(s, k, g),
         NEW found, Forward(b, found),
         Leads(s, k, j, ss, found)
  PROVE  Taken(b, found) = [rest |-> From(b, found[Ends(s, j) - Ends(s, k) + 1].next),
                            out  |-> Rest(ss, k, j), hung |-> FALSE]
<1> DEFINE at(m) == Ends(s, m) - Ends(s, k) + 1
           p == [i \in 0..j - k |-> at(k + i)]
           out == [i \in 0..j - k |-> Rest(ss, k + i, j)]
<1>0. Len(s.parts) \in Nat /\ j - k \in Nat /\ j \in 0..Len(s.parts)
  BY DEF IsStream
<1>1. Len(b) \in Nat
  BY UnusedIs
<1>2. \A m \in k..j : Ends(s, m) <= Ends(s, j) /\ Ends(s, m) \in Nat /\ Ends(s, k) <= Ends(s, m) /\ m \in 0..Len(s.parts)
  <2> TAKE m \in k..j
  <2>1. m \in 0..Len(s.parts) /\ k <= m /\ m <= j
    BY <1>0
  <2> QED
    BY <1>0, <2>1, StreamHolds DEF IsStream
<1>3. \A m \in k..j : at(m) \in 1..Len(b) + 1
  <2> TAKE m \in k..j
  <2>1. Ends(s, m) <= g
    <3>1. Ends(s, j) \in Nat /\ g \in Int
      BY <1>0, <1>2, StreamHolds DEF IsStream
    <3>2. \A x, y, z \in Int : x <= y /\ y <= z => x <= z
      OBVIOUS
    <3>3. Ends(s, m) <= Ends(s, j) /\ Ends(s, m) \in Int
      BY <1>2
    <3> QED
      BY <3>1, <3>2, <3>3
  <2>2. m \in k..Len(s.parts)
    BY <1>0
  <2> QED
    BY <2>1, <2>2, UnusedIs
<1>4. \A m \in k..j - 1 : at(m + 1) # at(m)
  <2> TAKE m \in k..j - 1
  <2>1. m \in k..Len(s.parts) - 1
    BY <1>0
  <2> DEFINE bytes == Bytes(s.format, s.parts[m + 1])
             d == Ends(s, m)
             f == Ends(s, m + 1)
             l == Len(bytes)
             e == Ends(s, k)
  <2>2. bytes \in Seq(Nat) /\ l > 0 /\ f = d + l
    <3>1. IsPart(s, k, g, m, Ends(s, m) - Ends(s, k), bytes)
      BY <2>1, PartAt
    <3> HIDE DEF bytes
    <3> QED
      BY <3>1 DEF IsPart
  <2>3. l \in Nat
    BY <2>2
  <2>4. d \in Nat /\ e \in Nat /\ f \in Nat
    BY <1>0, <1>2
  <2> HIDE DEF bytes, d, f, l, e
  <2>5. f - e + 1 # d - e + 1
    BY <2>2, <2>3, <2>4
  <2> QED
    BY <2>5 DEF f, d, e
<1>5. \A i \in 0..j - k : k + i \in k..j
  BY <1>0
<1>6. \A i \in 0..(j - k) - 1 : k + i \in k..j - 1 /\ k + (i + 1) = (k + i) + 1 /\ i \in 0..j - k /\ i + 1 \in 0..j - k
  BY <1>0
<1>7. /\ p \in [0..j - k -> 1..Len(b) + 1] /\ p[0] = 1
      /\ \A i \in 0..j - k : p[i] = at(k + i)
      /\ p[j - k] = at(j)
  <2>1. \A i \in 0..j - k : at(k + i) \in 1..Len(b) + 1
    BY <1>3, <1>5
  <2>2. at(k + 0) = 1 /\ 0 \in 0..j - k /\ j - k \in 0..j - k /\ k + (j - k) = j
    BY <1>0, <1>2
  <2> HIDE DEF at
  <2> QED
    BY <2>1, <2>2
<1>8. \A i \in 0..j - k : out[i] = Rest(ss, k + i, j)
  OBVIOUS
<1>9. out[j - k] = <<>>
  <2>1. j - k \in 0..j - k /\ k + (j - k) = j /\ j \in j..Len(ss) /\ j \in 0..Len(ss)
    BY <1>0
  <2>2. Rest(ss, j, j) = <<>>
    BY ONLY ss \in Seq(Seq(T)), <2>1, RestGoesOn
  <2>3. out[j - k] = Rest(ss, k + (j - k), j)
    BY <1>8, <2>1
  <2> QED
    BY <2>1, <2>2, <2>3
<1>10. \A i \in 0..(j - k) - 1 : out[i] = ss[k + i + 1] \o out[i + 1]
  <2> TAKE i \in 0..(j - k) - 1
  <2> DEFINE m == k + i
  <2>1. m \in 0..Len(ss) /\ j \in m..Len(ss) /\ m < j /\ k + (i + 1) = k + i + 1
    <3>1. Len(ss) \in Nat /\ k \in Nat /\ j \in Nat /\ i \in Nat /\ j <= Len(ss) /\ i <= (j - k) - 1
      BY <1>0
    <3> QED
      BY ONLY <3>1
  <2> HIDE DEF m
  <2>2a. Rest(ss, m, j) = ss[m + 1] \o Rest(ss, m + 1, j)
    BY ONLY ss \in Seq(Seq(T)), <2>1, RestGoesOn
  <2>2. Rest(ss, k + i, j) = ss[k + i + 1] \o Rest(ss, k + i + 1, j)
    BY <2>2a DEF m
  <2> QED
    BY <1>6, <1>8, <2>1, <2>2
<1>11. out[0] = Rest(ss, k, j)
  <2>1. 0 \in 0..j - k /\ k + 0 = k
    BY <1>0
  <2> QED
    BY <1>8, <2>1
<1> HIDE DEF p, out
<1>12. \A i \in 0..(j - k) - 1 : /\ found[p[i]].more /\ found[p[i]].next = p[i + 1] /\ p[i + 1] # p[i]
                                 /\ out[i] = found[p[i]].out \o out[i + 1]
  <2> TAKE i \in 0..(j - k) - 1
  <2>1. p[i] = at(k + i) /\ p[i + 1] = at(k + i + 1) /\ k + i \in k..j - 1
    BY <1>6, <1>7
  <2>2. found[at(k + i)].more /\ found[at(k + i)].next = at(k + i + 1) /\ found[at(k + i)].out = ss[k + i + 1]
    BY <2>1 DEF Leads
  <2>3. at(k + i + 1) # at(k + i)
    BY ONLY <1>4, <2>1
  <2> HIDE DEF at
  <2> QED
    BY ONLY <1>10, <2>1, <2>2, <2>3
<1>13. found[p[j - k]].more = FALSE
  BY <1>7 DEF Leads
<1>14. Taken(b, found) = [rest |-> From(b, found[p[j - k]].next), out |-> out[0], hung |-> FALSE]
  <2> DEFINE n == j - k
  <2> HIDE DEF n
  <2>1. n \in Nat /\ p \in [0..n -> 1..Len(b) + 1] /\ p[0] = 1 /\ found[p[n]].more = FALSE /\ out[n] = <<>>
    BY <1>0, <1>7, <1>9, <1>13 DEF n
  <2>2. \A i \in 0..n - 1 : /\ found[p[i]].more /\ found[p[i]].next = p[i + 1] /\ p[i + 1] # p[i]
                            /\ out[i] = found[p[i]].out \o out[i + 1]
    BY <1>12 DEF n
  <2>3. Along(b, found, n, p, out)
    BY ONLY <2>1, <2>2 DEF Along
  <2>4. Taken(b, found) = [rest |-> From(b, found[p[n]].next), out |-> out[0], hung |-> FALSE]
    BY <2>3, TakenAlong
  <2> QED
    BY <2>4 DEF n
<1> QED
  BY <1>7, <1>11, <1>14

\* In what is unused, the parts that are read are found, and not the one after them.
Finds(s, k, g, ss, found) ==
  /\ Forward(Unused(s, k, g), found)
  /\ found[Len(Unused(s, k, g)) + 1].more = FALSE
  /\ \A m \in k..Len(s.parts) - 1 : Ends(s, m) <= g =>
       IF Ends(s, m + 1) <= g
       THEN found[Ends(s, m) - Ends(s, k) + 1] = Goes(ss[m + 1], Ends(s, m + 1) - Ends(s, k) + 1)
       ELSE found[Ends(s, m) - Ends(s, k) + 1].more = FALSE

\* So are they taken by who finds each part that is read and stops at the one that is not.
LEMMA PartsFound ==
  ASSUME NEW s, IsStream(s), NEW k \in 0..Len(s.parts), NEW g \in Ends(s, k)..Len(AllBytes(s)),
         NEW j \in k..Len(s.parts), AreRead(s, j, g),
         NEW T, NEW ss \in Seq(Seq(T)), Len(ss) = Len(s.parts),
         NEW found, Finds(s, k, g, ss, found)
  PROVE  /\ found[Ends(s, j) - Ends(s, k) + 1].more = FALSE
         /\ Ends(s, j) - Ends(s, k) + 1 \in 1..Len(Unused(s, k, g)) + 1
         /\ Taken(Unused(s, k, g), found) =
              [rest |-> From(Unused(s, k, g), found[Ends(s, j) - Ends(s, k) + 1].next),
               out  |-> Rest(ss, k, j), hung |-> FALSE]
<1> DEFINE b == Unused(s, k, g)
           n == Len(s.parts)
           at(m) == Ends(s, m) - Ends(s, k) + 1
<1>1. n \in Nat /\ Ends(s, j) <= g /\ (j < n => g < Ends(s, j + 1)) /\ j \in k..n
  BY DEF AreRead, IsStream
<1>2. \A m \in 0..n : Ends(s, m) \in Nat
  BY StreamHolds DEF IsStream
<1>3. g \in Nat /\ Ends(s, n) = Len(AllBytes(s)) /\ g <= Len(AllBytes(s)) /\ Len(AllBytes(s)) \in Nat
  <2>1. Ends(s, n) = Len(AllBytes(s)) /\ Ends(s, n) \in Nat /\ Ends(s, k) \in Nat
    BY <1>1, <1>2, StreamHolds DEF IsStream
  <2> QED
    BY <2>1
<1>4. \A m \in k..j : Ends(s, m) <= g
  <2> TAKE m \in k..j
  <2>1. m \in 0..n /\ j \in 0..n /\ m <= j
    BY <1>1
  <2>2. Ends(s, m) <= Ends(s, j)
    BY <2>1, StreamHolds DEF IsStream
  <2> DEFINE x == Ends(s, m)
             y == Ends(s, j)
  <2>3. x \in Nat /\ y \in Nat /\ x <= y /\ y <= g
    BY <1>1, <1>2, <2>1, <2>2
  <2> HIDE DEF x, y
  <2>4. x <= g
    BY ONLY <2>3, <1>3
  <2> QED
    BY <2>4 DEF x
<1>5. ASSUME NEW m \in k..j - 1
      PROVE  found[at(m)].more /\ found[at(m)].next = at(m + 1) /\ found[at(m)].out = ss[m + 1]
  <2>1. m \in k..n - 1 /\ Ends(s, m) <= g /\ Ends(s, m + 1) <= g
    <3>1. m \in k..n - 1 /\ m \in k..j /\ m + 1 \in k..j
      BY <1>1
    <3> QED
      BY <1>4, <3>1
  <2>2. found[at(m)] = Goes(ss[m + 1], at(m + 1))
    <3> HIDE DEF b
    <3> QED
      BY <2>1 DEF Finds
  <2> QED
    BY <2>2 DEF Goes
<1>6. found[at(j)].more = FALSE
  <2>1. CASE j < n
    <3>1. j \in k..n - 1 /\ ~(Ends(s, j + 1) <= g)
      <4>1. j \in k..n - 1 /\ j + 1 \in 0..n
        BY <1>1, <2>1
      <4>2. Ends(s, j + 1) \in Nat /\ g < Ends(s, j + 1)
        BY <1>1, <1>2, <2>1, <4>1
      <4> QED
        BY <1>3, <4>1, <4>2
    <3> QED
      BY <1>1, <3>1 DEF Finds
  <2>2. CASE j = n
    <3>1. Len(b) = g - Ends(s, k)
      BY UnusedIs
    <3>2. Ends(s, j) = g
      BY <1>1, <1>3, <2>2
    <3>3. Len(b) + 1 = at(j)
      BY <3>1, <3>2
    <3>4. found[Len(b) + 1].more = FALSE
      BY DEF Finds
    <3> HIDE DEF b, at
    <3> QED
      BY <3>3, <3>4
  <2>3. j < n \/ j = n
    BY <1>1
  <2> QED
    BY <2>1, <2>2, <2>3
<1>7. Forward(b, found)
  BY DEF Finds
<1>8. at(j) \in 1..Len(b) + 1
  BY <1>1, UnusedIs
<1>9. Taken(b, found) = [rest |-> From(b, found[at(j)].next), out |-> Rest(ss, k, j), hung |-> FALSE]
  <2>1. Leads(s, k, j, ss, found)
    BY <1>5, <1>6 DEF Leads
  <2>2. b = Unused(s, k, g)
    OBVIOUS
  <2> HIDE DEF b
  <2> QED
    BY <1>1, <1>7, <2>1, <2>2, PartsTaken
<1> QED
  BY <1>6, <1>8, <1>9

-----------------------------------------------------------------------------
(* IVF.                                                                    *)

\* What IvfFrames finds.
IvfFound(b) ==
  [i \in 1..Len(b) + 1 |->
    IF Len(b) < i + 2 \/ Len(b) < i + 2 + b[i] THEN Stops(i)
    ELSE LET data == SubSeq(b, i + 3, i + 2 + b[i])
         IN  Goes(<<[Plain(data) EXCEPT !.key = data # <<>> /\ data[1] % 2 = 0]>>, i + 3 + b[i])]

\* What the parts of a stream are returned as.
Returned(s) ==
  [i \in DOMAIN s.parts |->
    CASE s.format = "ivf"  -> <<[Plain(s.parts[i]) EXCEPT !.key = s.parts[i][1] % 2 = 0]>>
      [] s.format = "adts" -> <<Plain(Adts(s.parts[i]))>>
      [] s.format = "ogg"  -> s.parts[i]]

\* What is returned of a stream that is not H.264 or H.265.
Frame == [data : Seq(Nat), key : BOOLEAN, description : {<<>>}]

\* IvfFrames goes forward, and what it stops at is left.
LEMMA IvfForward ==
  ASSUME NEW b \in Seq(Nat)
  PROVE  /\ Forward(b, IvfFound(b))
         /\ IvfFrames(b) = Taken(b, IvfFound(b))
         /\ \A i \in 1..Len(b) + 1 : ~IvfFound(b)[i].more => IvfFound(b)[i].next = i
<1>1. Len(b) \in Nat
  OBVIOUS
<1>2. ASSUME NEW i \in 1..Len(b) + 1
      PROVE  /\ IvfFound(b)[i].more => IvfFound(b)[i].next \in i..Len(b) + 1
             /\ ~IvfFound(b)[i].more => IvfFound(b)[i].next = i
  <2>1. CASE Len(b) < i + 2 \/ Len(b) < i + 2 + b[i]
    <3>1. IvfFound(b)[i] = Stops(i)
      BY <2>1 DEF IvfFound
    <3> QED
      BY <3>1 DEF Stops
  <2>2. CASE ~(Len(b) < i + 2 \/ Len(b) < i + 2 + b[i])
    <3>1. IvfFound(b)[i].more /\ IvfFound(b)[i].next = i + 3 + b[i]
      BY <2>2 DEF IvfFound, Goes
    <3>2. b[i] \in Nat
      BY <1>1, <2>2
    <3> QED
      BY <1>1, <2>2, <3>1, <3>2
  <2> QED
    BY <2>1, <2>2
<1>3. IvfFrames(b) = Taken(b, IvfFound(b))
  BY DEF IvfFrames, IvfFound
<1> QED
  BY <1>1, <1>2, <1>3 DEF Forward

\* IvfFrames finds a frame where it lies as soon as it is there, and not before.
LEMMA IvfPart ==
  ASSUME NEW b \in Seq(Nat), NEW at \in Nat, at <= Len(b), NEW data \in Seq(Nat), data # <<>>,
         NEW bytes, bytes = <<Len(data), 0, 0>> \o data,
         \A x \in 1..Len(bytes) : at + x <= Len(b) => b[at + x] = bytes[x]
  PROVE  IF at + Len(bytes) <= Len(b)
         THEN IvfFound(b)[at + 1] =
                Goes(<<[Plain(data) EXCEPT !.key = data[1] % 2 = 0]>>, at + Len(bytes) + 1)
         ELSE IvfFound(b)[at + 1].more = FALSE
<1> DEFINE l == Len(data)
           n == Len(b)
           i == at + 1
<1>1. l \in Nat /\ n \in Nat /\ i \in 1..n + 1
  OBVIOUS
<1>2. Len(bytes) = l + 3 /\ bytes[1] = l /\ \A x \in 1..l : bytes[x + 3] = data[x]
  OBVIOUS
<1>3. i <= n => b[i] = l
  BY <1>1, <1>2
<1>4. CASE at + Len(bytes) <= n
  <2>1. b[i] = l /\ ~(n < i + 2) /\ ~(n < i + 2 + b[i])
    <3>1. i <= n /\ ~(n < i + 2) /\ ~(n < i + 2 + l)
      BY ONLY <1>1, <1>2, <1>4, at \in Nat DEF i
    <3> QED
      BY ONLY <1>3, <3>1
  <2>2. SubSeq(b, i + 3, i + 2 + b[i]) = data
    <3>1. SubSeq(b, i + 3, i + 2 + l) \in Seq(Nat) /\ Len(SubSeq(b, i + 3, i + 2 + l)) = l
          /\ \A x \in 1..l : SubSeq(b, i + 3, i + 2 + l)[x] = b[i + 2 + x]
      <4> DEFINE a == i + 2
                 g == i + 2 + l
      <4>1. a \in Nat /\ g \in a..Len(b) /\ g - a = l /\ a + 1 = i + 3
        BY ONLY <1>1, <1>2, <1>4, at \in Nat DEF n, i
      <4> HIDE DEF a, g
      <4>2. SubSeq(b, a + 1, g) \in Seq(Nat) /\ Len(SubSeq(b, a + 1, g)) = g - a
            /\ \A x \in 1..g - a : SubSeq(b, a + 1, g)[x] = b[a + x]
        BY ONLY <4>1, b \in Seq(Nat), WindowOf
      <4>3. SubSeq(b, i + 3, g) \in Seq(Nat) /\ Len(SubSeq(b, i + 3, g)) = l
            /\ \A x \in 1..l : SubSeq(b, i + 3, g)[x] = b[a + x]
        BY ONLY <4>1, <4>2
      <4> QED
        BY ONLY <4>3 DEF a, g
    <3>2. \A x \in 1..l : b[i + 2 + x] = data[x]
      <4> TAKE x \in 1..l
      <4>1. x + 3 \in 1..Len(bytes) /\ at + (x + 3) <= n /\ at + (x + 3) = i + 2 + x
        BY <1>1, <1>2, <1>4
      <4> QED
        BY <1>2, <4>1
    <3>3. \A x \in 1..l : SubSeq(b, i + 3, i + 2 + l)[x] = data[x]
      BY <3>1, <3>2
    <3>4. SubSeq(b, i + 3, i + 2 + l) = data
      BY <3>1, <3>3, SeqEqual
    <3> QED
      BY <2>1, <3>4
  <2>3. i + 3 + b[i] = at + Len(bytes) + 1
    BY <1>1, <1>2, <2>1
  <2>4. IvfFound(b)[i] = Goes(<<[Plain(data) EXCEPT !.key = data # <<>> /\ data[1] % 2 = 0]>>, i + 3 + b[i])
    BY <1>1, <2>1, <2>2 DEF IvfFound
  <2> QED
    BY <1>4, <2>3, <2>4
<1>5. CASE ~(at + Len(bytes) <= n)
  <2>1. n < i + 2 \/ n < i + 2 + b[i]
    BY <1>1, <1>2, <1>3, <1>5
  <2>2. IvfFound(b)[i] = Stops(i)
    BY <1>1, <2>1 DEF IvfFound
  <2> QED
    BY <1>5, <2>2 DEF Stops
<1> QED
  BY <1>4, <1>5

\* An IVF stream, its frames, and what is returned of them.
LEMMA IvfStream ==
  ASSUME NEW s \in Streams, s.format = "ivf"
  PROVE  /\ IsStream(s)
         /\ \A k \in 1..Len(s.parts) :
              /\ s.parts[k] \in Seq(Nat) /\ s.parts[k] # <<>>
              /\ Bytes(s.format, s.parts[k]) = <<Len(s.parts[k]), 0, 0>> \o s.parts[k]
              /\ Returned(s)[k] = <<[Plain(s.parts[k]) EXCEPT !.key = s.parts[k][1] % 2 = 0]>>
         /\ Returned(s) \in Seq(Seq(Frame)) /\ Len(Returned(s)) = Len(s.parts)
<1>1. s.parts \in Seq(Seq(Nat) \ {<<>>})
  BY StreamsAssumption DEF H26x
<1> DEFINE n == Len(s.parts)
<1>2. n \in Nat /\ DOMAIN s.parts = 1..n
  BY <1>1
<1>3. \A k \in 1..n : s.parts[k] \in Seq(Nat) /\ s.parts[k] # <<>>
  BY <1>1
<1> HIDE DEF n
<1>4. \A k \in 1..n : Bytes(s.format, s.parts[k]) = <<Len(s.parts[k]), 0, 0>> \o s.parts[k]
  BY DEF Bytes, H26x
<1>5. ASSUME NEW p \in Seq(Nat)
      PROVE  <<Len(p), 0, 0>> \o p \in Seq(Nat) /\ Len(<<Len(p), 0, 0>> \o p) > 0
  <2>1. <<Len(p), 0, 0>> \in Seq(Nat)
    OBVIOUS
  <2> QED
    BY <2>1
<1>6. IsStream(s)
  <2>1. \A k \in 1..n : Bytes(s.format, s.parts[k]) \in Seq(Nat) /\ Len(Bytes(s.format, s.parts[k])) > 0
    BY <1>3, <1>4, <1>5
  <2>2. Encoded(s) \in Seq(Seq(Nat))
    BY <1>2, <2>1 DEF Encoded
  <2> QED
    BY <1>2, <2>1, <2>2 DEF IsStream, n
<1>7. \A k \in 1..n : Returned(s)[k] = <<[Plain(s.parts[k]) EXCEPT !.key = s.parts[k][1] % 2 = 0]>>
  BY <1>2 DEF Returned
<1>8. \A k \in 1..n : Returned(s)[k] \in Seq(Frame)
  <2> TAKE k \in 1..n
  <2> DEFINE f == [Plain(s.parts[k]) EXCEPT !.key = s.parts[k][1] % 2 = 0]
  <2>1. f \in Frame
    BY <1>3 DEF Plain, Frame
  <2>2. Returned(s)[k] = <<f>>
    BY <1>7
  <2> HIDE DEF f
  <2> QED
    BY <2>1, <2>2
<1>9. Returned(s) \in Seq(Seq(Frame)) /\ Len(Returned(s)) = n
  <2>1. DOMAIN Returned(s) = 1..n
    BY <1>2 DEF Returned
  <2>2. Returned(s) = [k \in 1..n |-> Returned(s)[k]]
    BY <1>2 DEF Returned
  <2> QED
    BY <1>2, <1>8, <2>1, <2>2
<1> QED
  BY <1>3, <1>4, <1>6, <1>7, <1>9 DEF n

\* From what is unused, the loop of IvfParser::push takes the frames that are read.
LEMMA IvfTakes ==
  ASSUME NEW s \in Streams, s.format = "ivf",
         NEW k \in 0..Len(s.parts), NEW g \in Ends(s, k)..Len(AllBytes(s)),
         NEW j \in k..Len(s.parts), AreRead(s, j, g)
  PROVE  IvfFrames(Unused(s, k, g)) =
           [rest |-> Unused(s, j, g), out |-> Rest(Returned(s), k, j), hung |-> FALSE]
<1> DEFINE b == Unused(s, k, g)
           found == IvfFound(b)
           at(m) == Ends(s, m) - Ends(s, k)
<1>1. /\ IsStream(s) /\ Returned(s) \in Seq(Seq(Frame)) /\ Len(Returned(s)) = Len(s.parts)
      /\ Len(s.parts) \in Nat
  BY IvfStream DEF IsStream
<1>2. b \in Seq(Nat) /\ Len(b) \in Nat
  BY <1>1, UnusedIs
<1>3. Forward(b, found) /\ IvfFrames(b) = Taken(b, found)
  BY <1>2, IvfForward
<1>4. found[Len(b) + 1].more = FALSE
  <2> DEFINE n == Len(b)
             i == n + 1
  <2>1. i \in 1..n + 1 /\ n < i + 2
    BY <1>2
  <2> HIDE DEF b, i
  <2>2. IvfFound(b)[i] = Stops(i)
    BY <2>1 DEF IvfFound
  <2> QED
    BY <2>2 DEF Stops, i
<1>5. ASSUME NEW m \in k..Len(s.parts) - 1, Ends(s, m) <= g
      PROVE  IF Ends(s, m + 1) <= g
             THEN found[at(m) + 1] = Goes(Returned(s)[m + 1], at(m + 1) + 1)
             ELSE found[at(m) + 1].more = FALSE
  <2> DEFINE d == s.parts[m + 1]
             bytes == Bytes(s.format, s.parts[m + 1])
             a == at(m)
  <2>1. m + 1 \in 1..Len(s.parts) /\ m \in k..Len(s.parts)
    BY <1>1
  <2>2. d \in Seq(Nat) /\ d # <<>> /\ bytes = <<Len(d), 0, 0>> \o d
        /\ Returned(s)[m + 1] = <<[Plain(d) EXCEPT !.key = d[1] % 2 = 0]>>
    BY <2>1, IvfStream
  <2>3. /\ a \in Nat /\ at(m + 1) = a + Len(bytes)
        /\ Ends(s, m + 1) <= g <=> a + Len(bytes) <= Len(b)
        /\ \A x \in 1..Len(bytes) : a + x <= Len(b) => b[a + x] = bytes[x]
    <3>1. a = Ends(s, m) - Ends(s, k) /\ bytes = Bytes(s.format, s.parts[m + 1])
      OBVIOUS
    <3>2. /\ k \in 0..Len(s.parts) /\ g \in Ends(s, k)..Len(AllBytes(s)) /\ m \in k..Len(s.parts) - 1
          /\ IsStream(s)
      BY <1>1
    <3> HIDE DEF a, bytes
    <3>3. IsPart(s, k, g, m, a, bytes)
      BY ONLY <3>1, <3>2, PartAt
    <3> QED
      BY ONLY <3>3 DEF IsPart
  <2>4. a <= Len(b)
    <3>1. a + 1 \in 1..Len(b) + 1
      BY <1>1, <1>5, <2>1, UnusedIs
    <3> HIDE DEF a, b
    <3> QED
      BY <1>2, <2>3, <3>1
  <2> HIDE DEF d, bytes, b, a
  <2>5. IF a + Len(bytes) <= Len(b)
        THEN IvfFound(b)[a + 1] = Goes(<<[Plain(d) EXCEPT !.key = d[1] % 2 = 0]>>, a + Len(bytes) + 1)
        ELSE IvfFound(b)[a + 1].more = FALSE
    BY <1>2, <2>2, <2>3, <2>4, IvfPart
  <2> QED
    BY <2>2, <2>3, <2>5 DEF a
<1>6. Finds(s, k, g, Returned(s), found)
  BY <1>3, <1>4, <1>5 DEF Finds
<1> HIDE DEF b, found
<1>7. /\ found[at(j) + 1].more = FALSE /\ at(j) + 1 \in 1..Len(b) + 1
      /\ Taken(b, found) = [rest |-> From(b, found[at(j) + 1].next), out |-> Rest(Returned(s), k, j), hung |-> FALSE]
  BY <1>1, <1>6, PartsFound DEF b
<1>8. found[at(j) + 1].next = at(j) + 1
  BY <1>2, <1>7, IvfForward DEF found
<1>9. From(b, at(j) + 1) = Unused(s, j, g)
  BY <1>1, UnusedIs DEF AreRead, b
<1> QED
  BY <1>3, <1>7, <1>8, <1>9 DEF b

-----------------------------------------------------------------------------
(* ADTS.                                                                   *)

\* A set of numbers that is not empty has Min for its least.
LEMMA MinIs ==
  ASSUME NEW S \in SUBSET Nat, S # {}
  PROVE  Min(S) \in S /\ \A x \in S : Min(S) <= x
<1>1. \E x \in S : \A y \in S : x <= y
  BY LeastOf
<1> QED
  BY <1>1 DEF Min

\* Its least is Min.
LEMMA LeastIs ==
  ASSUME NEW S \in SUBSET Nat, NEW a \in S, \A x \in S : a <= x
  PROVE  Min(S) = a
<1>1. Min(S) \in S /\ Min(S) <= a
  BY MinIs
<1>2. a <= Min(S) /\ a \in Nat /\ Min(S) \in Nat
  BY <1>1
<1> QED
  BY <1>1, <1>2

\* A part begins behind the one before it.
LEMMA BeginsIs ==
  ASSUME NEW F, NEW T, NEW s \in [format : F, parts : Seq(T)], IsStream(s), NEW i \in 1..Len(s.parts) + 1
  PROVE  Begins(s, i) = Ends(s, i - 1) + 1
<1> DEFINE k == i - 1
           r == [s EXCEPT !.parts = SubSeq(@, 1, i - 1)]
           p == SubSeq(s.parts, 1, k)
<1>1. r.format = s.format /\ r.parts = p
  <2>1. s = [format |-> s.format, parts |-> s.parts]
    OBVIOUS
  <2> QED
    BY <2>1
<1>2. k \in 0..Len(s.parts) /\ Len(s.parts) \in Nat
  OBVIOUS
<1>3. Len(p) = k /\ DOMAIN p = 1..k /\ \A x \in 1..k : p[x] = s.parts[x]
  BY <1>2
<1>4. [x \in DOMAIN r.parts |-> Bytes(r.format, r.parts[x])] = SubSeq(Encoded(s), 1, k)
  <2>1. Len(Encoded(s)) = Len(s.parts) /\ \A x \in 1..k : Encoded(s)[x] = Bytes(s.format, s.parts[x])
    BY <1>2 DEF Encoded, IsStream
  <2>2. SubSeq(Encoded(s), 1, k) = [x \in 1..k |-> Encoded(s)[x]]
    BY <1>2, <2>1 DEF IsStream
  <2> HIDE DEF p, r, k
  <2> QED
    BY <1>1, <1>3, <2>1, <2>2
<1>5. AllBytes(r) = HeadOf(s) \o Flat(Encoded(s), k)
  <2> HIDE DEF r
  <2> QED
    BY <1>1, <1>4 DEF AllBytes, HeadOf, Flat
<1>6. Flat(Encoded(s), k) \in Seq(Nat)
  <2>1. Len(Encoded(s)) = Len(s.parts)
    BY StreamHolds DEF IsStream
  <2> HIDE DEF k
  <2> QED
    BY <1>2, <2>1, FlatSteps DEF IsStream
<1>7. HeadOf(s) \in Seq(Nat)
  BY DEF HeadOf, IvfFile
<1>8. Len(AllBytes(r)) = Ends(s, k)
  <2> HIDE DEF k, r
  <2> QED
    BY <1>5, <1>6, <1>7 DEF Ends
<1> QED
  BY <1>8 DEF Begins

\* What AdtsFrames finds.
AdtsFound(b) ==
  [i \in 1..Len(b) + 1 |->
    LET syncs == {j \in Syncs(b) : j >= i}
        at    == Min(syncs)
    IN  IF syncs = {} THEN Stops(Len(b) + 1)
        ELSE IF Len(b) < at + 6 \/ Len(b) < at + b[at + 4] - 1 THEN Stops(at)
        ELSE Goes(<<Plain(SubSeq(b, at, at + b[at + 4] - 1))>>, at + b[at + 4])]

\* AdtsFrames goes forward.
LEMMA AdtsForward ==
  ASSUME NEW b \in Seq(Nat)
  PROVE  /\ Forward(b, AdtsFound(b))
         /\ AdtsFrames(b) = Taken(b, AdtsFound(b))
<1>1. Len(b) \in Nat
  OBVIOUS
<1>2. ASSUME NEW i \in 1..Len(b) + 1, AdtsFound(b)[i].more
      PROVE  AdtsFound(b)[i].next \in i..Len(b) + 1
  <2> DEFINE syncs == {j \in Syncs(b) : j >= i}
             at == Min(syncs)
  <2>1. AdtsFound(b)[i] =
          IF syncs = {} THEN Stops(Len(b) + 1)
          ELSE IF Len(b) < at + 6 \/ Len(b) < at + b[at + 4] - 1 THEN Stops(at)
          ELSE Goes(<<Plain(SubSeq(b, at, at + b[at + 4] - 1))>>, at + b[at + 4])
    BY DEF AdtsFound
  <2>2. syncs \in SUBSET Nat /\ \A x \in syncs : i <= x
    BY <1>1 DEF Syncs
  <2>3. syncs # {} => at \in Nat /\ i <= at
    BY <2>2, MinIs
  <2> HIDE DEF at, syncs
  <2>4. syncs # {} /\ ~(Len(b) < at + 6 \/ Len(b) < at + b[at + 4] - 1)
    BY <1>2, <2>1 DEF Stops
  <2>5. AdtsFound(b)[i].next = at + b[at + 4]
    BY <2>1, <2>4 DEF Goes
  <2>6. b[at + 4] \in Nat
    BY <1>1, <2>3, <2>4
  <2> DEFINE c == b[at + 4]
             n == Len(b)
  <2>7. at \in Nat /\ c \in Nat /\ n \in Nat /\ i \in Nat /\ i <= at /\ ~(n < at + 6) /\ ~(n < at + c - 1)
    BY <1>1, <2>3, <2>4, <2>6
  <2> HIDE DEF c, n
  <2>8. at + c \in i..n + 1
    BY ONLY <2>7
  <2> QED
    BY <2>5, <2>8 DEF c, n
<1>3. AdtsFrames(b) = Taken(b, AdtsFound(b))
  BY DEF AdtsFrames, AdtsFound
<1> QED
  BY <1>1, <1>2, <1>3 DEF Forward

\* AdtsFrames finds a frame where it lies as soon as it is there, and keeps what may begin
\* one; one byte alone it would throw away.
LEMMA AdtsPart ==
  ASSUME NEW b \in Seq(Nat), NEW at \in Nat, at <= Len(b), at + 1 # Len(b), NEW data \in Seq(Nat),
         NEW bytes, bytes = Adts(data),
         \A x \in 1..Len(bytes) : at + x <= Len(b) => b[at + x] = bytes[x]
  PROVE  IF at + Len(bytes) <= Len(b)
         THEN AdtsFound(b)[at + 1] = Goes(<<Plain(bytes)>>, at + Len(bytes) + 1)
         ELSE AdtsFound(b)[at + 1] = Stops(at + 1)
<1> DEFINE l == Len(data)
           n == Len(b)
           i == at + 1
           syncs == {j \in Syncs(b) : j >= i}
<1>1. l \in Nat /\ n \in Nat /\ i \in 1..n + 1
  OBVIOUS
<1>2. /\ bytes \in Seq(Nat) /\ Len(bytes) = l + 7
      /\ bytes[1] = 255 /\ bytes[2] = 241 /\ bytes[5] = l + 7
  BY DEF Adts
<1>3. AdtsFound(b)[i] =
        IF syncs = {} THEN Stops(n + 1)
        ELSE IF n < Min(syncs) + 6 \/ n < Min(syncs) + b[Min(syncs) + 4] - 1 THEN Stops(Min(syncs))
        ELSE Goes(<<Plain(SubSeq(b, Min(syncs), Min(syncs) + b[Min(syncs) + 4] - 1))>>, Min(syncs) + b[Min(syncs) + 4])
  BY <1>1 DEF AdtsFound
<1>4. CASE at = n
  <2>1. syncs = {}
    BY <1>1, <1>4 DEF Syncs
  <2>2. ~(at + Len(bytes) <= n)
    BY <1>1, <1>2, <1>4
  <2> QED
    BY <1>3, <1>4, <2>1, <2>2
<1>5. CASE at # n
  <2>1. i \in 1..n - 1 /\ b[i] = 255 /\ b[i + 1] = 241
    <3>1. at + 2 <= n /\ 1 \in 1..Len(bytes) /\ 2 \in 1..Len(bytes) /\ at + 1 <= n /\ i + 1 = at + 2
      BY <1>1, <1>2, <1>5
    <3> HIDE DEF l
    <3>2. b[at + 1] = bytes[1] /\ b[at + 2] = bytes[2]
      BY <3>1
    <3>3. i \in 1..n - 1
      BY <1>1, <3>1
    <3> QED
      BY <1>2, <3>1, <3>2, <3>3
  <2>2. Min(syncs) = i
    <3>1. syncs \in SUBSET Nat /\ i \in syncs /\ \A x \in syncs : i <= x
      BY <1>1, <2>1 DEF Syncs
    <3> HIDE DEF syncs, i
    <3> QED
      BY <3>1, LeastIs
  <2>2a. i \in syncs
    BY <2>1 DEF Syncs
  <2>3. AdtsFound(b)[i] =
          IF n < i + 6 \/ n < i + b[i + 4] - 1 THEN Stops(i)
          ELSE Goes(<<Plain(SubSeq(b, i, i + b[i + 4] - 1))>>, i + b[i + 4])
    <3> HIDE DEF i, syncs
    <3> QED
      BY <1>3, <2>2, <2>2a
  <2>4. i + 4 <= n => b[i + 4] = l + 7
    <3>1. 5 \in 1..Len(bytes) /\ at + 5 = i + 4
      BY <1>1, <1>2
    <3> HIDE DEF i
    <3>2. i + 4 <= n => b[i + 4] = bytes[5]
      BY ONLY <3>1, \A x \in 1..Len(bytes) : at + x <= Len(b) => b[at + x] = bytes[x] DEF n
    <3> QED
      BY ONLY <1>2, <3>2
  <2>5. CASE at + Len(bytes) <= n
    <3>1. b[i + 4] = l + 7 /\ i + (l + 7) - 1 = at + l + 7 /\ ~(n < i + 6) /\ ~(n < i + (l + 7) - 1)
      <4> DEFINE v == Len(bytes)
                 c == b[i + 4]
      <4>1. l \in Nat /\ n \in Nat /\ v = l + 7 /\ at + v <= n /\ at \in Nat /\ i = at + 1 /\ (i + 4 <= n => c = l + 7)
        BY <1>1, <1>2, <2>4, <2>5
      <4> HIDE DEF v, c, l, n, i
      <4>2. c = l + 7 /\ i + (l + 7) - 1 = at + l + 7 /\ ~(n < i + 6) /\ ~(n < i + (l + 7) - 1)
        BY ONLY <4>1
      <4> QED
        BY <4>2 DEF c
    <3>2. SubSeq(b, i, i + (l + 7) - 1) = bytes
      <4>1. SubSeq(b, i, i + (l + 7) - 1) \in Seq(Nat) /\ Len(SubSeq(b, i, i + (l + 7) - 1)) = l + 7
            /\ \A x \in 1..l + 7 : SubSeq(b, i, i + (l + 7) - 1)[x] = b[at + x]
        <5> DEFINE v == l + 7
        <5>1. v \in Nat /\ at + v <= n /\ b \in Seq(Nat) /\ n = Len(b) /\ i = at + 1 /\ at \in Nat /\ i + v - 1 = at + v
          BY <1>1, <1>2, <2>5
        <5> HIDE DEF v, i, n
        <5>2. SubSeq(b, at + 1, at + v) \in Seq(Nat) /\ Len(SubSeq(b, at + 1, at + v)) = v
              /\ \A x \in 1..v : SubSeq(b, at + 1, at + v)[x] = b[at + x]
          BY ONLY <5>1
        <5> QED
          BY <5>1, <5>2 DEF v
      <4>2. \A x \in 1..l + 7 : b[at + x] = bytes[x]
        BY <1>1, <1>2, <2>5
      <4>3. \A x \in 1..l + 7 : SubSeq(b, i, i + (l + 7) - 1)[x] = bytes[x]
        BY <4>1, <4>2
      <4> DEFINE w == SubSeq(b, i, i + (l + 7) - 1)
                 v == l + 7
      <4>4. w \in Seq(Nat) /\ bytes \in Seq(Nat) /\ Len(w) = v /\ Len(bytes) = v /\ \A x \in 1..v : w[x] = bytes[x]
        BY <1>2, <4>1, <4>3
      <4> HIDE DEF w, v
      <4>6. Len(w) = Len(bytes) /\ \A x \in 1..Len(w) : w[x] = bytes[x]
        BY <4>4
      <4>5. w = bytes
        BY ONLY <4>4, <4>6, SeqEqual
      <4> QED
        BY <4>5 DEF w
    <3>3. i + (l + 7) = at + Len(bytes) + 1
      BY <1>1, <1>2
    <3> QED
      BY <2>3, <2>5, <3>1, <3>2, <3>3
  <2>6. CASE ~(at + Len(bytes) <= n)
    <3>1. n < i + 6 \/ n < i + b[i + 4] - 1
      <4> DEFINE v == Len(bytes)
                 c == b[i + 4]
      <4>1. l \in Nat /\ n \in Nat /\ v = l + 7 /\ ~(at + v <= n) /\ at \in Nat /\ i = at + 1 /\ (i + 4 <= n => c = l + 7)
        BY <1>1, <1>2, <2>4, <2>6
      <4> HIDE DEF v, c, l, n, i
      <4>2. n < i + 6 \/ n < i + c - 1
        BY ONLY <4>1
      <4> QED
        BY <4>2 DEF c
    <3> QED
      BY <2>3, <2>6, <3>1
  <2> QED
    BY <2>5, <2>6
<1> QED
  BY <1>4, <1>5

\* With a header, nothing is empty.
LEMMA Longer ==
  ASSUME NEW T, NEW h \in Seq(T), h # <<>>, NEW p \in Seq(T)
  PROVE  h \o p \in Seq(T) /\ Len(h \o p) > 0
<1>1. Len(h) \in Nat \ {0} /\ Len(p) \in Nat
  BY EmptySeq
<1>2. h \o p \in Seq(T) /\ Len(h \o p) = Len(h) + Len(p)
  BY ConcatProperties
<1> QED
  BY <1>1, <1>2

\* An ADTS stream, its frames, and what is returned of them.
LEMMA AdtsStream ==
  ASSUME NEW s \in Streams, s.format = "adts"
  PROVE  /\ IsStream(s) /\ s \in [format : {"adts"}, parts : Seq(Seq(Nat))]
         /\ \A k \in 1..Len(s.parts) :
              /\ s.parts[k] \in Seq(Nat)
              /\ Bytes(s.format, s.parts[k]) = Adts(s.parts[k])
              /\ Returned(s)[k] = <<Plain(Adts(s.parts[k]))>>
         /\ Returned(s) \in Seq(Seq(Frame)) /\ Len(Returned(s)) = Len(s.parts)
<1>1. s \in [format : {"adts"}, parts : Seq(Seq(Nat))]
  BY StreamsAssumption DEF H26x
<1> DEFINE n == Len(s.parts)
<1>2. n \in Nat /\ DOMAIN s.parts = 1..n
  BY <1>1
<1>3. \A k \in 1..n : s.parts[k] \in Seq(Nat)
  BY <1>1
<1> HIDE DEF n
<1>4. \A k \in 1..n : Bytes(s.format, s.parts[k]) = Adts(s.parts[k])
  BY DEF Bytes, H26x
<1>5. ASSUME NEW p \in Seq(Nat)
      PROVE  Adts(p) \in Seq(Nat) /\ Len(Adts(p)) > 0
  <2> DEFINE h == <<255, 241, 80, 0, Len(p) + 7, 31, 252>>
  <2>1. h \in Seq(Nat) /\ h # <<>>
    OBVIOUS
  <2> HIDE DEF h
  <2> QED
    BY <2>1, Longer DEF Adts, h
<1>6. IsStream(s)
  <2>1. \A k \in 1..n : Bytes(s.format, s.parts[k]) \in Seq(Nat) /\ Len(Bytes(s.format, s.parts[k])) > 0
    BY <1>3, <1>4, <1>5
  <2>2. Encoded(s) \in Seq(Seq(Nat))
    BY <1>2, <2>1 DEF Encoded
  <2> QED
    BY <1>2, <2>1, <2>2 DEF IsStream, n
<1>7. \A k \in 1..n : Returned(s)[k] = <<Plain(Adts(s.parts[k]))>>
  BY <1>2 DEF Returned
<1>8. \A k \in 1..n : Returned(s)[k] \in Seq(Frame)
  <2> TAKE k \in 1..n
  <2> DEFINE f == Plain(Adts(s.parts[k]))
  <2>1. f \in Frame
    BY <1>3, <1>5 DEF Plain, Frame
  <2>2. Returned(s)[k] = <<f>>
    BY <1>7
  <2> HIDE DEF f
  <2> QED
    BY <2>1, <2>2
<1>9. Returned(s) \in Seq(Seq(Frame)) /\ Len(Returned(s)) = n
  <2>1. DOMAIN Returned(s) = 1..n
    BY <1>2 DEF Returned
  <2>2. Returned(s) = [k \in 1..n |-> Returned(s)[k]]
    BY <1>2 DEF Returned
  <2> QED
    BY <1>2, <1>8, <2>1, <2>2
<1> QED
  BY <1>1, <1>3, <1>4, <1>6, <1>7, <1>9 DEF n

\* Not a sync word has been torn.
Together(s, g) == \A m \in 0..Len(s.parts) : g # Ends(s, m) + 1

\* From what is unused, the loop of AdtsParser::push takes the frames that are read, where
\* no sync word has been torn.
LEMMA AdtsTakes ==
  ASSUME NEW s \in Streams, s.format = "adts",
         NEW k \in 0..Len(s.parts), NEW g \in Ends(s, k)..Len(AllBytes(s)),
         NEW j \in k..Len(s.parts), AreRead(s, j, g), Together(s, g)
  PROVE  AdtsFrames(Unused(s, k, g)) =
           [rest |-> Unused(s, j, g), out |-> Rest(Returned(s), k, j), hung |-> FALSE]
<1> DEFINE b == Unused(s, k, g)
           found == AdtsFound(b)
           at(m) == Ends(s, m) - Ends(s, k)
<1>1. /\ IsStream(s) /\ Returned(s) \in Seq(Seq(Frame)) /\ Len(Returned(s)) = Len(s.parts)
      /\ Len(s.parts) \in Nat
  BY AdtsStream DEF IsStream
<1>2. b \in Seq(Nat) /\ Len(b) \in Nat /\ Len(b) = g - Ends(s, k) /\ g \in Nat
  <2>1. Ends(s, k) \in Nat
    BY <1>1, StreamHolds DEF IsStream
  <2> QED
    BY <1>1, <2>1, UnusedIs
<1>3. Forward(b, found) /\ AdtsFrames(b) = Taken(b, found)
  BY <1>2, AdtsForward
<1>4. found[Len(b) + 1] = Stops(Len(b) + 1)
  <2> DEFINE n == Len(b)
             i == n + 1
  <2>1. i \in 1..n + 1 /\ {x \in Syncs(b) : x >= i} = {}
    BY <1>2 DEF Syncs
  <2> HIDE DEF b, i
  <2>2. AdtsFound(b)[i] = Stops(n + 1)
    BY <2>1 DEF AdtsFound
  <2> QED
    BY <2>2 DEF i
<1>5. ASSUME NEW m \in k..Len(s.parts) - 1, Ends(s, m) <= g
      PROVE  /\ at(m) + 1 \in 1..Len(b) + 1
             /\ IF Ends(s, m + 1) <= g
                THEN found[at(m) + 1] = Goes(Returned(s)[m + 1], at(m + 1) + 1)
                ELSE found[at(m) + 1] = Stops(at(m) + 1)
  <2> DEFINE d == s.parts[m + 1]
             bytes == Bytes(s.format, s.parts[m + 1])
             a == at(m)
  <2>1. m + 1 \in 1..Len(s.parts) /\ m \in k..Len(s.parts) /\ m \in 0..Len(s.parts)
    BY <1>1
  <2>2. d \in Seq(Nat) /\ bytes = Adts(d) /\ Returned(s)[m + 1] = <<Plain(bytes)>>
    BY <2>1, AdtsStream
  <2>3. /\ a \in Nat /\ at(m + 1) = a + Len(bytes)
        /\ Ends(s, m + 1) <= g <=> a + Len(bytes) <= Len(b)
        /\ \A x \in 1..Len(bytes) : a + x <= Len(b) => b[a + x] = bytes[x]
    <3>1. a = Ends(s, m) - Ends(s, k) /\ bytes = Bytes(s.format, s.parts[m + 1])
      OBVIOUS
    <3>2. /\ k \in 0..Len(s.parts) /\ g \in Ends(s, k)..Len(AllBytes(s)) /\ m \in k..Len(s.parts) - 1
          /\ IsStream(s)
      BY <1>1
    <3> HIDE DEF a, bytes
    <3>3. IsPart(s, k, g, m, a, bytes)
      BY ONLY <3>1, <3>2, PartAt
    <3> QED
      BY ONLY <3>3 DEF IsPart
  <2>4. a <= Len(b) /\ a + 1 \in 1..Len(b) + 1
    <3>1. a + 1 \in 1..Len(b) + 1
      BY <1>1, <1>5, <2>1, UnusedIs
    <3> HIDE DEF a, b
    <3> QED
      BY <1>2, <2>3, <3>1
  <2>6. a + 1 # Len(b)
    <3>1. g # Ends(s, m) + 1
      BY <2>1 DEF Together
    <3>2. Ends(s, m) \in Nat /\ Ends(s, k) \in Nat
      BY <1>1, <2>1, StreamHolds DEF IsStream
    <3> HIDE DEF b
    <3> QED
      BY <1>2, <3>1, <3>2
  <2> HIDE DEF d, bytes, b, a
  <2>5. IF a + Len(bytes) <= Len(b)
        THEN AdtsFound(b)[a + 1] = Goes(<<Plain(bytes)>>, a + Len(bytes) + 1)
        ELSE AdtsFound(b)[a + 1] = Stops(a + 1)
    BY <1>2, <2>2, <2>3, <2>4, <2>6, AdtsPart
  <2> QED
    BY <2>2, <2>3, <2>4, <2>5 DEF a
<1>6. Finds(s, k, g, Returned(s), found)
  <2>1. found[Len(b) + 1].more = FALSE
    BY <1>4 DEF Stops
  <2>2. ASSUME NEW m \in k..Len(s.parts) - 1, Ends(s, m) <= g, ~(Ends(s, m + 1) <= g)
        PROVE  found[at(m) + 1].more = FALSE
    <3>1. found[at(m) + 1] = Stops(at(m) + 1)
      BY <1>5, <2>2
    <3> QED
      BY <3>1 DEF Stops
  <2> QED
    BY <1>3, <1>5, <2>1, <2>2 DEF Finds
<1>8. found[at(j) + 1] = Stops(at(j) + 1)
  <2>1. CASE j < Len(s.parts)
    <3>1. j \in k..Len(s.parts) - 1 /\ Ends(s, j) <= g /\ ~(Ends(s, j + 1) <= g)
      <4>1. j + 1 \in 0..Len(s.parts) /\ j \in k..Len(s.parts) - 1
        BY <1>1, <2>1
      <4>2. Ends(s, j + 1) \in Nat /\ Ends(s, j) <= g /\ g < Ends(s, j + 1)
        BY <1>1, <2>1, <4>1, StreamHolds DEF IsStream, AreRead
      <4> QED
        BY <1>2, <4>1, <4>2
    <3> HIDE DEF found, at
    <3> QED
      BY <1>5, <3>1
  <2>2. CASE j = Len(s.parts)
    <3>1. Ends(s, j) = Len(AllBytes(s)) /\ Ends(s, j) \in Nat /\ Ends(s, k) \in Nat
      BY <1>1, <2>2, StreamHolds DEF IsStream
    <3>2. Ends(s, j) <= g /\ g <= Len(AllBytes(s))
      BY <3>1 DEF AreRead
    <3>3. at(j) = Len(b)
      BY <1>2, <3>1, <3>2
    <3> HIDE DEF found, at, b
    <3> QED
      BY <1>4, <3>3
  <2> QED
    BY <1>1, <2>1, <2>2
<1> HIDE DEF b, found
<1>7. Taken(b, found) = [rest |-> From(b, found[at(j) + 1].next), out |-> Rest(Returned(s), k, j), hung |-> FALSE]
  BY <1>1, <1>6, PartsFound DEF b
<1>9. From(b, at(j) + 1) = Unused(s, j, g)
  BY <1>1, UnusedIs DEF AreRead, b
<1>10. found[at(j) + 1].next = at(j) + 1
  BY <1>8 DEF Stops
<1> QED
  BY <1>3, <1>7, <1>9, <1>10 DEF b

-----------------------------------------------------------------------------
(* Ogg.                                                                    *)

\* One sequence behind another, place by place.
LEMMA JoinIs ==
  ASSUME NEW T, NEW a \in Seq(T), NEW b \in Seq(T)
  PROVE  /\ a \o b = [i \in 1..Len(a) + Len(b) |-> IF i <= Len(a) THEN a[i] ELSE b[i - Len(a)]]
         /\ Len(a) \in Nat /\ Len(b) \in Nat /\ a \o b \in Seq(T)
         /\ Len(a \o b) = Len(a) + Len(b)
         /\ \A i \in 1..Len(a) : (a \o b)[i] = a[i]
         /\ \A i \in 1..Len(b) : (a \o b)[Len(a) + i] = b[i]
<1> DEFINE n == Len(a)
           m == Len(b)
           c == a \o b
<1>1. /\ c \in Seq(T) /\ Len(c) = n + m /\ n \in Nat /\ m \in Nat
      /\ \A i \in 1..n + m : c[i] = IF i <= n THEN a[i] ELSE b[i - n]
  BY ConcatProperties
<1>2. DOMAIN c = 1..n + m /\ c = [i \in DOMAIN c |-> c[i]]
  <2> HIDE DEF c, n, m
  <2> QED
    BY <1>1
<1> HIDE DEF c, n, m
<1>3. c = [i \in 1..n + m |-> IF i <= n THEN a[i] ELSE b[i - n]]
  BY <1>1, <1>2
<1>4. \A i \in 1..n : i \in 1..n + m /\ i <= n
  BY <1>1
<1>5. \A i \in 1..m : n + i \in 1..n + m /\ ~(n + i <= n) /\ (n + i) - n = i
  BY <1>1
<1> QED
  BY <1>1, <1>3, <1>4, <1>5 DEF c, n, m

\* Those up to n, and those after it that are n more than others.
LEMMA InOrderJoins ==
  ASSUME NEW n \in Nat, NEW S \in SUBSET (1..n), NEW R \in SUBSET (Nat \ {0}), IsFiniteSet(R)
  PROVE  /\ InOrder(S) \in Seq(S) /\ InOrder(R) \in Seq(R)
         /\ InOrder(S \cup {n + x : x \in R}) = InOrder(S) \o [k \in 1..Cardinality(R) |-> n + InOrder(R)[k]]
<1> DEFINE a == InOrder(S)
           b == InOrder(R)
           c == Cardinality(S)
           d == Cardinality(R)
           U == S \cup {n + x : x \in R}
           q == [i \in 1..c + d |-> IF i <= c THEN a[i] ELSE n + b[i - c]]
<1>1. IsFiniteSet(S)
  <2>1. IsFiniteSet(1..n)
    BY FS_Interval
  <2> QED
    BY <2>1, FS_Subset
<1>2. /\ c \in Nat /\ a \in [1..c -> S]
      /\ \A i, j \in 1..c : i < j => a[i] < a[j]
      /\ \A x \in S : \E i \in 1..c : a[i] = x
  BY <1>1, InOrderEnumerates
<1>3. /\ d \in Nat /\ b \in [1..d -> R]
      /\ \A i, j \in 1..d : i < j => b[i] < b[j]
      /\ \A x \in R : \E i \in 1..d : b[i] = x
  BY InOrderEnumerates
<1>4. a \in Seq(S) /\ b \in Seq(R) /\ Len(a) = c /\ Len(b) = d
  BY <1>2, <1>3
<1> HIDE DEF a, b, c, d
<1>5. \A i \in 1..c : a[i] \in Nat /\ a[i] <= n
  <2>1. \A i \in 1..c : a[i] \in S
    BY <1>2
  <2>2. \A x \in S : x \in Nat /\ x <= n
    OBVIOUS
  <2> QED
    BY ONLY <2>1, <2>2
<1>6. \A i \in 1..d : b[i] \in Nat /\ b[i] > 0 /\ b[i] \in R
  <2>1. \A i \in 1..d : b[i] \in R
    BY <1>3
  <2>2. \A x \in R : x \in Nat /\ x > 0
    OBVIOUS
  <2> QED
    BY ONLY <2>1, <2>2
<1>7. q \in [1..c + d -> Int] /\ c + d \in Nat
  BY <1>2, <1>3, <1>5, <1>6
<1>8. \A i \in 1..c + d : q[i] = IF i <= c THEN a[i] ELSE n + b[i - c]
  OBVIOUS
<1>9. ASSUME NEW i \in 1..c + d, NEW j \in 1..c + d, i < j PROVE q[i] < q[j]
  <2>1. CASE j <= c
    BY <1>2, <1>3, <1>8, <1>9, <2>1
  <2>2. CASE i <= c /\ c < j
    <3>1. j - c \in 1..d /\ i \in 1..c
      BY <1>2, <1>3, <2>2
    <3>2. q[i] = a[i] /\ q[j] = n + b[j - c]
      BY <1>2, <1>3, <1>8, <2>2
    <3>3. a[i] \in Nat /\ a[i] <= n /\ b[j - c] \in Nat /\ b[j - c] > 0
      BY <1>5, <1>6, <3>1
    <3> QED
      BY <3>2, <3>3
  <2>3. CASE c < i
    <3>1. i - c \in 1..d /\ j - c \in 1..d /\ i - c < j - c
      BY <1>2, <1>3, <1>9, <2>3
    <3>2. q[i] = n + b[i - c] /\ q[j] = n + b[j - c]
      BY <1>2, <1>3, <1>8, <1>9, <2>3
    <3>3. b[i - c] < b[j - c] /\ b[i - c] \in Nat /\ b[j - c] \in Nat
      BY <1>3, <1>6, <3>1
    <3> QED
      BY <3>2, <3>3
  <2> QED
    BY <1>2, <2>1, <2>2, <2>3
<1>10. {q[i] : i \in 1..c + d} = U
  <2>1. ASSUME NEW i \in 1..c + d PROVE q[i] \in U
    <3>1. CASE i <= c
      BY <1>2, <1>8, <3>1
    <3>2. CASE i > c
      <4>1. i - c \in 1..d /\ q[i] = n + b[i - c]
        BY <1>2, <1>3, <1>8, <3>2
      <4> QED
        BY <1>6, <4>1
    <3> QED
      BY <1>2, <3>1, <3>2
  <2>2. ASSUME NEW x \in S PROVE \E i \in 1..c + d : q[i] = x
    <3>1. PICK i \in 1..c : a[i] = x
      BY <1>2
    <3> QED
      BY <1>2, <1>3, <1>8, <3>1
  <2>3. ASSUME NEW x \in R PROVE \E i \in 1..c + d : q[i] = n + x
    <3>1. PICK i \in 1..d : b[i] = x
      BY <1>3
    <3>2. c + i \in 1..c + d /\ ~(c + i <= c) /\ (c + i) - c = i
      BY <1>2, <1>3
    <3> QED
      BY <1>8, <3>1, <3>2
  <2> HIDE DEF q
  <2> QED
    BY <2>1, <2>2, <2>3
<1>11. InOrder(U) = q
  <2> HIDE DEF q
  <2>1. InOrder({q[i] : i \in 1..c + d}) = q
    BY <1>7, <1>9, InOrderIs
  <2> QED
    BY <1>10, <2>1
<1>12. q = a \o [k \in 1..d |-> n + b[k]]
  <2> DEFINE e == [k \in 1..d |-> n + b[k]]
  <2>1. Len(e) = d
    BY <1>3
  <2>2. a \o e = [i \in 1..c + d |-> IF i <= c THEN a[i] ELSE e[i - c]]
    <3>2. e \in Seq(Nat)
      BY <1>3, <1>6
    <3>3. a \in Seq(Nat)
      BY <1>2, <1>4, <1>5
    <3> HIDE DEF e
    <3>1. a \o e = [i \in 1..Len(a) + Len(e) |-> IF i <= Len(a) THEN a[i] ELSE e[i - Len(a)]]
      BY <3>2, <3>3, JoinIs
    <3> QED
      BY <1>4, <2>1, <3>1
  <2>3. \A i \in 1..c + d : i > c => e[i - c] = n + b[i - c]
    BY <1>2, <1>3
  <2>4. \A i \in 1..c + d : q[i] = IF i <= c THEN a[i] ELSE e[i - c]
    BY <1>2, <1>8, <2>3
  <2>5. q = [i \in 1..c + d |-> q[i]]
    OBVIOUS
  <2> HIDE DEF e, q
  <2>6. q = a \o e
    BY <2>2, <2>4, <2>5
  <2> QED
    BY <2>6 DEF e
<1> QED
  BY <1>4, <1>11, <1>12 DEF a, b, d

\* The packets that are not empty, of what comes in two.
LEMMA FilledJoins ==
  ASSUME NEW T, NEW p \in Seq(T), NEW q \in Seq(T)
  PROVE  Filled(p) \in Seq(T) /\ Filled(q) \in Seq(T) /\ Filled(p \o q) = Filled(p) \o Filled(q)
<1> DEFINE n == Len(p)
           m == Len(q)
           r == p \o q
           S == {k \in DOMAIN p : p[k] # <<>>}
           R == {k \in DOMAIN q : q[k] # <<>>}
           U == {k \in DOMAIN r : r[k] # <<>>}
           a == InOrder(S)
           b == InOrder(R)
           d == Cardinality(R)
<1>1. /\ n \in Nat /\ m \in Nat /\ r \in Seq(T) /\ Len(r) = n + m
      /\ DOMAIN p = 1..n /\ DOMAIN q = 1..m /\ DOMAIN r = 1..n + m
      /\ \A i \in 1..n : r[i] = p[i]
      /\ \A i \in 1..m : r[n + i] = q[i]
  OBVIOUS
<1>2. S \in SUBSET (1..n) /\ R \in SUBSET (1..m) /\ R \in SUBSET (Nat \ {0}) /\ IsFiniteSet(R)
  <2>1. R \in SUBSET (1..m) /\ S \in SUBSET (1..n)
    BY <1>1
  <2>2. IsFiniteSet(1..m)
    BY <1>1, FS_Interval
  <2>3. IsFiniteSet(R)
    BY <2>1, <2>2, FS_Subset
  <2> HIDE DEF R, S
  <2>4. \A x \in 1..m : x \in Nat \ {0}
    BY <1>1
  <2> QED
    BY <2>1, <2>3, <2>4
<1>3. U = S \cup {n + x : x \in R}
  <2>1. ASSUME NEW k \in U PROVE k \in S \cup {n + x : x \in R}
    <3>1. CASE k <= n
      BY <1>1, <3>1
    <3>2. CASE k > n
      <4>1. k - n \in 1..m /\ n + (k - n) = k
        BY <1>1, <3>2
      <4>2. k - n \in R
        BY <1>1, <4>1
      <4> QED
        BY <4>1, <4>2
    <3> QED
      BY <1>1, <3>1, <3>2
  <2>2. ASSUME NEW k \in S PROVE k \in U
    BY <1>1
  <2>3. ASSUME NEW k \in R PROVE n + k \in U
    BY <1>1
  <2> HIDE DEF U, S, R
  <2> QED
    BY <2>1, <2>2, <2>3
<1> HIDE DEF n, m, r, S, R, U, a, b, d
<1>4. /\ a \in Seq(S) /\ b \in Seq(R)
      /\ InOrder(U) = a \o [k \in 1..d |-> n + b[k]]
  BY <1>1, <1>2, <1>3, InOrderJoins DEF a, b, d
<1>5. Len(b) = d /\ d \in Nat
  <2>1. d \in Nat
    BY <1>2, FS_CardinalityType DEF d
  <2>2. b = [k \in 1..d |-> CHOOSE x \in R : Cardinality({y \in R : y < x}) = k - 1]
    BY DEF b, d, InOrder
  <2> QED
    BY <2>1, <2>2
<1>6. /\ Filled(p) = [k \in DOMAIN a |-> p[a[k]]]
      /\ Filled(q) = [k \in DOMAIN b |-> q[b[k]]]
      /\ Filled(r) = [k \in DOMAIN InOrder(U) |-> r[InOrder(U)[k]]]
  BY DEF Filled, a, b, S, R, U
<1> DEFINE c == Len(a)
           e == [k \in 1..d |-> n + b[k]]
<1>7. c \in Nat /\ DOMAIN a = 1..c /\ DOMAIN b = 1..d /\ (\A k \in 1..c : a[k] \in S) /\ (\A k \in 1..d : b[k] \in R)
  BY <1>4, <1>5
<1>8. \A k \in 1..c : a[k] \in 1..n
  BY <1>2, <1>7
<1>9. \A k \in 1..d : b[k] \in 1..m
  BY <1>2, <1>7
<1>10. Filled(p) \in Seq(T) /\ Len(Filled(p)) = c
  <2>1. \A k \in 1..c : p[a[k]] \in T
    BY <1>8 DEF n
  <2> QED
    BY <1>6, <1>7, <2>1
<1>11. Filled(q) \in Seq(T) /\ Len(Filled(q)) = d
  <2>1. \A k \in 1..d : q[b[k]] \in T
    BY <1>9 DEF m
  <2> QED
    BY <1>5, <1>6, <1>7, <2>1
<1>12. /\ DOMAIN InOrder(U) = 1..c + d
       /\ \A k \in 1..c : InOrder(U)[k] = a[k]
       /\ \A k \in 1..d : InOrder(U)[c + k] = n + b[k]
  <2>1. e \in Seq(Nat) /\ Len(e) = d
    BY <1>1, <1>5, <1>9
  <2>2. a \in Seq(Nat)
    BY <1>7, <1>8, <1>4
  <2> HIDE DEF e
  <2>3. a \o e \in Seq(Nat) /\ Len(a \o e) = c + d
    <3>1. a \o e \in Seq(Nat) /\ Len(a \o e) = Len(a) + Len(e)
      BY ONLY <2>1, <2>2, JoinIs
    <3> QED
      BY <2>1, <3>1
  <2>4. \A k \in 1..c : (a \o e)[k] = a[k]
    BY <2>1, <2>2, JoinIs
  <2>5. \A k \in 1..d : (a \o e)[c + k] = e[k]
    <3> TAKE k \in 1..d
    <3>1. k \in 1..Len(e)
      BY <2>1
    <3> QED
      BY <2>1, <2>2, <3>1, JoinIs
  <2>6. InOrder(U) = a \o e
    BY <1>4 DEF e
  <2>7. DOMAIN InOrder(U) = 1..c + d
    <3> HIDE DEF c
    <3> QED
      BY <2>3, <2>6
  <2> QED
    BY <2>4, <2>5, <2>6, <2>7 DEF e
<1>13. \A k \in 1..c + d : r[InOrder(U)[k]] = IF k <= c THEN p[a[k]] ELSE q[b[k - c]]
  <2> TAKE k \in 1..c + d
  <2>1. CASE k <= c
    <3>1. k \in 1..c
      BY <1>5, <1>7, <2>1
    <3> QED
      BY <1>1, <1>8, <1>12, <2>1, <3>1
  <2>2. CASE k > c
    <3>1. k - c \in 1..d /\ c + (k - c) = k
      BY <1>5, <1>7, <2>2
    <3>2. InOrder(U)[k] = n + b[k - c] /\ b[k - c] \in 1..m
      BY <1>9, <1>12, <3>1
    <3> QED
      BY <1>1, <1>7, <2>2, <3>1, <3>2
  <2> QED
    BY <1>5, <1>7, <2>1, <2>2
<1> HIDE DEF c
<1>14. Filled(p) \o Filled(q) = [k \in 1..c + d |-> IF k <= c THEN p[a[k]] ELSE q[b[k - c]]]
  <2>1. Filled(p) \o Filled(q) = [k \in 1..c + d |-> IF k <= c THEN Filled(p)[k] ELSE Filled(q)[k - c]]
    <3> DEFINE f == Filled(p)
               g == Filled(q)
    <3>0. f \in Seq(T) /\ g \in Seq(T)
      BY <1>10, <1>11
    <3> HIDE DEF f, g
    <3>1. f \o g = [k \in 1..Len(f) + Len(g) |-> IF k <= Len(f) THEN f[k] ELSE g[k - Len(f)]]
      BY ONLY <3>0, JoinIs
    <3> QED
      BY <1>10, <1>11, <3>1 DEF f, g
  <2>2. \A k \in 1..c + d : k <= c => Filled(p)[k] = p[a[k]]
    <3>1. \A k \in 1..c + d : k <= c => k \in DOMAIN a
      BY <1>5, <1>7
    <3> QED
      BY <1>6, <3>1
  <2>3. \A k \in 1..c + d : ~(k <= c) => Filled(q)[k - c] = q[b[k - c]]
    <3>1. \A k \in 1..c + d : ~(k <= c) => k - c \in DOMAIN b
      BY <1>5, <1>7
    <3> QED
      BY <1>6, <3>1
  <2>4. \A k \in 1..c + d : (IF k <= c THEN Filled(p)[k] ELSE Filled(q)[k - c]) = (IF k <= c THEN p[a[k]] ELSE q[b[k - c]])
    BY <2>2, <2>3
  <2> QED
    BY <2>1, <2>4
<1>15. Filled(r) = [k \in 1..c + d |-> IF k <= c THEN p[a[k]] ELSE q[b[k - c]]]
  BY <1>6, <1>12, <1>13
<1> QED
  BY <1>10, <1>11, <1>14, <1>15 DEF r

\* Whatever is in what the seqs make is in one of them.
LEMMA FlatCovers ==
  ASSUME NEW T, NEW ss \in Seq(Seq(T)), NEW y \in 1..Len(FlattenSeq(ss))
  PROVE  \E k \in 1..Len(ss) : \E x \in 1..Len(ss[k]) : y = Len(Flat(ss, k - 1)) + x
<1> DEFINE n == Len(ss)
           L(k) == Len(Flat(ss, k))
           I == {k \in 0..n : y <= L(k)}
<1>1. /\ n \in Nat /\ L(0) = 0 /\ FlattenSeq(ss) = Flat(ss, n)
      /\ \A k \in 0..n : L(k) \in Nat
      /\ \A k \in 1..n : L(k) = L(k - 1) + Len(ss[k])
  <2>1. n \in Nat /\ Flat(ss, 0) = <<>> /\ FlattenSeq(ss) = Flat(ss, n)
    BY FlatSteps
  <2>2. /\ \A k \in 0..n : L(k) \in Nat
        /\ \A k \in 1..n : L(k) = L(k - 1) + Len(ss[k])
    BY FlatHolds
  <2> QED
    BY <2>1, <2>2
<1>2. y \in Nat /\ y >= 1 /\ y <= L(n)
  BY <1>1
<1> HIDE DEF L
<1>3. n \in I /\ I \in SUBSET Nat
  BY <1>1, <1>2
<1>4. PICK k \in I : \A j \in I : k <= j
  <2> HIDE DEF I
  <2> QED
    BY <1>3, LeastOf
<1>5. k # 0 /\ k \in 1..n /\ k - 1 \in 0..n /\ k - 1 \notin I
  <2>1. k # 0
    BY <1>1, <1>2
  <2>2. k \in 1..n /\ k - 1 \in 0..n /\ ~(k <= k - 1)
    BY <1>1, <2>1
  <2> HIDE DEF I
  <2> QED
    BY <1>4, <2>1, <2>2
<1>6. ~(y <= L(k - 1)) /\ y <= L(k)
  BY <1>5
<1> DEFINE x == y - L(k - 1)
<1>7. ss[k] \in Seq(T) /\ Len(ss[k]) \in Nat
  BY <1>5
<1>8. x \in 1..Len(ss[k]) /\ y = L(k - 1) + x
  <2> DEFINE p == L(k)
             q == L(k - 1)
             l == Len(ss[k])
  <2>1. p \in Nat /\ q \in Nat /\ l \in Nat /\ p = q + l /\ ~(y <= q) /\ y <= p /\ y \in Nat
    BY <1>1, <1>2, <1>5, <1>6, <1>7
  <2> HIDE DEF p, q, l
  <2>2. y - q \in 1..l /\ y = q + (y - q)
    BY ONLY <2>1
  <2> QED
    BY <2>2 DEF q, l
<1> HIDE DEF x
<1> QED
  BY <1>5, <1>8 DEF L

\* What a division gives.
Divides(a, d, q, r) ==
  /\ q \in Nat /\ r \in 0..d - 1 /\ a = q * d + r
  /\ \A x \in 1..q : x * d <= a
  /\ (q + 1) * d > a

\* It gives that.
LEMMA Divided ==
  ASSUME NEW a \in Nat, NEW d \in Nat \ {0}
  PROVE  Divides(a, d, a \div d, a % d)
<1> SUFFICES ASSUME NEW q, q = a \div d, NEW r, r = a % d PROVE Divides(a, d, q, r)
  OBVIOUS
<1>1. a \div d \in Int /\ a % d \in 0..d - 1
  OBVIOUS
<1>2. q \in Int /\ r \in Int /\ 0 <= r /\ r < d
  BY <1>1
<1>3. r = a - d * q
  OBVIOUS
<1>4. a = d * q + r /\ d * q = q * d /\ q * d \in Int
  BY ONLY <1>2, <1>3, a \in Nat, d \in Nat
<1>5. q >= 0
  <2> SUFFICES ASSUME q <= -1 PROVE FALSE
    BY <1>2
  <2>1. d * q <= d * (-1)
    BY ONLY <1>2, d \in Nat, q <= -1
  <2> QED
    BY <1>2, <1>4, <2>1
<1>6. ASSUME NEW x \in 1..q PROVE x * d <= a
  <2>1. x * d <= q * d
    BY <1>2
  <2> QED
    BY <1>2, <1>4, <2>1
<1>7. (q + 1) * d > a
  <2>1. (q + 1) * d = q * d + d
    BY <1>2
  <2> QED
    BY <1>2, <1>4, <2>1
<1> QED
  BY <1>1, <1>2, <1>4, <1>5, <1>6, <1>7 DEF Divides

\* The laces of a packet: all full but the last, and as much as the packet.
LEMMA LacesAre ==
  ASSUME NEW T, NEW p \in Seq(T)
  PROVE  /\ Laces(p) \in Seq(Nat) /\ Len(Laces(p)) \in Nat \ {0}
         /\ \A x \in 1..Len(Laces(p)) - 1 : Laces(p)[x] = Lace
         /\ Laces(p)[Len(Laces(p))] \in 0..Lace - 1
         /\ Len(p) = (Len(Laces(p)) - 1) * Lace + Laces(p)[Len(Laces(p))]
<1> DEFINE a == Len(p)
           q == a \div Lace
           r == a % Lace
<1>1. a \in Nat /\ Lace \in Nat \ {0}
  BY StreamsAssumption
<1>2. /\ q \in Nat /\ r \in 0..Lace - 1 /\ a = q * Lace + r
      /\ \A x \in 1..q : x * Lace <= a
      /\ (q + 1) * Lace > a
  <2>1. q = a \div Lace /\ r = a % Lace
    OBVIOUS
  <2> HIDE DEF a, q, r
  <2>2. Divides(a, Lace, a \div Lace, a % Lace)
    BY ONLY <1>1, Divided
  <2>3. Divides(a, Lace, q, r)
    BY ONLY <2>1, <2>2
  <2> QED
    BY ONLY <2>3 DEF Divides
<1>3. Laces(p) = [k \in 1..q + 1 |-> IF k * Lace <= a THEN Lace ELSE r]
  BY DEF Laces
<1> HIDE DEF a, q, r
<1>4. Laces(p) \in Seq(Nat) /\ Len(Laces(p)) = q + 1
  <2>1. \A k \in 1..q + 1 : (IF k * Lace <= a THEN Lace ELSE r) \in Nat
    BY <1>1, <1>2
  <2>2. q + 1 \in Nat
    BY <1>2
  <2> QED
    BY <1>3, <2>1, <2>2
<1>5. \A x \in 1..q : Laces(p)[x] = Lace
  BY <1>2, <1>3
<1>6. Laces(p)[q + 1] = r
  <2>1. q + 1 \in 1..q + 1 /\ ~((q + 1) * Lace <= a)
    <3> DEFINE v == (q + 1) * Lace
    <3>1. v > a /\ v \in Int
      BY <1>1, <1>2
    <3> HIDE DEF v
    <3>2. ~(v <= a)
      BY <1>1, <3>1
    <3>3. q + 1 \in 1..q + 1
      BY <1>2
    <3> QED
      BY <3>2, <3>3 DEF v
  <2> QED
    BY <1>3, <2>1
<1>7. (q + 1) - 1 = q /\ q + 1 \in Nat \ {0}
  BY <1>2
<1> DEFINE l == Len(Laces(p))
<1>8. l = q + 1 /\ l - 1 = q /\ l \in Nat \ {0}
  BY <1>4, <1>7
<1>9. /\ \A x \in 1..l - 1 : Laces(p)[x] = Lace
      /\ Laces(p)[l] = r /\ a = (l - 1) * Lace + r
  BY <1>2, <1>5, <1>6, <1>8
<1> HIDE DEF l
<1> QED
  BY <1>2, <1>4, <1>8, <1>9 DEF l, a

\* The laces of the packets of a page.
PageLaces(part) == [k \in DOMAIN part |-> Laces(part[k])]

\* The laces of the first packets of a page add up to the packets.
LEMMA LacesAdd ==
  ASSUME NEW T, NEW part \in Seq(Seq(T)),
         NEW LL, LL = PageLaces(part), NEW laces, laces = FlattenSeq(LL)
  PROVE  /\ LL \in Seq(Seq(Nat)) /\ Len(LL) = Len(part) /\ laces \in Seq(Nat)
         /\ \A k \in 0..Len(part) : UpTo(laces)[Len(Flat(LL, k))] = Len(Flat(part, k))
<1> DEFINE n == Len(part)
           E(k) == Len(Flat(LL, k))
           D(k) == Len(Flat(part, k))
<1>1. n \in Nat /\ DOMAIN part = 1..n /\ \A k \in 1..n : part[k] \in Seq(T)
  OBVIOUS
<1>2. LL \in Seq(Seq(Nat)) /\ Len(LL) = n /\ \A k \in 1..n : LL[k] = Laces(part[k])
  <2>1. LL = [k \in 1..n |-> Laces(part[k])]
    BY <1>1 DEF PageLaces
  <2>2. \A k \in 1..n : Laces(part[k]) \in Seq(Nat)
    BY <1>1, LacesAre
  <2> QED
    BY <1>1, <2>1, <2>2
<1> HIDE DEF n
<1>3. /\ laces \in Seq(Nat) /\ E(0) = 0 /\ Len(laces) = E(n) /\ Len(laces) \in Nat
      /\ \A k \in 0..n : E(k) \in Nat
      /\ \A k \in 1..n : E(k) = E(k - 1) + Len(LL[k])
      /\ \A k \in 0..n : E(k) <= E(n)
      /\ \A k \in 1..n : \A x \in 1..Len(LL[k]) : laces[E(k - 1) + x] = LL[k][x]
  <2>1. Flat(LL, 0) = <<>> /\ laces = Flat(LL, n) /\ laces \in Seq(Nat)
    <3>1. n \in 0..n
      BY <1>1
    <3> QED
      BY <1>2, <3>1, FlatSteps
  <2>2. /\ \A k \in 0..n : E(k) \in Nat
        /\ \A k \in 1..n : E(k) = E(k - 1) + Len(LL[k])
    BY <1>2, FlatHolds
  <2>4. \A k \in 1..n : \A x \in 1..Len(LL[k]) : laces[E(k - 1) + x] = LL[k][x]
    <3>1. \A k \in 1..n : \A x \in 1..Len(LL[k]) : FlattenSeq(LL)[E(k - 1) + x] = LL[k][x]
      <4>1. \A k \in 1..Len(LL) : \A x \in 1..Len(LL[k]) :
              FlattenSeq(LL)[Len(Flat(LL, k - 1)) + x] = LL[k][x]
        BY ONLY <1>2, FlatHolds
      <4> QED
        BY ONLY <1>2, <4>1
    <3> HIDE DEF E
    <3> QED
      BY <3>1
  <2>3. \A k \in 0..n : E(k) <= E(n)
    <3>1. \A k \in 0..n : k <= n /\ n \in 0..n
      BY <1>1
    <3> QED
      BY <1>2, <3>1, FlatHolds
  <2>5. E(0) = 0 /\ Len(laces) = E(n) /\ Len(laces) \in Nat
    BY <2>1
  <2> HIDE DEF E
  <2> QED
    BY <2>1, <2>2, <2>3, <2>4, <2>5
<1>4. /\ D(0) = 0 /\ \A k \in 0..n : D(k) \in Nat
      /\ \A k \in 1..n : D(k) = D(k - 1) + Len(part[k])
  <2>1. Flat(part, 0) = <<>>
    BY FlatSteps
  <2>2. /\ \A k \in 0..n : D(k) \in Nat
        /\ \A k \in 1..n : D(k) = D(k - 1) + Len(part[k])
    BY FlatHolds DEF n
  <2> QED
    BY <2>1, <2>2
<1>5. /\ UpTo(laces)[0] = 0
      /\ \A k \in 1..Len(laces) : UpTo(laces)[k] = UpTo(laces)[k - 1] + laces[k]
      /\ \A k \in 0..Len(laces) : UpTo(laces)[k] \in Nat
  BY <1>3, UpToAdds
<1> HIDE DEF E, D
<1>6. ASSUME NEW k \in 1..n, UpTo(laces)[E(k - 1)] = D(k - 1) PROVE UpTo(laces)[E(k)] = D(k)
  <2> DEFINE c == LL[k]
             l == Len(c)
             e == E(k - 1)
             d == D(k - 1)
             U == UpTo(laces)
             J == {x \in Nat : x <= l - 1 => U[e + x] = d + x * Lace}
  <2>1. /\ l \in Nat \ {0} /\ \A x \in 1..l - 1 : c[x] = Lace
        /\ c[l] \in 0..Lace - 1 /\ Len(part[k]) = (l - 1) * Lace + c[l]
    <3> DEFINE p == part[k]
    <3>1. p \in Seq(T) /\ c = Laces(p)
      BY <1>1, <1>2
    <3> HIDE DEF p, c
    <3>2. /\ Len(Laces(p)) \in Nat \ {0} /\ \A x \in 1..Len(Laces(p)) - 1 : Laces(p)[x] = Lace
          /\ Laces(p)[Len(Laces(p))] \in 0..Lace - 1
          /\ Len(p) = (Len(Laces(p)) - 1) * Lace + Laces(p)[Len(Laces(p))]
      BY ONLY <3>1, LacesAre
    <3> QED
      BY ONLY <3>1, <3>2 DEF p
  <2>2. k - 1 \in 0..n /\ k \in 0..n
    BY <1>1
  <2>3. e \in Nat /\ d \in Nat /\ E(k) = e + l /\ E(k) \in Nat /\ E(k) <= Len(laces) /\ D(k) = d + Len(part[k])
    BY <1>3, <1>4, <2>2
  <2>4. \A x \in 1..l : laces[e + x] = c[x]
    BY <1>3
  <2>5. \A x \in 1..l : U[e + x] = U[e + x - 1] + c[x]
    <3> TAKE x \in 1..l
    <3>1. e + x \in 1..Len(laces) /\ (e + x) - 1 = e + x - 1
      <4> DEFINE v == Len(laces)
                 w == E(k)
      <4>1. w = e + l /\ w <= v /\ v \in Nat /\ w \in Nat /\ l \in Nat /\ e \in Nat
        BY <1>3, <2>1, <2>3
      <4> HIDE DEF v, w, l, e
      <4> QED
        BY <4>1 DEF v
    <3> HIDE DEF U, e
    <3> QED
      BY <1>5, <2>4, <3>1 DEF U
  <2>6. Lace \in Nat
    BY StreamsAssumption
  <2> HIDE DEF c, l, e, d, U
  <2>7. 0 \in J
    <3>1. U[e] = d /\ e + 0 = e /\ d + 0 * Lace = d
      BY <1>6, <2>3, <2>6 DEF U, e, d
    <3> QED
      BY <3>1
  <2>8. ASSUME NEW x \in J PROVE x + 1 \in J
    <3>1. ASSUME x + 1 <= l - 1 PROVE U[e + (x + 1)] = d + (x + 1) * Lace
      <4>1. x + 1 \in 1..l /\ x + 1 \in 1..l - 1 /\ e + (x + 1) - 1 = e + x /\ x <= l - 1
        BY <2>1, <2>3, <3>1
      <4>2. U[e + (x + 1)] = U[e + x] + Lace
        BY <2>1, <2>5, <4>1
      <4>3. U[e + x] = d + x * Lace
        BY <4>1
      <4>4. (x + 1) * Lace = x * Lace + Lace /\ x * Lace \in Int
        BY <2>6
      <4> QED
        BY <2>3, <2>6, <4>2, <4>3, <4>4
    <3> QED
      BY <3>1
  <2>9. J = Nat
    <3>1. J \in SUBSET Nat
      OBVIOUS
    <3> HIDE DEF J
    <3> QED
      BY <2>7, <2>8, <3>1, Induction
  <2>10. U[e + (l - 1)] = d + (l - 1) * Lace
    <3>1. l - 1 \in J /\ l - 1 <= l - 1
      BY <2>1, <2>9
    <3> QED
      BY <3>1
  <2>11. U[e + l] = U[e + l - 1] + c[l] /\ e + l - 1 = e + (l - 1)
    <3>1. l \in 1..l
      BY <2>1
    <3> QED
      BY <2>1, <2>3, <2>5, <3>1
  <2>12. (l - 1) * Lace \in Int /\ c[l] \in Int
    BY <2>1, <2>6
  <2> DEFINE m == (l - 1) * Lace
             z == c[l]
  <2>13. U[e + l] = (d + m) + z /\ D(k) = d + (m + z) /\ m \in Int /\ z \in Int
    BY <2>1, <2>3, <2>10, <2>11, <2>12
  <2> HIDE DEF m, z
  <2>14. U[e + l] = D(k)
    BY <2>3, <2>13
  <2> QED
    BY <2>3, <2>14 DEF U
<1>7. \A k \in 0..n : UpTo(laces)[E(k)] = D(k)
  <2> DEFINE I == {k \in Nat : k <= n => UpTo(laces)[E(k)] = D(k)}
  <2>1. 0 \in I
    BY <1>3, <1>4, <1>5
  <2>2. ASSUME NEW k \in I PROVE k + 1 \in I
    <3>1. ASSUME k + 1 <= n PROVE UpTo(laces)[E(k + 1)] = D(k + 1)
      <4> DEFINE j == k + 1
      <4>1. j \in 1..n /\ j - 1 = k /\ k <= n
        BY <1>1, <3>1
      <4> HIDE DEF j
      <4>2. UpTo(laces)[E(j)] = D(j)
        BY <1>6, <4>1
      <4> QED
        BY <4>2 DEF j
    <3> QED
      BY <3>1
  <2>3. I = Nat
    <3>1. I \in SUBSET Nat
      OBVIOUS
    <3> HIDE DEF I
    <3> QED
      BY <2>1, <2>2, <3>1, Induction
  <2> QED
    BY <1>1, <2>3
<1> QED
  BY <1>2, <1>3, <1>7 DEF E, D, n

\* Of its laces and its body, Packets makes the packets of a page.
LEMMA PacketsAre ==
  ASSUME NEW part \in Seq(Seq(Nat)), NEW laces, laces = FlattenSeq(PageLaces(part)),
         NEW body, body = FlattenSeq(part)
  PROVE  /\ laces \in Seq(Nat) /\ body \in Seq(Nat)
         /\ UpTo(laces)[Len(laces)] = Len(body)
         /\ Packets(laces, body) = part
<1> DEFINE n == Len(part)
           LL == PageLaces(part)
           E(k) == Len(Flat(LL, k))
           D(k) == Len(Flat(part, k))
           U == UpTo(laces)
           Ends1 == {k \in DOMAIN laces : laces[k] < Lace}
           e == [k \in 1..n |-> E(k)]
<1>1. n \in Nat /\ DOMAIN part = 1..n /\ \A k \in 1..n : part[k] \in Seq(Nat)
  OBVIOUS
<1>2. /\ LL \in Seq(Seq(Nat)) /\ Len(LL) = n /\ laces \in Seq(Nat)
      /\ \A k \in 0..n : U[E(k)] = D(k)
  <2>1. LL = PageLaces(part)
    OBVIOUS
  <2> HIDE DEF LL, U
  <2>2. LL \in Seq(Seq(Nat)) /\ Len(LL) = n /\ laces \in Seq(Nat)
    BY ONLY <2>1, part \in Seq(Seq(Nat)), laces = FlattenSeq(PageLaces(part)), LacesAdd
  <2>3. \A k \in 0..n : UpTo(laces)[Len(Flat(LL, k))] = D(k)
    BY ONLY <2>1, part \in Seq(Seq(Nat)), laces = FlattenSeq(PageLaces(part)), LacesAdd
  <2> QED
    BY ONLY <2>2, <2>3 DEF U
<1>3. \A k \in 1..n : LL[k] = Laces(part[k])
  BY <1>1 DEF PageLaces
<1>3a. laces = FlattenSeq(LL)
  OBVIOUS
<1> HIDE DEF n, LL, U
<1>4. /\ E(0) = 0 /\ Len(laces) = E(n) /\ Len(laces) \in Nat
      /\ \A k \in 0..n : E(k) \in Nat
      /\ \A k \in 1..n : E(k) = E(k - 1) + Len(LL[k])
      /\ \A j, k \in 0..n : j <= k => E(j) <= E(k)
  <2>1. Flat(LL, 0) = <<>> /\ laces = Flat(LL, n)
    BY <1>2, <1>3a, FlatSteps
  <2>2. /\ \A k \in 0..n : E(k) \in Nat
        /\ \A k \in 1..n : E(k) = E(k - 1) + Len(LL[k])
        /\ \A j, k \in 0..n : j <= k => E(j) <= E(k)
    BY <1>2, FlatHolds
  <2>3. E(0) = 0 /\ Len(laces) = E(n) /\ Len(laces) \in Nat
    BY <1>2, <2>1
  <2> QED
    BY <2>2, <2>3
<1>5. \A k \in 1..n : \A x \in 1..Len(LL[k]) : laces[E(k - 1) + x] = LL[k][x]
  <2>1. \A k \in 1..Len(LL) : \A x \in 1..Len(LL[k]) :
          FlattenSeq(LL)[Len(Flat(LL, k - 1)) + x] = LL[k][x]
    BY ONLY <1>2, FlatHolds
  <2> QED
    BY ONLY <1>2, <1>3a, <2>1
<1>6. \A y \in 1..Len(laces) : \E k \in 1..n : \E x \in 1..Len(LL[k]) : y = E(k - 1) + x
  <2>1. \A y \in 1..Len(FlattenSeq(LL)) : \E k \in 1..Len(LL) : \E x \in 1..Len(LL[k]) : y = Len(Flat(LL, k - 1)) + x
    BY ONLY <1>2, FlatCovers
  <2> QED
    BY ONLY <1>2, <1>3a, <2>1
<1>7. ASSUME NEW k \in 1..n
      PROVE  /\ Len(LL[k]) \in Nat \ {0}
             /\ \A x \in 1..Len(LL[k]) - 1 : LL[k][x] = Lace
             /\ LL[k][Len(LL[k])] \in 0..Lace - 1
  <2> DEFINE p == part[k]
  <2>1. p \in Seq(Nat) /\ LL[k] = Laces(p)
    BY <1>1, <1>3
  <2> HIDE DEF p
  <2>2. /\ Len(Laces(p)) \in Nat \ {0}
        /\ \A x \in 1..Len(Laces(p)) - 1 : Laces(p)[x] = Lace
        /\ Laces(p)[Len(Laces(p))] \in 0..Lace - 1
    BY ONLY <2>1, LacesAre
  <2> QED
    BY ONLY <2>1, <2>2
<1>8. /\ body = Flat(part, n) /\ body \in Seq(Nat) /\ D(0) = 0
      /\ \A k \in 0..n : D(k) \in Nat
      /\ \A k \in 1..n : D(k) = D(k - 1) + Len(part[k]) /\ D(k) <= D(n)
      /\ \A k \in 1..n : \A x \in 1..Len(part[k]) : body[D(k - 1) + x] = part[k][x]
  <2>1. body = Flat(part, n) /\ Flat(part, 0) = <<>> /\ Flat(part, n) \in Seq(Nat)
    <3>1. n \in 0..n
      BY <1>1
    <3> QED
      BY <3>1, FlatSteps DEF n
  <2>2. /\ \A k \in 0..n : D(k) \in Nat
        /\ \A k \in 1..n : D(k) = D(k - 1) + Len(part[k])
    BY FlatHolds DEF n
  <2>3. \A k \in 1..n : D(k) <= D(n)
    <3>1. \A k \in 1..n : k \in 0..n /\ k <= n /\ n \in 0..n
      BY <1>1
    <3> QED
      BY <3>1, FlatHolds DEF n
  <2>4. \A k \in 1..n : \A x \in 1..Len(part[k]) : body[D(k - 1) + x] = part[k][x]
    <3>1. \A k \in 1..Len(part) : \A x \in 1..Len(part[k]) :
            FlattenSeq(part)[Len(Flat(part, k - 1)) + x] = part[k][x]
      BY ONLY part \in Seq(Seq(Nat)), FlatHolds
    <3> QED
      BY ONLY <3>1, body = FlattenSeq(part) DEF n
  <2>5. D(0) = 0
    BY <2>1
  <2> HIDE DEF D
  <2> QED
    BY <2>1, <2>2, <2>3, <2>4, <2>5
<1>9. U[Len(laces)] = Len(body)
  <2>1. n \in 0..n
    BY <1>1
  <2>2. U[E(n)] = D(n)
    BY <1>2, <2>1
  <2> QED
    BY <1>4, <1>8, <2>2
<1> HIDE DEF E, D
<1>10. ASSUME NEW k \in 1..n PROVE E(k) \in DOMAIN laces /\ laces[E(k)] < Lace
  <2> DEFINE l == Len(LL[k])
  <2>1. l \in Nat \ {0} /\ l \in 1..l
    BY <1>7
  <2>2. E(k) = E(k - 1) + l /\ E(k - 1) \in Nat /\ E(k) <= E(n) /\ E(k) \in Nat
    <3>1. k - 1 \in 0..n /\ k \in 0..n /\ n \in 0..n /\ k <= n
      BY <1>1
    <3> QED
      BY <1>4, <3>1
  <2>3. laces[E(k)] = LL[k][l]
    BY <1>5, <2>1, <2>2
  <2>4. LL[k][l] \in 0..Lace - 1 /\ Lace \in Nat
    BY <1>7, StreamsAssumption
  <2> HIDE DEF l
  <2>5. E(k) \in 1..Len(laces)
    BY <1>4, <2>1, <2>2
  <2>6. laces[E(k)] < Lace
    BY <2>3, <2>4
  <2> QED
    BY <1>2, <2>5, <2>6
<1>11. ASSUME NEW y \in DOMAIN laces, laces[y] < Lace PROVE \E k \in 1..n : y = E(k)
  <2>1. PICK k \in 1..n : \E x \in 1..Len(LL[k]) : y = E(k - 1) + x
    BY <1>2, <1>6
  <2>2. PICK x \in 1..Len(LL[k]) : y = E(k - 1) + x
    BY <2>1
  <2>3. laces[y] = LL[k][x] /\ Lace \in Nat
    BY <1>5, <2>2, StreamsAssumption
  <2>4. ~(x \in 1..Len(LL[k]) - 1)
    BY <1>7, <1>11, <2>3
  <2>5. x = Len(LL[k])
    BY <1>7, <2>4
  <2> QED
    BY <1>4, <2>2, <2>5
<1>12. {e[k] : k \in 1..n} = Ends1
  <2>1. \A k \in 1..n : e[k] = E(k)
    OBVIOUS
  <2>2. \A k \in 1..n : e[k] \in Ends1
    BY <1>10, <2>1
  <2>3. \A y \in Ends1 : \E k \in 1..n : y = e[k]
    BY <1>11, <2>1
  <2> HIDE DEF e, Ends1
  <2> QED
    BY <2>2, <2>3
<1>13. e \in [1..n -> Int] /\ \A i, j \in 1..n : i < j => e[i] < e[j]
  <2>1. e \in [1..n -> Int]
    BY <1>4
  <2>2. ASSUME NEW i \in 1..n, NEW j \in 1..n, i < j PROVE E(i) < E(j)
    <3>1. i \in 0..n /\ j - 1 \in 0..n /\ i <= j - 1 /\ j \in 0..n
      BY <1>1, <2>2
    <3>2. E(i) <= E(j - 1) /\ E(j) = E(j - 1) + Len(LL[j]) /\ Len(LL[j]) \in Nat \ {0}
      BY <1>4, <1>7, <3>1
    <3> DEFINE p == E(j - 1)
               l == Len(LL[j])
    <3>3. p \in Nat /\ l \in Nat \ {0} /\ E(i) <= p /\ E(j) = p + l /\ E(i) \in Nat
      BY <1>4, <3>1, <3>2
    <3> HIDE DEF p, l
    <3> QED
      BY ONLY <3>3
  <2> QED
    BY <2>1, <2>2
<1>14. InOrder(Ends1) = e
  <2> HIDE DEF e
  <2>1. InOrder({e[k] : k \in 1..n}) = e
    BY <1>1, <1>13, InOrderIs
  <2> HIDE DEF Ends1
  <2> QED
    BY <1>12, <2>1
<1> DEFINE begins(k) == IF k = 1 THEN 0 ELSE U[e[k - 1]]
<1>15. Packets(laces, body) = [k \in DOMAIN e |-> SubSeq(body, begins(k) + 1, U[e[k]])]
  <2> HIDE DEF e
  <2> QED
    BY <1>14 DEF Packets, U
<1>16. \A k \in 1..n : begins(k) = D(k - 1) /\ U[e[k]] = D(k)
  <2> TAKE k \in 1..n
  <2>1. U[e[k]] = D(k)
    BY <1>1, <1>2
  <2>2. CASE k = 1
    BY <1>8, <2>1, <2>2
  <2>3. CASE k # 1
    <3>1. k - 1 \in 1..n /\ k - 1 \in 0..n
      BY <1>1, <2>3
    <3>2. e[k - 1] = E(k - 1)
      BY <3>1
    <3>3. U[E(k - 1)] = D(k - 1)
      BY <1>2, <3>1
    <3> HIDE DEF e
    <3> QED
      BY <2>1, <2>3, <3>2, <3>3
  <2> QED
    BY <2>2, <2>3
<1>17. \A k \in 1..n : SubSeq(body, D(k - 1) + 1, D(k)) = part[k]
  <2> TAKE k \in 1..n
  <2> DEFINE a == D(k - 1)
             c == D(k)
             l == Len(part[k])
             p == part[k]
             w == SubSeq(body, a + 1, c)
  <2>1. k - 1 \in 0..n /\ k \in 0..n /\ n \in 0..n
    BY <1>1
  <2>2. p \in Seq(Nat) /\ Len(p) = l /\ l \in Nat /\ \A x \in 1..l : body[a + x] = p[x]
    BY <1>1, <1>8
  <2>3. a \in Nat /\ c = a + l /\ c <= Len(body) /\ body \in Seq(Nat) /\ Len(body) \in Nat
    BY <1>8, <2>1 DEF D
  <2> HIDE DEF a, c, l, p
  <2>4. w \in Seq(Nat) /\ Len(w) = l /\ \A x \in 1..l : w[x] = body[a + x]
    <3>1. c \in a..Len(body) /\ c - a = l
      BY ONLY <2>2, <2>3
    <3> QED
      BY ONLY <2>3, <3>1, WindowOf
  <2> HIDE DEF w
  <2>5. w = p
    <3>1. Len(w) = Len(p) /\ \A x \in 1..Len(w) : w[x] = p[x]
      BY <2>2, <2>4
    <3> QED
      BY ONLY <2>2, <2>4, <3>1, SeqEqual
  <2> QED
    BY <2>5 DEF w, a, c, p
<1>18. Packets(laces, body) = part
  <2>1. DOMAIN e = 1..n
    OBVIOUS
  <2> DEFINE q == Packets(laces, body)
             S(k) == SubSeq(body, begins(k) + 1, U[e[k]])
  <2>2. q = [k \in DOMAIN e |-> S(k)]
    BY <1>15
  <2>3. \A k \in 1..n : S(k) = part[k]
    BY <1>16, <1>17
  <2>4. part = [k \in 1..n |-> part[k]]
    BY <1>1
  <2> HIDE DEF e, q, S
  <2>5. q = part
    BY <2>1, <2>2, <2>3, <2>4
  <2> QED
    BY <2>5 DEF q
<1> QED
  BY <1>2, <1>8, <1>9, <1>18 DEF U

\* What OggPackets finds.
OggFound(b) ==
  [i \in 1..Len(b) + 1 |->
    LET pages  == {j \in Pages(b) : j >= i}
        header == i + 4 + b[i + 4]
        laces  == SubSeq(b, i + 5, header)
        size   == header + UpTo(laces)[Len(laces)]
    IN  IF Len(b) < i + 4 THEN Stops(i)
        ELSE IF pages = {} THEN Stops(Len(b) - 2)
        ELSE IF i \notin pages THEN Goes(<<>>, Min(pages))
        ELSE IF Len(b) < header \/ Len(b) < size THEN Stops(i)
        ELSE Goes(Packets(laces, SubSeq(b, header + 1, size)), size + 1)]

\* The pages from a place on; the end of a header, the laces, the end of the page.
PagesFrom(b, i) == {j \in Pages(b) : j >= i}
HeaderAt(b, i)  == i + 4 + b[i + 4]
LacesAt(b, i)   == SubSeq(b, i + 5, HeaderAt(b, i))
SizeAt(b, i)    == HeaderAt(b, i) + UpTo(LacesAt(b, i))[Len(LacesAt(b, i))]

\* With these names it is easier to read.
LEMMA OggFoundIs ==
  ASSUME NEW b, NEW i \in 1..Len(b) + 1
  PROVE  OggFound(b)[i] =
           IF Len(b) < i + 4 THEN Stops(i)
           ELSE IF PagesFrom(b, i) = {} THEN Stops(Len(b) - 2)
           ELSE IF i \notin PagesFrom(b, i) THEN Goes(<<>>, Min(PagesFrom(b, i)))
           ELSE IF Len(b) < HeaderAt(b, i) \/ Len(b) < SizeAt(b, i) THEN Stops(i)
           ELSE Goes(Packets(LacesAt(b, i), SubSeq(b, HeaderAt(b, i) + 1, SizeAt(b, i))), SizeAt(b, i) + 1)
BY DEF OggFound, PagesFrom, HeaderAt, LacesAt, SizeAt

\* OggPackets goes forward.
LEMMA OggForward ==
  ASSUME NEW b \in Seq(Nat)
  PROVE  /\ Forward(b, OggFound(b))
         /\ OggPackets(b) = Taken(b, OggFound(b))
<1>1. Len(b) \in Nat
  OBVIOUS
<1>2. ASSUME NEW i \in 1..Len(b) + 1, OggFound(b)[i].more
      PROVE  OggFound(b)[i].next \in i..Len(b) + 1
  <2> DEFINE n == Len(b)
             h == HeaderAt(b, i)
             t == LacesAt(b, i)
             z == SizeAt(b, i)
             P == PagesFrom(b, i)
  <2>1. OggFound(b)[i] =
          IF n < i + 4 THEN Stops(i)
          ELSE IF P = {} THEN Stops(n - 2)
          ELSE IF i \notin P THEN Goes(<<>>, Min(P))
          ELSE IF n < h \/ n < z THEN Stops(i)
          ELSE Goes(Packets(t, SubSeq(b, h + 1, z)), z + 1)
    BY OggFoundIs
  <2>2. P \in SUBSET Nat /\ (\A x \in P : i <= x /\ x <= n + 1)
    BY <1>1 DEF Pages, PagesFrom
  <2>3. \A x : ~Stops(x).more
    BY DEF Stops
  <2>4. \A x, o : Goes(o, x).next = x
    BY DEF Goes
  <2>5. CASE P # {} /\ i \notin P
    <3>1. Min(P) \in P
      BY <2>2, <2>5, MinIs
    <3> HIDE DEF P, n, h, z, t
    <3>2. OggFound(b)[i].next = Min(P)
      BY <1>2, <2>1, <2>3, <2>4, <2>5
    <3>3. Min(P) \in Nat /\ i <= Min(P) /\ Min(P) <= n + 1
      BY <2>2, <3>1
    <3> QED
      BY <1>1, <3>2, <3>3 DEF n
  <2>6. CASE ~(n < i + 4) /\ ~(n < h \/ n < z) /\ i \in P
    <3>1. b[i + 4] \in Nat
      BY <1>1, <2>6
    <3>2. h = i + 4 + b[i + 4]
      BY DEF HeaderAt
    <3>3. t \in Seq(Nat)
      <4>1. h \in Nat /\ h <= n
        BY <1>1, <2>6, <3>1, <3>2
      <4>2. t = SubSeq(b, i + 5, h)
        BY DEF LacesAt
      <4> HIDE DEF h, t
      <4> QED
        BY <1>1, <4>1, <4>2
    <3>4. UpTo(t)[Len(t)] \in Nat
      <4> HIDE DEF t
      <4>1. Len(t) \in 0..Len(t)
        BY <3>3
      <4> QED
        BY <3>3, <4>1, UpToAdds
    <3>5. z = h + UpTo(t)[Len(t)]
      BY DEF SizeAt
    <3> HIDE DEF P, n, h, z, t
    <3>6. OggFound(b)[i].next = z + 1
      BY <1>2, <2>1, <2>3, <2>4, <2>6
    <3> DEFINE u == UpTo(t)[Len(t)]
               c == b[i + 4]
    <3>7. u \in Nat /\ c \in Nat /\ h = i + 4 + c /\ z = h + u /\ n \in Nat /\ i \in Nat /\ ~(n < z)
      BY <1>1, <2>6, <3>1, <3>2, <3>4, <3>5 DEF n
    <3> HIDE DEF u, c
    <3>8. z + 1 \in i..n + 1
      BY ONLY <3>7
    <3> QED
      BY <3>6, <3>8 DEF n
  <2> HIDE DEF P, n, h, z, t
  <2> QED
    BY <1>2, <2>1, <2>3, <2>5, <2>6
<1>3. OggPackets(b) = Taken(b, OggFound(b))
  BY DEF OggPackets, OggFound
<1> QED
  BY <1>1, <1>2, <1>3 DEF Forward

\* A page, and where the things in it are.
OggPage(laces, body) == Page \o <<Len(laces)>> \o laces \o body

\* The bytes of a page.
IsPage(bytes, laces, body) ==
  /\ bytes \in Seq(Nat) /\ Len(bytes) = 5 + Len(laces) + Len(body)
  /\ bytes[1] = 79 /\ bytes[2] = 103 /\ bytes[3] = 103 /\ bytes[4] = 83 /\ bytes[5] = Len(laces)
  /\ \A x \in 1..Len(laces) : bytes[5 + x] = laces[x]
  /\ \A x \in 1..Len(body) : bytes[5 + Len(laces) + x] = body[x]

\* These are the bytes.
LEMMA PageIs ==
  ASSUME NEW laces \in Seq(Nat), NEW body \in Seq(Nat),
         NEW bytes, bytes = OggPage(laces, body)
  PROVE  IsPage(bytes, laces, body)
<1> DEFINE n == Len(laces)
           m == Len(body)
           h == Page \o <<n>>
           g == h \o laces
<1>1. n \in Nat /\ m \in Nat
  OBVIOUS
<1>2. h = <<79, 103, 103, 83, n>>
  <2> DEFINE u == <<79, 103, 103, 83>>
             w == <<n>>
             t == <<79, 103, 103, 83, n>>
  <2>1. u \in Seq(Nat) /\ Len(u) = 4 /\ u[1] = 79 /\ u[2] = 103 /\ u[3] = 103 /\ u[4] = 83
    OBVIOUS
  <2>2. w \in Seq(Nat) /\ Len(w) = 1 /\ w[1] = n
    BY <1>1
  <2>3. t \in Seq(Nat) /\ Len(t) = 5 /\ t[1] = 79 /\ t[2] = 103 /\ t[3] = 103 /\ t[4] = 83 /\ t[5] = n
    BY <1>1
  <2>4. h = u \o w
    BY DEF Page
  <2> HIDE DEF u, w, t, h, n
  <2>5. u \in Seq(Nat) /\ w \in Seq(Nat)
    BY <2>1, <2>2
  <2>6. /\ u \o w \in Seq(Nat) /\ Len(u \o w) = Len(u) + Len(w)
        /\ \A x \in 1..Len(u) : (u \o w)[x] = u[x]
        /\ \A x \in 1..Len(w) : (u \o w)[Len(u) + x] = w[x]
    BY ONLY <2>5, JoinIs
  <2>7. h \in Seq(Nat) /\ Len(h) = 5 /\ (\A x \in 1..4 : h[x] = u[x]) /\ h[5] = n
    <3>1. 1 \in 1..Len(w) /\ Len(u) + 1 = 5
      BY ONLY <2>1, <2>2
    <3>2. (u \o w)[5] = w[1]
      BY ONLY <2>6, <3>1
    <3>3. /\ h \in Seq(Nat) /\ Len(h) = Len(u) + Len(w)
          /\ \A x \in 1..Len(u) : h[x] = u[x]
          /\ h[5] = w[1]
      BY ONLY <2>4, <2>6, <3>2
    <3>4. Len(u) = 4 /\ Len(w) = 1 /\ w[1] = n
      BY ONLY <2>1, <2>2
    <3> QED
      BY ONLY <3>3, <3>4
  <2>8. Len(h) = Len(t) /\ \A x \in 1..Len(h) : h[x] = t[x]
    <3>1. \A x \in 1..5 : x = 1 \/ x = 2 \/ x = 3 \/ x = 4 \/ x = 5
      OBVIOUS
    <3>2. 1 \in 1..4 /\ 2 \in 1..4 /\ 3 \in 1..4 /\ 4 \in 1..4
      OBVIOUS
    <3> QED
      BY ONLY <2>1, <2>3, <2>7, <3>1, <3>2
  <2>9. h = t
    BY ONLY <2>3, <2>7, <2>8, SeqEqual
  <2> QED
    BY <2>9 DEF t
<1> HIDE DEF n, m
<1>3. h \in Seq(Nat) /\ Len(h) = 5
  <2> HIDE DEF h
  <2> QED
    BY ONLY <1>1, <1>2
<1>4. h[1] = 79 /\ h[2] = 103 /\ h[3] = 103 /\ h[4] = 83 /\ h[5] = n
  <2> HIDE DEF h
  <2> QED
    BY ONLY <1>2
<1> HIDE DEF h
<1>100. laces \in Seq(Nat) /\ body \in Seq(Nat) /\ g = h \o laces
  OBVIOUS
<1> HIDE DEF g
<1>5. /\ g \in Seq(Nat) /\ Len(g) = Len(h) + Len(laces)
      /\ \A x \in 1..Len(h) : g[x] = h[x]
      /\ \A x \in 1..Len(laces) : g[Len(h) + x] = laces[x]
  <2>1. h \in Seq(Nat) /\ laces \in Seq(Nat)
    BY ONLY <1>3, <1>100
  <2>2. /\ h \o laces \in Seq(Nat) /\ Len(h \o laces) = Len(h) + Len(laces)
        /\ \A x \in 1..Len(h) : (h \o laces)[x] = h[x]
        /\ \A x \in 1..Len(laces) : (h \o laces)[Len(h) + x] = laces[x]
    BY ONLY <2>1, JoinIs
  <2> QED
    BY ONLY <2>2, <1>100
<1>6. bytes = g \o body
  BY DEF h, n, g, OggPage
<1>7. /\ bytes \in Seq(Nat) /\ Len(bytes) = Len(g) + Len(body)
      /\ \A x \in 1..Len(g) : bytes[x] = g[x]
      /\ \A x \in 1..Len(body) : bytes[Len(g) + x] = body[x]
  BY ONLY <1>5, <1>6, <1>100, JoinIs
<1>8. Len(g) = 5 + n /\ Len(bytes) = 5 + n + m
  BY <1>3, <1>5, <1>7 DEF n, m
<1>9. \A x \in 1..5 : bytes[x] = h[x]
  <2> TAKE x \in 1..5
  <2>1. x \in 1..Len(g) /\ x \in 1..Len(h)
    BY <1>1, <1>3, <1>8
  <2> QED
    BY <1>5, <1>7, <2>1
<1>10. \A x \in 1..n : bytes[5 + x] = laces[x]
  <2> TAKE x \in 1..n
  <2>1. 5 + x \in 1..Len(g) /\ x \in 1..Len(laces)
    BY <1>1, <1>8 DEF n
  <2>2. g[5 + x] = laces[x]
    BY <1>3, <1>5, <2>1
  <2> QED
    BY <1>7, <2>1, <2>2
<1>11. \A x \in 1..m : bytes[5 + n + x] = body[x]
  BY <1>7, <1>8 DEF m
<1>12. /\ bytes[1] = h[1] /\ bytes[2] = h[2] /\ bytes[3] = h[3] /\ bytes[4] = h[4] /\ bytes[5] = h[5]
  <2>1. 1 \in 1..5 /\ 2 \in 1..5 /\ 3 \in 1..5 /\ 4 \in 1..5 /\ 5 \in 1..5
    OBVIOUS
  <2> QED
    BY <1>9, <2>1
<1> QED
  BY <1>4, <1>7, <1>8, <1>10, <1>11, <1>12 DEF n, m, IsPage

\* OggPackets finds a page where it lies as soon as it is there, and not before.
LEMMA OggPart ==
  ASSUME NEW b \in Seq(Nat), NEW at \in Nat, at <= Len(b), NEW part \in Seq(Seq(Nat)),
         NEW laces, laces = FlattenSeq(PageLaces(part)), NEW body, body = FlattenSeq(part),
         NEW bytes, bytes = OggPage(laces, body),
         \A x \in 1..Len(bytes) : at + x <= Len(b) => b[at + x] = bytes[x]
  PROVE  IF at + Len(bytes) <= Len(b)
         THEN OggFound(b)[at + 1] = Goes(part, at + Len(bytes) + 1)
         ELSE OggFound(b)[at + 1] = Stops(at + 1)
<1> DEFINE n == Len(b)
           i == at + 1
           p == Len(laces)
           q == Len(body)
           v == Len(bytes)
           h == HeaderAt(b, i)
           t == LacesAt(b, i)
           z == SizeAt(b, i)
           P == PagesFrom(b, i)
<1>1. /\ laces \in Seq(Nat) /\ body \in Seq(Nat)
      /\ UpTo(laces)[p] = q /\ Packets(laces, body) = part
  BY PacketsAre
<1>2. n \in Nat /\ p \in Nat /\ q \in Nat /\ i \in 1..n + 1
  BY <1>1
<1>3. /\ v = 5 + p + q
      /\ bytes[1] = 79 /\ bytes[2] = 103 /\ bytes[3] = 103 /\ bytes[4] = 83 /\ bytes[5] = p
      /\ \A x \in 1..p : bytes[5 + x] = laces[x]
      /\ \A x \in 1..q : bytes[5 + p + x] = body[x]
  <2>1. laces \in Seq(Nat) /\ body \in Seq(Nat) /\ bytes = OggPage(laces, body)
    BY <1>1
  <2> QED
    <3>1. IsPage(bytes, laces, body)
      BY ONLY <2>1, PageIs
    <3> QED
      BY <3>1 DEF p, q, v, IsPage
<1>4. OggFound(b)[i] =
        IF n < i + 4 THEN Stops(i)
        ELSE IF P = {} THEN Stops(n - 2)
        ELSE IF i \notin P THEN Goes(<<>>, Min(P))
        ELSE IF n < h \/ n < z THEN Stops(i)
        ELSE Goes(Packets(t, SubSeq(b, h + 1, z)), z + 1)
  BY <1>2, OggFoundIs
<1>5. \A x \in 1..v : at + x <= n => b[at + x] = bytes[x]
  OBVIOUS
<1> HIDE DEF n, p, q, v, P, t, z, h
<1>6. CASE n < i + 4
  <2>1. ~(at + v <= n)
    BY <1>2, <1>3, <1>6
  <2> QED
    BY <1>4, <1>6, <2>1 DEF n, v
<1>7. CASE ~(n < i + 4)
  <2>1. i \in P
    <3>1. b[at + 1] = bytes[1] /\ b[at + 2] = bytes[2] /\ b[at + 3] = bytes[3] /\ b[at + 4] = bytes[4]
      <4>1. \A x \in 1..5 : x \in 1..v /\ at + x <= n
        BY <1>2, <1>3, <1>7
      <4>2. 1 \in 1..5 /\ 2 \in 1..5 /\ 3 \in 1..5 /\ 4 \in 1..5
        OBVIOUS
      <4> QED
        BY <1>5, <4>1, <4>2
    <3>2. SubSeq(b, i, i + 3) = <<b[i], b[i + 1], b[i + 2], b[i + 3]>>
      <4>1. i + 3 <= Len(b) /\ i >= 1 /\ Len(b) \in Nat
        BY <1>2, <1>7 DEF n
      <4> DEFINE w == SubSeq(b, at + 1, at + 4)
                 t4 == <<b[i], b[i + 1], b[i + 2], b[i + 3]>>
      <4>2. at + 4 \in at..Len(b) /\ at \in Nat /\ b \in Seq(Nat) /\ at + 4 - at = 4
        BY <1>2, <4>1
      <4>3. w \in Seq(Nat) /\ Len(w) = at + 4 - at /\ \A x \in 1..at + 4 - at : w[x] = b[at + x]
        BY ONLY <4>2, WindowOf
      <4>4. t4 \in Seq(Nat) /\ Len(t4) = 4 /\ t4[1] = b[at + 1] /\ t4[2] = b[at + 2] /\ t4[3] = b[at + 3] /\ t4[4] = b[at + 4]
        <5>1. i \in 1..Len(b) /\ i + 1 \in 1..Len(b) /\ i + 2 \in 1..Len(b) /\ i + 3 \in 1..Len(b)
          BY <1>2, <4>1
        <5>2. i + 1 = at + 2 /\ i + 2 = at + 3 /\ i + 3 = at + 4
          OBVIOUS
        <5>3. b[i] \in Nat /\ b[i + 1] \in Nat /\ b[i + 2] \in Nat /\ b[i + 3] \in Nat
          <6>1. \A x \in 1..Len(b) : b[x] \in Nat
            BY ONLY b \in Seq(Nat)
          <6> QED
            BY ONLY <5>1, <6>1
        <5> DEFINE e1 == b[i]
                   e2 == b[i + 1]
                   e3 == b[i + 2]
                   e4 == b[i + 3]
        <5>4. t4 = <<e1, e2, e3, e4>>
          OBVIOUS
        <5>5. e1 = b[at + 1] /\ e2 = b[at + 2] /\ e3 = b[at + 3] /\ e4 = b[at + 4]
          BY <5>2
        <5>6. e1 \in Nat /\ e2 \in Nat /\ e3 \in Nat /\ e4 \in Nat
          BY <5>3
        <5> HIDE DEF e1, e2, e3, e4, t4
        <5>7. <<e1, e2, e3, e4>> \in Seq(Nat) /\ Len(<<e1, e2, e3, e4>>) = 4
          BY ONLY <5>6
        <5>8. /\ <<e1, e2, e3, e4>>[1] = e1 /\ <<e1, e2, e3, e4>>[2] = e2
              /\ <<e1, e2, e3, e4>>[3] = e3 /\ <<e1, e2, e3, e4>>[4] = e4
          BY ONLY <5>6
        <5> QED
          BY ONLY <5>4, <5>5, <5>7, <5>8
      <4>5. Len(w) = Len(t4) /\ \A x \in 1..Len(w) : w[x] = t4[x]
        <5>1. \A x \in 1..4 : x = 1 \/ x = 2 \/ x = 3 \/ x = 4
          OBVIOUS
        <5> HIDE DEF w, t4
        <5> QED
          BY ONLY <4>2, <4>3, <4>4, <5>1
      <4>6. w = t4
        <5> HIDE DEF w, t4
        <5> QED
          BY ONLY <4>3, <4>4, <4>5, SeqEqual
      <4>7. w = SubSeq(b, i, i + 3)
        <5> DEFINE Between(x, y) == SubSeq(b, x, y)
        <5>1. i + 3 = at + 4 /\ i = at + 1
          OBVIOUS
        <5> HIDE DEF i, Between
        <5>2. Between(at + 1, at + 4) = Between(i, i + 3)
          BY ONLY <5>1
        <5> QED
          BY ONLY <5>2 DEF w, Between
      <4> QED
        BY <4>6, <4>7
    <3>3. SubSeq(b, i, i + 3) = Page
      <4> DEFINE e1 == b[i]
                 e2 == b[i + 1]
                 e3 == b[i + 2]
                 e4 == b[i + 3]
      <4>1. e1 = b[at + 1] /\ e2 = b[at + 2] /\ e3 = b[at + 3] /\ e4 = b[at + 4]
        <5>1. i + 1 = at + 2 /\ i + 2 = at + 3 /\ i + 3 = at + 4
          OBVIOUS
        <5> QED
          BY <5>1
      <4>2. SubSeq(b, i, i + 3) = <<e1, e2, e3, e4>>
        BY <3>2
      <4> HIDE DEF e1, e2, e3, e4
      <4>3. e1 = 79 /\ e2 = 103 /\ e3 = 103 /\ e4 = 83
        BY ONLY <1>3, <3>1, <4>1
      <4> QED
        BY ONLY <4>2, <4>3 DEF Page
    <3>4. i \in 1..Len(b) - 3
      BY <1>2, <1>7 DEF n
    <3> QED
      BY <3>3, <3>4 DEF P, PagesFrom, Pages
  <2>2. h = i + 4 + p
    <3>1. b[at + 5] = bytes[5]
      <4>1. 5 \in 1..v /\ at + 5 <= n
        BY <1>2, <1>3, <1>7
      <4> QED
        BY <1>5, <4>1
    <3>2. at + 5 = i + 4
      OBVIOUS
    <3> QED
      BY <1>3, <3>1, <3>2 DEF h, HeaderAt
  <2>3. OggFound(b)[i] =
          IF n < h \/ n < z THEN Stops(i)
          ELSE Goes(Packets(t, SubSeq(b, h + 1, z)), z + 1)
    BY <1>4, <1>7, <2>1
  <2>4. CASE n < h
    <3>1. ~(at + v <= n)
      BY <1>2, <1>3, <2>2, <2>4
    <3> QED
      BY <2>3, <2>4, <3>1 DEF n, v
  <2>5. CASE ~(n < h)
    <3>1. t = laces
      <4>1. i + 4 \in Nat /\ h \in i + 4..Len(b) /\ (i + 4) + 1 = i + 5 /\ h - (i + 4) = p
        BY <1>2, <2>2, <2>5 DEF n
      <4> DEFINE a == i + 4
                 w == SubSeq(b, a + 1, h)
      <4>2. w \in Seq(Nat) /\ Len(w) = h - a /\ \A x \in 1..h - a : w[x] = b[a + x]
        <5> HIDE DEF a
        <5>1. a \in Nat /\ h \in a..Len(b)
          BY <4>1 DEF a
        <5> QED
          BY ONLY b \in Seq(Nat), <5>1, WindowOf
      <4>3. \A x \in 1..p : b[a + x] = laces[x]
        <5> TAKE x \in 1..p
        <5> DEFINE y == 5 + x
        <5>1. y \in 1..v /\ at + y <= n /\ at + y = a + x
          BY <1>2, <1>3, <2>2, <2>5
        <5>2. bytes[y] = laces[x]
          BY <1>3
        <5> HIDE DEF y
        <5>3. b[at + y] = bytes[y]
          BY ONLY <1>5, <5>1
        <5> QED
          BY ONLY <5>1, <5>2, <5>3
      <4>4. t = w
        BY <4>1 DEF t, LacesAt, h
      <4> HIDE DEF a, w
      <4>5. Len(w) = Len(laces) /\ \A x \in 1..Len(w) : w[x] = laces[x]
        BY <4>1, <4>2, <4>3 DEF p, a
      <4> QED
        BY <1>1, <4>2, <4>4, <4>5, SeqEqual
    <3>2. z = h + q
      BY <1>1, <3>1 DEF z, t, SizeAt, h, p
    <3>3. z = at + v /\ z + 1 = at + v + 1
      BY <1>2, <1>3, <2>2, <3>2
    <3>4. CASE n < z
      BY <1>2, <1>3, <2>3, <3>3, <3>4 DEF n, v
    <3>5. CASE ~(n < z)
      <4>1. SubSeq(b, h + 1, z) = body
        <5> DEFINE w == SubSeq(b, h + 1, z)
        <5>1. h \in Nat /\ z \in h..Len(b) /\ z - h = q
          BY <1>2, <2>2, <3>2, <3>5 DEF n
        <5>2. w \in Seq(Nat) /\ Len(w) = z - h /\ \A x \in 1..z - h : w[x] = b[h + x]
          BY ONLY b \in Seq(Nat), <5>1, WindowOf
        <5>3. \A x \in 1..q : b[h + x] = body[x]
          <6> TAKE x \in 1..q
          <6> DEFINE y == 5 + p + x
          <6>1. y \in 1..v /\ at + y <= n /\ at + y = h + x
            BY <1>2, <1>3, <2>2, <3>2, <3>3, <3>5
          <6>2. bytes[y] = body[x]
            BY <1>3
          <6> HIDE DEF y
          <6>3. b[at + y] = bytes[y]
            BY ONLY <1>5, <6>1
          <6> QED
            BY ONLY <6>1, <6>2, <6>3
        <5> HIDE DEF w
        <5>4. Len(w) = Len(body) /\ \A x \in 1..Len(w) : w[x] = body[x]
          BY <5>1, <5>2, <5>3 DEF q
        <5>5. w = body
          BY ONLY <1>1, <5>2, <5>4, SeqEqual
        <5> QED
          BY <5>5 DEF w
      <4>2. OggFound(b)[i] = Goes(part, at + v + 1)
        BY <1>1, <2>3, <2>5, <3>1, <3>3, <3>5, <4>1
      <4>3. at + v <= n
        BY <1>2, <1>3, <3>3, <3>5
      <4> QED
        BY <4>2, <4>3 DEF n, v
    <3> QED
      BY <3>4, <3>5
  <2> QED
    BY <2>4, <2>5
<1> QED
  BY <1>6, <1>7

\* An Ogg stream, its pages, and what is returned of them.
LEMMA OggStream ==
  ASSUME NEW s \in Streams, s.format = "ogg"
  PROVE  /\ IsStream(s) /\ s.parts \in Seq(Seq(Seq(Nat)))
         /\ \A k \in 1..Len(s.parts) :
              /\ s.parts[k] \in Seq(Seq(Nat))
              /\ Bytes(s.format, s.parts[k])
                   = OggPage(FlattenSeq(PageLaces(s.parts[k])), FlattenSeq(s.parts[k]))
              /\ Returned(s)[k] = s.parts[k]
         /\ Returned(s) = s.parts
         /\ Returned(s) \in Seq(Seq(Seq(Nat))) /\ Len(Returned(s)) = Len(s.parts)
<1>1. s \in [format : {"ogg"}, parts : Seq(Seq(Seq(Nat)))]
  BY StreamsAssumption DEF H26x
<1> DEFINE n == Len(s.parts)
<1>2. n \in Nat /\ DOMAIN s.parts = 1..n
  BY <1>1
<1>3. \A k \in 1..n : s.parts[k] \in Seq(Seq(Nat))
  BY <1>1
<1> HIDE DEF n
<1>4. \A k \in 1..n : Bytes(s.format, s.parts[k])
                        = OggPage(FlattenSeq(PageLaces(s.parts[k])), FlattenSeq(s.parts[k]))
  BY DEF Bytes, H26x, OggPage, PageLaces
<1>5. ASSUME NEW p \in Seq(Seq(Nat))
      PROVE  /\ OggPage(FlattenSeq(PageLaces(p)), FlattenSeq(p)) \in Seq(Nat)
             /\ Len(OggPage(FlattenSeq(PageLaces(p)), FlattenSeq(p))) > 0
  <2> DEFINE laces == FlattenSeq(PageLaces(p))
             body == FlattenSeq(p)
             bytes == OggPage(laces, body)
  <2>1. laces \in Seq(Nat) /\ body \in Seq(Nat) /\ bytes = OggPage(laces, body)
    BY PacketsAre
  <2> HIDE DEF laces, body, bytes
  <2>2. IsPage(bytes, laces, body)
    BY ONLY <2>1, PageIs
  <2>3. Len(laces) \in Nat /\ Len(body) \in Nat
    BY <2>1
  <2>4. bytes \in Seq(Nat) /\ Len(bytes) > 0
    BY ONLY <2>2, <2>3 DEF IsPage
  <2> QED
    BY <2>4 DEF bytes, laces, body
<1>6. IsStream(s)
  <2>1. \A k \in 1..n : Bytes(s.format, s.parts[k]) \in Seq(Nat) /\ Len(Bytes(s.format, s.parts[k])) > 0
    BY <1>3, <1>4, <1>5
  <2>2. Encoded(s) \in Seq(Seq(Nat))
    BY <1>2, <2>1 DEF Encoded
  <2> QED
    BY <1>2, <2>1, <2>2 DEF IsStream, n
<1>7. \A k \in 1..n : Returned(s)[k] = s.parts[k]
  BY <1>2 DEF Returned
<1>8. Returned(s) = s.parts
  <2>1. Returned(s) = [k \in 1..n |-> s.parts[k]]
    BY <1>2 DEF Returned
  <2>2. s.parts \in Seq(Seq(Seq(Nat)))
    BY <1>1
  <2>3. s.parts = [k \in 1..n |-> s.parts[k]]
    BY <1>2, <2>2
  <2> QED
    BY <2>1, <2>3
<1> QED
  BY <1>1, <1>3, <1>4, <1>6, <1>7, <1>8 DEF n

\* From what is unused, the loop of OggOpusDemux::push takes the packets of the pages that
\* are read.
LEMMA OggTakes ==
  ASSUME NEW s \in Streams, s.format = "ogg",
         NEW k \in 0..Len(s.parts), NEW g \in Ends(s, k)..Len(AllBytes(s)),
         NEW j \in k..Len(s.parts), AreRead(s, j, g)
  PROVE  OggPackets(Unused(s, k, g)) =
           [rest |-> Unused(s, j, g), out |-> Rest(Returned(s), k, j), hung |-> FALSE]
<1> DEFINE b == Unused(s, k, g)
           found == OggFound(b)
           at(m) == Ends(s, m) - Ends(s, k)
<1>1. /\ IsStream(s) /\ Returned(s) \in Seq(Seq(Seq(Nat))) /\ Len(Returned(s)) = Len(s.parts)
      /\ Len(s.parts) \in Nat
  BY OggStream DEF IsStream
<1>2. b \in Seq(Nat) /\ Len(b) \in Nat /\ Len(b) = g - Ends(s, k) /\ g \in Nat
  <2>1. Ends(s, k) \in Nat
    BY <1>1, StreamHolds DEF IsStream
  <2> QED
    BY <1>1, <2>1, UnusedIs
<1>3. Forward(b, found) /\ OggPackets(b) = Taken(b, found)
  BY <1>2, OggForward
<1>4. found[Len(b) + 1] = Stops(Len(b) + 1)
  <2> DEFINE n == Len(b)
             i == n + 1
  <2>1. i \in 1..n + 1 /\ n < i + 4
    BY <1>2
  <2> HIDE DEF b, i
  <2>2. OggFound(b)[i] = Stops(i)
    BY <2>1, OggFoundIs
  <2> QED
    BY <2>2 DEF i
<1>5. ASSUME NEW m \in k..Len(s.parts) - 1, Ends(s, m) <= g
      PROVE  /\ at(m) + 1 \in 1..Len(b) + 1
             /\ IF Ends(s, m + 1) <= g
                THEN found[at(m) + 1] = Goes(Returned(s)[m + 1], at(m + 1) + 1)
                ELSE found[at(m) + 1] = Stops(at(m) + 1)
  <2> DEFINE d == s.parts[m + 1]
             bytes == Bytes(s.format, s.parts[m + 1])
             a == at(m)
  <2>1. m + 1 \in 1..Len(s.parts) /\ m \in k..Len(s.parts) /\ m \in 0..Len(s.parts)
    BY <1>1
  <2>2. d \in Seq(Seq(Nat)) /\ bytes = OggPage(FlattenSeq(PageLaces(d)), FlattenSeq(d)) /\ Returned(s)[m + 1] = d
    BY <2>1, OggStream
  <2>3. /\ a \in Nat /\ at(m + 1) = a + Len(bytes)
        /\ Ends(s, m + 1) <= g <=> a + Len(bytes) <= Len(b)
        /\ \A x \in 1..Len(bytes) : a + x <= Len(b) => b[a + x] = bytes[x]
    <3>1. a = Ends(s, m) - Ends(s, k) /\ bytes = Bytes(s.format, s.parts[m + 1])
      OBVIOUS
    <3>2. /\ k \in 0..Len(s.parts) /\ g \in Ends(s, k)..Len(AllBytes(s)) /\ m \in k..Len(s.parts) - 1
          /\ IsStream(s)
      BY <1>1
    <3> HIDE DEF a, bytes
    <3>3. IsPart(s, k, g, m, a, bytes)
      BY ONLY <3>1, <3>2, PartAt
    <3> QED
      BY ONLY <3>3 DEF IsPart
  <2>4. a <= Len(b) /\ a + 1 \in 1..Len(b) + 1
    <3>1. a + 1 \in 1..Len(b) + 1
      BY <1>1, <1>5, <2>1, UnusedIs
    <3> HIDE DEF a, b
    <3> QED
      BY <1>2, <2>3, <3>1
  <2> DEFINE laces == FlattenSeq(PageLaces(d))
             body == FlattenSeq(d)
  <2>5. IF a + Len(bytes) <= Len(b)
        THEN OggFound(b)[a + 1] = Goes(d, a + Len(bytes) + 1)
        ELSE OggFound(b)[a + 1] = Stops(a + 1)
    <3>1. /\ b \in Seq(Nat) /\ a \in Nat /\ a <= Len(b) /\ d \in Seq(Seq(Nat))
          /\ laces = FlattenSeq(PageLaces(d)) /\ body = FlattenSeq(d)
          /\ bytes = OggPage(laces, body)
          /\ \A x \in 1..Len(bytes) : a + x <= Len(b) => b[a + x] = bytes[x]
      BY <1>2, <2>2, <2>3, <2>4
    <3> HIDE DEF d, bytes, b, a, laces, body
    <3> QED
      BY ONLY <3>1, OggPart
  <2> HIDE DEF d, bytes, b, a, laces, body
  <2> QED
    BY <2>2, <2>3, <2>4, <2>5 DEF a
<1>6. Finds(s, k, g, Returned(s), found)
  <2>1. found[Len(b) + 1].more = FALSE
    BY <1>4 DEF Stops
  <2>2. ASSUME NEW m \in k..Len(s.parts) - 1, Ends(s, m) <= g, ~(Ends(s, m + 1) <= g)
        PROVE  found[at(m) + 1].more = FALSE
    <3>1. found[at(m) + 1] = Stops(at(m) + 1)
      BY <1>5, <2>2
    <3> QED
      BY <3>1 DEF Stops
  <2> QED
    BY <1>3, <1>5, <2>1, <2>2 DEF Finds
<1>8. found[at(j) + 1] = Stops(at(j) + 1)
  <2>1. CASE j < Len(s.parts)
    <3>1. j \in k..Len(s.parts) - 1 /\ Ends(s, j) <= g /\ ~(Ends(s, j + 1) <= g)
      <4>1. j + 1 \in 0..Len(s.parts) /\ j \in k..Len(s.parts) - 1
        BY <1>1, <2>1
      <4>2. Ends(s, j + 1) \in Nat /\ Ends(s, j) <= g /\ g < Ends(s, j + 1)
        BY <1>1, <2>1, <4>1, StreamHolds DEF IsStream, AreRead
      <4> QED
        BY <1>2, <4>1, <4>2
    <3> HIDE DEF found, at
    <3> QED
      BY <1>5, <3>1
  <2>2. CASE j = Len(s.parts)
    <3>1. Ends(s, j) = Len(AllBytes(s)) /\ Ends(s, j) \in Nat /\ Ends(s, k) \in Nat
      BY <1>1, <2>2, StreamHolds DEF IsStream
    <3>2. Ends(s, j) <= g /\ g <= Len(AllBytes(s))
      BY <3>1 DEF AreRead
    <3>3. at(j) = Len(b)
      BY <1>2, <3>1, <3>2
    <3> HIDE DEF found, at, b
    <3> QED
      BY <1>4, <3>3
  <2> QED
    BY <1>1, <2>1, <2>2
<1> HIDE DEF b, found
<1>7. Taken(b, found) = [rest |-> From(b, found[at(j) + 1].next), out |-> Rest(Returned(s), k, j), hung |-> FALSE]
  BY <1>1, <1>6, PartsFound DEF b
<1>9. From(b, at(j) + 1) = Unused(s, j, g)
  BY <1>1, UnusedIs DEF AreRead, b
<1>10. found[at(j) + 1].next = at(j) + 1
  BY <1>8 DEF Stops
<1> QED
  BY <1>3, <1>7, <1>9, <1>10 DEF b

-----------------------------------------------------------------------------
(* What is returned, and what was meant.                                   *)

\* What is after the first i - 1.
LEMMA FromIs ==
  ASSUME NEW T, NEW b \in Seq(T), NEW i \in Nat \ {0}
  PROVE  /\ From(b, i) \in Seq(T)
         /\ i <= Len(b) + 1 => Len(From(b, i)) = Len(b) + 1 - i
         /\ i > Len(b) => From(b, i) = <<>>
         /\ \A x \in 1..Len(b) + 1 - i : From(b, i)[x] = b[i - 1 + x]
         /\ From(b, 1) = b
<1> DEFINE n == Len(b)
<1>1. n \in Nat /\ DOMAIN b = 1..n
  OBVIOUS
<1>2. From(b, i) = SubSeq(b, i, n)
  BY DEF From
<1>3. SubSeq(b, 1, n) = b
  BY SubSeqFull
<1>4. From(b, 1) = b
  BY <1>3 DEF From
<1>5. CASE i > n
  <2>1. SubSeq(b, i, n) = <<>>
    BY <1>1, <1>5, SubSeqEmpty
  <2>2. n + 1 - i \in Int /\ n + 1 - i < 1
    BY <1>1, <1>5
  <2>3. i <= n + 1 => n + 1 - i = 0
    BY <1>1, <1>5
  <2> QED
    BY <1>2, <1>4, <1>5, <2>1, <2>2, <2>3
<1>6. CASE i <= n
  <2>1. i \in 1..n /\ n \in i - 1..n /\ i \in 1..n + 1
    BY <1>1, <1>6
  <2> HIDE DEF n
  <2>2. SubSeq(b, i, n) \in Seq(T) /\ Len(SubSeq(b, i, n)) = n - i + 1
    BY <1>1, <2>1 DEF n
  <2>3. \A x \in 1..n + 1 - i : SubSeq(b, i, n)[x] = b[i - 1 + x]
    BY <1>1, <2>1 DEF n
  <2>4. n - i + 1 = n + 1 - i /\ ~(i > n)
    BY <1>1, <2>1
  <2> QED
    BY <1>2, <1>4, <2>2, <2>3, <2>4 DEF n
<1> QED
  BY <1>1, <1>5, <1>6

\* The lesser of two numbers.
LEMMA MinOfTwo ==
  ASSUME NEW a \in Nat, NEW c \in Nat
  PROVE  Min({a, c}) = IF a <= c THEN a ELSE c
<1> DEFINE S == {a, c}
<1>1. S \in SUBSET Nat
  OBVIOUS
<1>2. CASE a <= c
  <2>1. a \in S /\ \A x \in S : a <= x
    BY <1>2
  <2> HIDE DEF S
  <2>2. Min(S) = a
    BY <1>1, <2>1, LeastIs
  <2> QED
    BY <1>2, <2>2 DEF S
<1>3. CASE ~(a <= c)
  <2>1. c \in S /\ \A x \in S : c <= x
    BY <1>3
  <2> HIDE DEF S
  <2>2. Min(S) = c
    BY <1>1, <2>1, LeastIs
  <2> QED
    BY <1>3, <2>2 DEF S
<1> QED
  BY <1>2, <1>3

\* The first k of parts that each return one.
LEMMA OneEach ==
  ASSUME NEW T, NEW ss \in Seq(Seq(T)), NEW h \in [1..Len(ss) -> T],
         \A i \in 1..Len(ss) : ss[i] = <<h[i]>>, NEW k \in 0..Len(ss)
  PROVE  Flat(ss, k) = [i \in 1..k |-> h[i]]
<1> DEFINE n == Len(ss)
           I == {m \in Nat : m <= n => Flat(ss, m) = [i \in 1..m |-> h[i]]}
<1>1. n \in Nat
  OBVIOUS
<1>10. \A i \in 1..n : h[i] \in T
  OBVIOUS
<1>11. k \in Nat /\ k <= n
  OBVIOUS
<1> HIDE DEF n
<1>2. 0 \in I
  <2>1. Flat(ss, 0) = <<>>
    BY FlatSteps
  <2>2. [i \in 1..0 |-> h[i]] = <<>>
    OBVIOUS
  <2> QED
    BY <2>1, <2>2
<1>3. ASSUME NEW m \in I PROVE m + 1 \in I
  <2> SUFFICES ASSUME m + 1 <= n PROVE Flat(ss, m + 1) = [i \in 1..m + 1 |-> h[i]]
    OBVIOUS
  <2>1. m \in Nat /\ m \in 0..n - 1 /\ m + 1 \in 1..n /\ m <= n
    BY <1>1
  <2>2. Flat(ss, m + 1) = Flat(ss, m) \o ss[m + 1]
    BY <2>1, FlatSteps DEF n
  <2>3. Flat(ss, m) = [i \in 1..m |-> h[i]]
    BY <2>1
  <2>4. ss[m + 1] = <<h[m + 1]>> /\ h[m + 1] \in T
    BY <2>1 DEF n
  <2> DEFINE a == [i \in 1..m |-> h[i]]
             c == <<h[m + 1]>>
             w == [i \in 1..m + 1 |-> h[i]]
  <2>5. a \in Seq(T) /\ Len(a) = m /\ \A i \in 1..m : a[i] = h[i]
    <3>1. \A i \in 1..m : i \in 1..n /\ h[i] \in T
      <4>1. \A i \in 1..m : i \in 1..n
        BY ONLY <1>1, <2>1
      <4> QED
        BY <1>10, <4>1
    <3> QED
      BY <2>1, <3>1
  <2>6. c \in Seq(T) /\ Len(c) = 1 /\ c[1] = h[m + 1]
    BY <2>4
  <2>7. w \in Seq(T) /\ Len(w) = m + 1 /\ \A i \in 1..m + 1 : w[i] = h[i]
    <3>1. \A i \in 1..m + 1 : i \in 1..n /\ h[i] \in T
      <4>1. \A i \in 1..m + 1 : i \in 1..n
        BY ONLY <1>1, <2>1
      <4> QED
        BY <1>10, <4>1
    <3> QED
      BY <2>1, <3>1
  <2> HIDE DEF a, c, w
  <2>8. /\ a \o c \in Seq(T) /\ Len(a \o c) = Len(a) + Len(c)
        /\ \A x \in 1..Len(a) : (a \o c)[x] = a[x]
        /\ \A x \in 1..Len(c) : (a \o c)[Len(a) + x] = c[x]
    <3>1. a \in Seq(T) /\ c \in Seq(T)
      BY ONLY <2>5, <2>6
    <3> QED
      BY ONLY <3>1, JoinIs
  <2> DEFINE v == a \o c
  <2>9. /\ v \in Seq(T) /\ Len(v) = m + 1
        /\ \A x \in 1..m : v[x] = h[x]
        /\ v[m + 1] = h[m + 1]
    <3>1. 1 \in 1..Len(c)
      BY <2>6
    <3> QED
      BY ONLY <2>1, <2>5, <2>6, <2>8, <3>1
  <2> HIDE DEF v
  <2>10. Len(v) = Len(w) /\ \A x \in 1..Len(v) : v[x] = w[x]
    <3>1. \A x \in 1..m + 1 : x \in 1..m \/ x = m + 1
      BY <2>1
    <3> QED
      BY ONLY <2>1, <2>7, <2>9, <3>1
  <2>11. v = w
    BY ONLY <2>7, <2>9, <2>10, SeqEqual
  <2> QED
    BY <2>2, <2>3, <2>4, <2>11 DEF a, c, v, w
<1>4. I = Nat
  <2>1. I \in SUBSET Nat
    OBVIOUS
  <2> HIDE DEF I
  <2> QED
    BY <1>2, <1>3, <2>1, Induction
<1> QED
  <2>1. k \in I
    BY <1>4, <1>11
  <2> QED
    BY <1>11, <2>1

\* The first k of a sequence.
FirstOf(t, k) == [i \in 1..k |-> t[i]]

\* They are a prefix of it.
LEMMA PrefixOf ==
  ASSUME NEW n \in Nat, NEW k \in 0..n, NEW t, t = FirstOf(t, n)
  PROVE  IsPrefix(FirstOf(t, k), t)
<1> DEFINE g == FirstOf(t, k)
<1>0. t = [i \in 1..n |-> t[i]] /\ g = [i \in 1..k |-> t[i]]
  BY DEF FirstOf
<1>00. Len(t) = n /\ DOMAIN t = 1..n
  <2>1. DOMAIN t = 1..n
    BY <1>0
  <2> QED
    BY <2>1
<1> HIDE DEF g
<1>1. k \in Nat /\ Len(g) = k /\ k <= n
  BY <1>0
<1>2. SubSeq(g, 1, k) = [i \in 1..k |-> t[i]]
  BY <1>0, <1>1
<1>3. SubSeq(t, 1, k) = [i \in 1..k |-> t[i]]
  BY <1>00, <1>1
<1> QED
  BY <1>00, <1>1, <1>2, <1>3 DEF IsPrefix, g

\* So is a sequence of what goes on after it.
LEMMA PrefixJoins ==
  ASSUME NEW T, NEW a \in Seq(T), NEW c \in Seq(T)
  PROVE  IsPrefix(a, a \o c)
<1> DEFINE n == Len(a)
           m == Len(c)
           w == a \o c
<1>1. /\ w \in Seq(T) /\ Len(w) = n + m /\ n \in Nat /\ m \in Nat
      /\ \A x \in 1..n : w[x] = a[x]
  BY JoinIs
<1>2. SubSeq(a, 1, n) = a
  BY SubSeqFull
<1> HIDE DEF w
<1>3. n \in 0..Len(w)
  BY <1>1
<1>4. SubSeq(w, 1, n) \in Seq(T) /\ Len(SubSeq(w, 1, n)) = n /\ \A x \in 1..n : SubSeq(w, 1, n)[x] = w[x]
  <2> HIDE DEF n
  <2> QED
    BY <1>1, <1>3
<1> DEFINE v == SubSeq(w, 1, n)
<1>5. v = a
  <2>1. Len(v) = Len(a) /\ \A x \in 1..Len(v) : v[x] = a[x]
    BY <1>1, <1>4
  <2> HIDE DEF v
  <2> QED
    BY <1>4, <2>1, SeqEqual DEF v
<1> QED
  BY <1>1, <1>2, <1>5 DEF IsPrefix, w

-----------------------------------------------------------------------------
(* The parsers, read by read.                                              *)

\* When n more bytes are read, they are behind what is unused.
LEMMA ReadsOn ==
  ASSUME NEW s, IsStream(s), NEW k \in 0..Len(s.parts), NEW g \in Ends(s, k)..Len(AllBytes(s)),
         NEW n \in Nat, g + n <= Len(AllBytes(s))
  PROVE  /\ Unused(s, k, g) \o SubSeq(AllBytes(s), g + 1, g + n) = Unused(s, k, g + n)
         /\ g + n \in Ends(s, k)..Len(AllBytes(s))
         /\ \E j \in k..Len(s.parts) : AreRead(s, j, g + n)
<1> DEFINE W == AllBytes(s)
           a == Ends(s, k)
<1>1. W \in Seq(Nat) /\ a \in Nat /\ Len(W) \in Nat
  BY StreamHolds DEF IsStream
<1>2. Unused(s, k, g) = SubSeq(W, a + 1, g) /\ Unused(s, k, g + n) = SubSeq(W, a + 1, g + n)
  BY DEF Unused
<1>3. g \in a..Len(W) /\ g + n <= Len(W) /\ g + n \in a..Len(W)
  BY <1>1
<1>4. SubSeq(W, a + 1, g) \o SubSeq(W, g + 1, g + n) = SubSeq(W, a + 1, g + n)
  <2> HIDE DEF W, a
  <2> QED
    BY ONLY <1>1, <1>3, n \in Nat, WindowOf
<1>5. \E j \in k..Len(s.parts) : AreRead(s, j, g + n)
  <2>1. g + n \in Nat /\ Ends(s, k) <= g + n
    BY <1>1, <1>3
  <2>2. PICK j \in k..Len(s.parts) : Ends(s, j) <= g + n /\ (j < Len(s.parts) => g + n < Ends(s, j + 1))
    BY <2>1, LastRead DEF IsStream
  <2>3. j \in 0..Len(s.parts)
    BY DEF IsStream
  <2>4. AreRead(s, j, g + n)
    BY <2>2, <2>3 DEF AreRead
  <2> QED
    BY <2>4
<1> QED
  BY <1>2, <1>3, <1>4, <1>5 DEF W

\* Some parts are read, what is behind them is kept and what they are returned as was returned.
KeptUp ==
  \E k \in 0..Len(stream.parts) :
    /\ AreRead(stream, k, given)
    /\ buffer = Unused(stream, k, given)
    /\ frames = Flat(Returned(stream), k)

\* IvfParser waits for the header of the file, and after that has kept up.
IvfInv ==
  stream.format = "ivf" =>
    /\ given \in 0..Len(AllBytes(stream)) /\ torn = FALSE /\ lost = FALSE /\ begun \in {0, 1}
    /\ begun = 0 => given < 4 /\ frames = <<>> /\ buffer = SubSeq(AllBytes(stream), 1, given)
    /\ begun = 1 => KeptUp

\* A read keeps IvfParser so.
LEMMA IvfStep ==
  ASSUME stream \in Streams, IvfInv, [ParserNext]_parserVars
  PROVE  IvfInv'
<1> SUFFICES ASSUME stream'.format = "ivf" PROVE IvfInv'
  BY DEF IvfInv
<1>1. stream' = stream
  BY DEF ParserNext, ReadPipe, parserVars
<1> DEFINE s == stream
           W == AllBytes(s)
           R == Returned(s)
<1>2. s.format = "ivf"
  BY <1>1
<1>3. /\ IsStream(s) /\ R \in Seq(Seq(Frame)) /\ Len(R) = Len(s.parts)
  BY <1>2, IvfStream
<1>4. Len(s.parts) \in Nat
  BY <1>3 DEF IsStream
<1>5. CASE UNCHANGED parserVars
  BY <1>5 DEF IvfInv, KeptUp, parserVars
<1>6. ASSUME NEW n \in 1..Len(AllBytes(stream)), ReadPipe(n) PROVE IvfInv'
  <2> DEFINE g == given
             b == buffer \o SubSeq(AllBytes(stream), given + 1, given + n)
  <2>1. W \in Seq(Nat) /\ Len(W) \in Nat /\ Ends(s, 0) = 4 /\ HeadOf(s) = IvfFile
    <3>1. HeadOf(s) = IvfFile /\ Len(IvfFile) = 4
      BY <1>2 DEF HeadOf, IvfFile
    <3>2. Encoded(s) \in Seq(Seq(Nat)) /\ DOMAIN s.parts = 1..Len(s.parts) /\ Len(s.parts) \in Nat
      BY <1>3 DEF IsStream
    <3>3. W \in Seq(Nat) /\ Ends(s, 0) = Len(HeadOf(s))
      BY ONLY <3>2, StreamHolds
    <3> HIDE DEF W
    <3> QED
      BY <3>1, <3>3
  <2>2. /\ g \in 0..Len(W) /\ torn = FALSE /\ lost = FALSE /\ begun \in {0, 1}
        /\ begun = 0 => given < 4 /\ frames = <<>> /\ buffer = SubSeq(W, 1, g)
        /\ begun = 1 => KeptUp
    BY <1>2 DEF IvfInv
  <2>3. n \in Nat /\ g + n <= Len(W) /\ given' = g + n /\ g + n \in 0..Len(W)
    BY <1>6, <2>1, <2>2 DEF ReadPipe
  <2>4. torn' = FALSE
    BY <1>2, <1>6, <2>2 DEF ReadPipe, Tears
  <2>5. PushIvf(b)
    BY <1>2, <1>6 DEF ReadPipe, H26x
  <2>6. lost' = FALSE
    BY <2>2, <2>5 DEF PushIvf
  <2>7. ASSUME NEW k \in 0..Len(s.parts), NEW x, x \in Ends(s, k)..Len(W), NEW j \in k..Len(s.parts),
               AreRead(s, j, x), x = given',
               NEW d, d = IvfFrames(Unused(s, k, x)),
               frames = Flat(R, k), buffer' = d.rest, frames' = frames \o d.out
        PROVE  KeptUp'
    <3>1. d = [rest |-> Unused(s, j, x), out |-> Rest(R, k, j), hung |-> FALSE]
      BY <1>2, <2>7, IvfTakes
    <3>2. Flat(R, k) \o Rest(R, k, j) = Flat(R, j)
      <4>1. k \in 0..Len(R) /\ j \in k..Len(R)
        BY <1>3
      <4> HIDE DEF R
      <4> QED
        BY ONLY <1>3, <4>1, RestGoesOn
    <3>3. j \in 0..Len(s.parts)
      BY <1>4
    <3> HIDE DEF R
    <3>4. frames' = Flat(R, j) /\ buffer' = Unused(s, j, x)
      BY <2>7, <3>1, <3>2
    <3> QED
      BY <1>1, <2>7, <3>3, <3>4 DEF KeptUp, R
  <2>8. CASE begun = 0
    <3>1. b = SubSeq(W, 1, g + n) /\ Len(b) = g + n /\ (4 < g + n + 1 => From(b, 5) = SubSeq(W, 5, g + n))
      <4> DEFINE a == 0
                 z == g + n
      <4>1. SubSeq(W, a + 1, g) \o SubSeq(W, g + 1, g + n) = SubSeq(W, a + 1, g + n)
        <5>1. a \in Nat /\ g \in a..Len(W)
          BY <2>2
        <5> HIDE DEF W, a, g
        <5> QED
          BY ONLY <2>1, <2>3, <5>1, WindowOf
      <4>2. Len(SubSeq(W, a + 1, z)) = z - a /\ \A i \in 1..z - a + 1 : From(SubSeq(W, a + 1, z), i) = SubSeq(W, a + i, z)
        <5>1. a \in Nat /\ z \in a..Len(W)
          BY <2>3
        <5> HIDE DEF W, a, z
        <5> QED
          BY ONLY <2>1, <5>1, WindowOf
      <4>3. b = SubSeq(W, 1, z)
        <5>1. a + 1 = 1
          OBVIOUS
        <5>2. b = SubSeq(W, 1, g) \o SubSeq(W, g + 1, g + n)
          BY <2>2, <2>8
        <5> QED
          BY ONLY <4>1, <5>1, <5>2 DEF z
      <4>4. z \in Nat
        BY <2>2, <2>3
      <4> HIDE DEF W, z, b
      <4>5. Len(b) = z /\ (4 < z + 1 => From(b, 5) = SubSeq(W, 5, z))
        BY <4>2, <4>3, <4>4
      <4> QED
        BY <4>3, <4>5 DEF z
    <3>2. CASE Len(b) < 4
      <4>1. buffer' = b /\ begun' = begun /\ frames' = frames
        BY <2>5, <2>8, <3>2 DEF PushIvf, IvfFile
      <4>2. given' < 4
        BY <2>3, <3>1, <3>2
      <4> HIDE DEF b
      <4> QED
        BY <1>1, <2>2, <2>3, <2>4, <2>6, <2>8, <3>1, <4>1, <4>2 DEF IvfInv
    <3>3. CASE ~(Len(b) < 4)
      <4> DEFINE c == From(b, 5)
                 d == IvfFrames(c)
      <4>1. buffer' = d.rest /\ frames' = frames \o d.out /\ begun' = 1
        <5>1. Len(IvfFile) = 4 /\ Len(IvfFile) + 1 = 5
          BY DEF IvfFile
        <5> HIDE DEF b
        <5> QED
          BY <2>5, <2>8, <3>3, <5>1 DEF PushIvf
      <4>2. g + n \in 4..Len(W)
        BY <2>1, <2>2, <2>3, <3>1, <3>3
      <4>3. c = Unused(s, 0, g + n)
        <5>1. 4 < g + n + 1
          BY <2>2, <2>3, <4>2
        <5> QED
          BY <2>1, <3>1, <5>1 DEF Unused
      <4>4. 0 \in 0..Len(s.parts) /\ g + n \in Ends(s, 0)..Len(W)
        BY <1>4, <2>1, <4>2
      <4>5. PICK j \in 0..Len(s.parts) : AreRead(s, j, g + n)
        <5>2. PICK j \in 0..Len(s.parts) : Ends(s, j) <= g + n /\ (j < Len(s.parts) => g + n < Ends(s, j + 1))
          BY <1>3, <2>1, <4>2, <4>4, LastRead DEF IsStream
        <5> QED
          BY <5>2 DEF AreRead
      <4>6. frames = Flat(R, 0)
        BY <1>3, <2>2, <2>8, FlatSteps
      <4> HIDE DEF c, R, b
      <4>7. d = IvfFrames(Unused(s, 0, g + n))
        BY <4>3
      <4> HIDE DEF d
      <4>8. KeptUp'
        BY <2>3, <2>7, <4>1, <4>4, <4>5, <4>6, <4>7
      <4> QED
        BY <1>1, <2>3, <2>4, <2>6, <4>1, <4>8 DEF IvfInv
    <3> QED
      BY <3>2, <3>3
  <2>9. CASE begun = 1
    <3> DEFINE d == IvfFrames(b)
    <3>1. buffer' = d.rest /\ frames' = frames \o d.out /\ begun' = 1
      <4> HIDE DEF b
      <4> QED
        BY <2>5, <2>9 DEF PushIvf
    <3>2. PICK k \in 0..Len(s.parts) : /\ AreRead(s, k, g) /\ buffer = Unused(s, k, g)
                                       /\ frames = Flat(R, k)
      BY <2>2, <2>9 DEF KeptUp
    <3>3. g \in Ends(s, k)..Len(W)
      <4>1. Ends(s, k) \in Nat /\ Ends(s, k) <= g
        BY <1>3, <3>2, StreamHolds DEF IsStream, AreRead
      <4> QED
        BY <2>1, <2>2, <4>1
    <3>4. /\ Unused(s, k, g) \o SubSeq(W, g + 1, g + n) = Unused(s, k, g + n)
          /\ g + n \in Ends(s, k)..Len(W)
          /\ \E j \in k..Len(s.parts) : AreRead(s, j, g + n)
      BY <1>3, <2>3, <3>3, ReadsOn
    <3>5. PICK j \in k..Len(s.parts) : AreRead(s, j, g + n)
      BY <3>4
    <3>6. d = IvfFrames(Unused(s, k, g + n))
      BY <3>2, <3>4
    <3> HIDE DEF d, R, b
    <3>7. KeptUp'
      BY <2>3, <2>7, <3>1, <3>2, <3>4, <3>5, <3>6
    <3> QED
      BY <1>1, <2>3, <2>4, <2>6, <3>1, <3>7 DEF IvfInv
  <2> QED
    BY <2>2, <2>8, <2>9
<1> QED
  BY <1>5, <1>6 DEF ParserNext

\* AdtsParser has kept up unless a sync word was torn.
AdtsInv ==
  stream.format = "adts" =>
    /\ given \in 0..Len(AllBytes(stream)) /\ torn \in BOOLEAN
    /\ torn = FALSE => lost = FALSE /\ KeptUp

\* Where no sync word is torn.
LEMMA AdtsTogether ==
  ASSUME NEW s \in Streams, s.format = "adts", NEW g \in 0..Len(AllBytes(s)), g \notin Tears(s)
  PROVE  Together(s, g)
<1> DEFINE n == Len(s.parts)
<1>1. /\ IsStream(s) /\ s \in [format : {"adts"}, parts : Seq(Seq(Nat))]
      /\ n \in Nat /\ DOMAIN s.parts = 1..n
  BY AdtsStream DEF IsStream
<1>2. Tears(s) = {Begins(s, i) : i \in DOMAIN s.parts}
  BY DEF Tears
<1>3. /\ \A m \in 0..n : Ends(s, m) \in Nat
      /\ Ends(s, n) = Len(AllBytes(s))
  BY <1>1, StreamHolds DEF IsStream
<1>4. ASSUME NEW m \in 0..n PROVE g # Ends(s, m) + 1
  <2>1. CASE m = n
    <3>1. Ends(s, n) \in Nat /\ g <= Ends(s, n)
      BY <1>1, <1>3
    <3> HIDE DEF n
    <3> QED
      BY <2>1, <3>1
  <2>2. CASE m # n
    <3> DEFINE i == m + 1
    <3>1. i \in 1..n /\ i \in 1..n + 1 /\ i - 1 = m
      BY <1>1, <2>2
    <3>2. Begins(s, i) \in Tears(s)
      BY <1>1, <1>2, <3>1
    <3>3. Begins(s, i) = Ends(s, m) + 1
      <4> DEFINE F == {"adts"}
                 T == Seq(Nat)
      <4>1. s \in [format : F, parts : Seq(T)] /\ IsStream(s) /\ i \in 1..Len(s.parts) + 1
        BY <1>1, <3>1
      <4> HIDE DEF i, F, T
      <4>2. Begins(s, i) = Ends(s, i - 1) + 1
        BY ONLY <4>1, BeginsIs
      <4> QED
        BY <3>1, <4>2
    <3> QED
      BY <3>2, <3>3
  <2> QED
    BY <2>1, <2>2
<1> QED
  BY <1>4 DEF Together

\* A read keeps AdtsParser so.
LEMMA AdtsStep ==
  ASSUME stream \in Streams, AdtsInv, [ParserNext]_parserVars
  PROVE  AdtsInv'
<1> SUFFICES ASSUME stream'.format = "adts" PROVE AdtsInv'
  BY DEF AdtsInv
<1>1. stream' = stream
  BY DEF ParserNext, ReadPipe, parserVars
<1> DEFINE s == stream
           W == AllBytes(s)
           R == Returned(s)
<1>2. s.format = "adts"
  BY <1>1
<1>3. /\ IsStream(s) /\ R \in Seq(Seq(Frame)) /\ Len(R) = Len(s.parts)
  BY <1>2, AdtsStream
<1>4. Len(s.parts) \in Nat
  BY <1>3 DEF IsStream
<1>5. CASE UNCHANGED parserVars
  BY <1>5 DEF AdtsInv, KeptUp, parserVars
<1>6. ASSUME NEW n \in 1..Len(AllBytes(stream)), ReadPipe(n) PROVE AdtsInv'
  <2> DEFINE g == given
             b == buffer \o SubSeq(AllBytes(stream), given + 1, given + n)
  <2>1. W \in Seq(Nat) /\ Len(W) \in Nat
    BY <1>3, StreamHolds DEF IsStream
  <2>2. /\ g \in 0..Len(W) /\ torn \in BOOLEAN
        /\ torn = FALSE => lost = FALSE /\ KeptUp
    BY <1>2 DEF AdtsInv
  <2>3. n \in Nat /\ g + n <= Len(W) /\ given' = g + n /\ g + n \in 0..Len(W)
    BY <1>6, <2>1, <2>2 DEF ReadPipe
  <2>4. torn' = (torn \/ g + n \in Tears(s))
    BY <1>6 DEF ReadPipe
  <2>5. PushAdts(b)
    BY <1>2, <1>6 DEF ReadPipe, H26x
  <2>6. CASE torn' = TRUE
    BY <1>1, <2>3, <2>6 DEF AdtsInv
  <2>7. CASE torn' = FALSE
    <3> DEFINE d == AdtsFrames(b)
    <3>1. buffer' = d.rest /\ frames' = frames \o d.out /\ lost' = d.hung
      <4> HIDE DEF b
      <4> QED
        BY <2>5 DEF PushAdts
    <3>2. torn = FALSE /\ g + n \notin Tears(s)
      BY <2>2, <2>4, <2>7
    <3>3. Together(s, g + n)
      BY <1>2, <2>3, <3>2, AdtsTogether
    <3>4. PICK k \in 0..Len(s.parts) : /\ AreRead(s, k, g) /\ buffer = Unused(s, k, g)
                                       /\ frames = Flat(R, k)
      BY <2>2, <3>2 DEF KeptUp
    <3>5. g \in Ends(s, k)..Len(W)
      <4>1. Ends(s, k) \in Nat /\ Ends(s, k) <= g
        BY <1>3, <3>4, StreamHolds DEF IsStream, AreRead
      <4> QED
        BY <2>1, <2>2, <4>1
    <3>6. /\ Unused(s, k, g) \o SubSeq(W, g + 1, g + n) = Unused(s, k, g + n)
          /\ g + n \in Ends(s, k)..Len(W)
          /\ \E j \in k..Len(s.parts) : AreRead(s, j, g + n)
      BY <1>3, <2>3, <3>5, ReadsOn
    <3>7. PICK j \in k..Len(s.parts) : AreRead(s, j, g + n)
      BY <3>6
    <3>8. d = AdtsFrames(Unused(s, k, g + n))
      BY <3>4, <3>6
    <3>9. d = [rest |-> Unused(s, j, g + n), out |-> Rest(R, k, j), hung |-> FALSE]
      <4> DEFINE x == g + n
      <4>1. x \in Ends(s, k)..Len(AllBytes(s)) /\ AreRead(s, j, x) /\ Together(s, x) /\ d = AdtsFrames(Unused(s, k, x))
        BY <3>3, <3>6, <3>7, <3>8
      <4> HIDE DEF x, d
      <4>2. d = [rest |-> Unused(s, j, x), out |-> Rest(R, k, j), hung |-> FALSE]
        BY <1>2, <4>1, AdtsTakes
      <4> QED
        BY <4>2 DEF x
    <3>10. Flat(R, k) \o Rest(R, k, j) = Flat(R, j)
      <4>1. k \in 0..Len(R) /\ j \in k..Len(R)
        BY <1>3
      <4> HIDE DEF R
      <4> QED
        BY ONLY <1>3, <4>1, RestGoesOn
    <3>11. j \in 0..Len(s.parts)
      BY <1>4
    <3> HIDE DEF d, R, b
    <3>12. frames' = Flat(R, j) /\ buffer' = Unused(s, j, g + n) /\ lost' = FALSE
      BY <3>1, <3>4, <3>9, <3>10
    <3>13. KeptUp'
      BY <1>1, <2>3, <3>7, <3>11, <3>12 DEF KeptUp, R
    <3> QED
      BY <1>1, <2>3, <2>7, <3>12, <3>13 DEF AdtsInv
  <2> QED
    BY <2>2, <2>4, <2>6, <2>7
<1> QED
  BY <1>5, <1>6 DEF ParserNext

\* Packets as frames.
Plains(packets) == [k \in DOMAIN packets |-> Plain(packets[k])]

\* They are those of one sequence behind those of another.
LEMMA PlainsJoin ==
  ASSUME NEW p \in Seq(Seq(Nat)), NEW q \in Seq(Seq(Nat))
  PROVE  Plains(p) \in Seq(Frame) /\ Plains(q) \in Seq(Frame) /\ Plains(p \o q) = Plains(p) \o Plains(q)
<1> DEFINE n == Len(p)
           m == Len(q)
           w == p \o q
           u == Plains(p)
           v == Plains(q)
           z == Plains(w)
<1>1. /\ n \in Nat /\ m \in Nat /\ w \in Seq(Seq(Nat)) /\ Len(w) = n + m
      /\ \A i \in 1..n : w[i] = p[i]
      /\ \A i \in 1..m : w[n + i] = q[i]
  <2>1. p \in Seq(Seq(Nat)) /\ q \in Seq(Seq(Nat))
    OBVIOUS
  <2>2. /\ p \o q \in Seq(Seq(Nat)) /\ Len(p \o q) = Len(p) + Len(q)
        /\ \A i \in 1..Len(p) : (p \o q)[i] = p[i]
        /\ \A i \in 1..Len(q) : (p \o q)[Len(p) + i] = q[i]
    BY ONLY <2>1, JoinIs
  <2> QED
    BY <2>2
<1>2. ASSUME NEW r \in Seq(Seq(Nat))
      PROVE  Plains(r) \in Seq(Frame) /\ Len(Plains(r)) = Len(r) /\ \A i \in 1..Len(r) : Plains(r)[i] = Plain(r[i])
  <2>1. DOMAIN r = 1..Len(r) /\ Len(r) \in Nat /\ \A i \in 1..Len(r) : r[i] \in Seq(Nat)
    OBVIOUS
  <2>2. \A i \in 1..Len(r) : Plain(r[i]) \in Frame
    BY <2>1 DEF Plain, Frame
  <2>3. Plains(r) = [i \in 1..Len(r) |-> Plain(r[i])]
    BY <2>1 DEF Plains
  <2> HIDE DEF Plains
  <2> QED
    BY <2>1, <2>2, <2>3
<1>3. u \in Seq(Frame) /\ Len(u) = n /\ \A i \in 1..n : u[i] = Plain(p[i])
  BY <1>2
<1>4. v \in Seq(Frame) /\ Len(v) = m /\ \A i \in 1..m : v[i] = Plain(q[i])
  BY <1>2
<1> HIDE DEF w
<1>5. z \in Seq(Frame) /\ Len(z) = n + m /\ \A i \in 1..n + m : z[i] = Plain(w[i])
  BY <1>1, <1>2
<1> HIDE DEF u, v, z, n, m
<1>6. /\ u \o v \in Seq(Frame) /\ Len(u \o v) = Len(u) + Len(v)
      /\ \A i \in 1..Len(u) : (u \o v)[i] = u[i]
      /\ \A i \in 1..Len(v) : (u \o v)[Len(u) + i] = v[i]
  <2>1. u \in Seq(Frame) /\ v \in Seq(Frame)
    BY <1>3, <1>4
  <2> QED
    BY ONLY <2>1, JoinIs
<1> DEFINE y == u \o v
<1>7. /\ y \in Seq(Frame) /\ Len(y) = n + m
      /\ \A i \in 1..n : y[i] = u[i]
      /\ \A i \in 1..m : y[n + i] = v[i]
  BY ONLY <1>3, <1>4, <1>6
<1> HIDE DEF y
<1>8. ASSUME NEW i \in 1..n + m PROVE z[i] = y[i]
  <2>1. CASE i <= n
    <3>1. i \in 1..n
      BY <1>1, <2>1
    <3> QED
      BY <1>1, <1>3, <1>5, <1>7, <3>1
  <2>2. CASE ~(i <= n)
    <3> DEFINE x == i - n
    <3>1. x \in 1..m /\ i = n + x
      BY <1>1, <2>2
    <3> HIDE DEF x
    <3>2. z[n + x] = Plain(w[n + x])
      BY <1>5, <3>1
    <3>3. w[n + x] = q[x]
      BY <1>1, <3>1
    <3>4. y[n + x] = v[x]
      BY ONLY <1>7, <3>1
    <3>5. v[x] = Plain(q[x])
      BY ONLY <1>4, <3>1
    <3> QED
      BY ONLY <3>1, <3>2, <3>3, <3>4, <3>5
  <2> QED
    BY <2>1, <2>2
<1>9. z = y
  <2>1. Len(z) = Len(y) /\ \A i \in 1..Len(z) : z[i] = y[i]
    BY ONLY <1>5, <1>7, <1>8
  <2> QED
    BY ONLY <1>5, <1>7, <2>1, SeqEqual
<1> QED
  BY <1>3, <1>4, <1>9 DEF u, v, w, z, y

\* The same of one sequence, by name.
IsRest(T, b, i) ==
  /\ From(b, i) \in Seq(T)
  /\ i <= Len(b) + 1 => Len(From(b, i)) = Len(b) + 1 - i
  /\ i > Len(b) => From(b, i) = <<>>
  /\ \A x \in 1..Len(b) + 1 - i : From(b, i)[x] = b[i - 1 + x]

\* What is behind some of a sequence is such a rest.
LEMMA RestIs ==
  ASSUME NEW T, NEW b \in Seq(T), NEW i \in Nat \ {0}
  PROVE  IsRest(T, b, i)
BY FromIs DEF IsRest

\* How many of the first packets are not passed on.
Headers(q) == IF Len(q) <= 2 THEN Len(q) ELSE 2

\* What is skipped and left of the next packets, as of all together.
GoesOnAfter(T, q, o, skip) ==
  /\ skip \in Nat /\ Headers(q) + skip = Headers(q \o o)
  /\ From(q, 3) \in Seq(T) /\ From(o, skip + 1) \in Seq(T)
  /\ From(q \o o, 3) = From(q, 3) \o From(o, skip + 1)

\* OggOpusDemux::push skips the first two packets, in whatever reads they come.
LEMMA HeadersSkipped ==
  ASSUME NEW T, NEW q \in Seq(T), NEW o \in Seq(T)
  PROVE  GoesOnAfter(T, q, o, Min({2 - Headers(q), Len(o)}))
<1> DEFINE n == Len(q)
           m == Len(o)
           w == q \o o
           c == Headers(q)
           skip == Min({2 - Headers(q), Len(o)})
<1>1. /\ n \in Nat /\ m \in Nat /\ w \in Seq(T) /\ Len(w) = n + m
      /\ \A i \in 1..n : w[i] = q[i]
      /\ \A i \in 1..m : w[n + i] = o[i]
  <2>1. q \in Seq(T) /\ o \in Seq(T)
    OBVIOUS
  <2>2. /\ q \o o \in Seq(T) /\ Len(q \o o) = Len(q) + Len(o)
        /\ \A i \in 1..Len(q) : (q \o o)[i] = q[i]
        /\ \A i \in 1..Len(o) : (q \o o)[Len(q) + i] = o[i]
    BY ONLY <2>1, JoinIs
  <2> QED
    BY <2>2
<1>2. c = IF n <= 2 THEN n ELSE 2
  BY DEF Headers
<1>3. Headers(w) = IF n + m <= 2 THEN n + m ELSE 2
  <2> HIDE DEF w, n, m
  <2> QED
    BY <1>1 DEF Headers
<1>4. skip = IF 2 - c <= m THEN 2 - c ELSE m
  <2>1. 2 - c \in Nat
    BY <1>1, <1>2
  <2> HIDE DEF c, m
  <2> QED
    BY <1>1, <2>1, MinOfTwo DEF c, m
<1> DEFINE i == skip + 1
           u == From(q, 3)
           v == From(o, i)
           z == From(w, 3)
<1> HIDE DEF c, n, m, w, skip
<1>5. skip \in Nat /\ c + skip = Headers(w) /\ i \in Nat \ {0} /\ i <= m + 1 /\ m + 1 - i \in Nat
  BY <1>1, <1>2, <1>3, <1>4
<1>6. /\ u \in Seq(T) /\ (3 <= n + 1 => Len(u) = n + 1 - 3) /\ (3 > n => u = <<>>)
      /\ \A x \in 1..n + 1 - 3 : u[x] = q[3 - 1 + x]
  <2> HIDE DEF u
  <2>1. 3 \in Nat \ {0} /\ q \in Seq(T)
    OBVIOUS
  <2>2. IsRest(T, q, 3)
    BY ONLY <2>1, RestIs
  <2> QED
    BY ONLY <2>2 DEF IsRest, u, n
<1>7. /\ v \in Seq(T) /\ Len(v) = m + 1 - i
      /\ \A x \in 1..m + 1 - i : v[x] = o[i - 1 + x]
  <2> HIDE DEF i, v
  <2>1. i \in Nat \ {0} /\ o \in Seq(T)
    BY <1>5
  <2>2. IsRest(T, o, i)
    BY ONLY <2>1, RestIs
  <2> QED
    BY ONLY <2>2, <1>5 DEF IsRest, v, m
<1>8. /\ z \in Seq(T) /\ (3 <= n + m + 1 => Len(z) = n + m + 1 - 3) /\ (3 > n + m => z = <<>>)
      /\ \A x \in 1..n + m + 1 - 3 : z[x] = w[3 - 1 + x]
  <2> HIDE DEF z
  <2>1. 3 \in Nat \ {0} /\ w \in Seq(T)
    BY <1>1
  <2>2. IsRest(T, w, 3)
    BY ONLY <2>1, RestIs
  <2> QED
    BY ONLY <2>2, <1>1 DEF IsRest, z
<1> HIDE DEF i, u, v, z
<1>9. /\ u \o v \in Seq(T) /\ Len(u \o v) = Len(u) + Len(v)
      /\ \A x \in 1..Len(u) : (u \o v)[x] = u[x]
      /\ \A x \in 1..Len(v) : (u \o v)[Len(u) + x] = v[x]
  <2>1. u \in Seq(T) /\ v \in Seq(T)
    BY <1>6, <1>7
  <2> QED
    BY ONLY <2>1, JoinIs
<1> DEFINE y == u \o v
           d == Len(u)
           e == Len(v)
<1>10. /\ y \in Seq(T) /\ Len(y) = d + e /\ d \in Nat /\ e \in Nat
       /\ \A x \in 1..d : y[x] = u[x]
       /\ \A x \in 1..e : y[d + x] = v[x]
  BY <1>6, <1>7, <1>9
<1>15. Len(u) = d /\ Len(v) = e /\ Len(<<>>) = 0
  OBVIOUS
<1> HIDE DEF y, d, e
<1>16. d = IF n >= 2 THEN n - 2 ELSE 0
  BY ONLY <1>1, <1>6, <1>15
<1>17. e = m - skip
  <2>1. i = skip + 1
    BY DEF i
  <2>2. e = m + 1 - i
    BY ONLY <1>7, <1>15
  <2> QED
    BY ONLY <1>1, <1>5, <2>1, <2>2
<1>11. Len(z) = d + e
  <2>1. Len(z) = IF n + m >= 2 THEN n + m - 2 ELSE 0
    BY ONLY <1>1, <1>8, <1>15
  <2> DEFINE l == Len(z)
  <2> HIDE DEF l
  <2>2. l = d + e
    BY ONLY <1>1, <1>2, <1>4, <1>16, <1>17, <2>1 DEF l
  <2> QED
    BY <2>2 DEF l
<1>12. ASSUME NEW x \in 1..d + e PROVE z[x] = y[x]
  <2>0. d + e = n + m - 2 /\ n + m >= 2 /\ d + e = n + m + 1 - 3
    <3>1. d + e >= 1
      BY ONLY <1>10, x \in 1..d + e
    <3> QED
      BY ONLY <3>1, <1>1, <1>2, <1>4, <1>16, <1>17
  <2>1. z[x] = w[2 + x]
    <3>1. x \in 1..n + m + 1 - 3 /\ 3 - 1 + x = 2 + x
      BY <2>0
    <3> QED
      BY ONLY <1>8, <3>1
  <2>2. CASE x <= d
    <3>1. x \in 1..d /\ 2 + x \in 1..n /\ x \in 1..n + 1 - 3 /\ 3 - 1 + x = 2 + x
      BY ONLY <1>1, <1>10, <1>16, <2>2, x \in 1..d + e
    <3>2. y[x] = u[x] /\ u[x] = q[2 + x] /\ w[2 + x] = q[2 + x]
      BY ONLY <1>1, <1>6, <1>10, <3>1
    <3> QED
      BY <2>1, <3>2
  <2>3. CASE ~(x <= d)
    <3> DEFINE f == x - d
               h == 2 + x - n
    <3>1. /\ f \in 1..e /\ x = d + f /\ f \in 1..m + 1 - i /\ i - 1 + f = h
          /\ h \in 1..m /\ 2 + x = n + h
      BY ONLY <1>1, <1>2, <1>4, <1>5, <1>10, <1>16, <1>17, <2>3, x \in 1..d + e DEF i
    <3> HIDE DEF f, h
    <3>2. y[d + f] = v[f]
      BY ONLY <1>10, <3>1
    <3>3. v[f] = o[i - 1 + f]
      BY ONLY <1>7, <3>1
    <3>4. w[n + h] = o[h]
      BY ONLY <1>1, <3>1
    <3> QED
      BY ONLY <2>1, <3>1, <3>2, <3>3, <3>4
  <2> QED
    BY <2>2, <2>3
<1>13. z = y
  <2>1. Len(z) = Len(y) /\ \A x \in 1..Len(z) : z[x] = y[x]
    BY ONLY <1>10, <1>11, <1>12
  <2> QED
    BY ONLY <1>8, <1>10, <2>1, SeqEqual
<1> QED
  BY <1>5, <1>6, <1>7, <1>13 DEF c, u, v, w, z, y, i, skip, GoesOnAfter

\* As KeptUp, but for the first two packets and the empty ones.
OggKept ==
  \E k \in 0..Len(stream.parts) :
    /\ AreRead(stream, k, given)
    /\ buffer = Unused(stream, k, given)
    /\ begun = Headers(Flat(stream.parts, k))
    /\ frames = Plains(Filled(From(Flat(stream.parts, k), 3)))

\* OggOpusDemux has kept up.
OggInv ==
  stream.format = "ogg" =>
    /\ given \in 0..Len(AllBytes(stream)) /\ torn = FALSE /\ lost = FALSE
    /\ OggKept

\* A read keeps OggOpusDemux so.
LEMMA OggStep ==
  ASSUME stream \in Streams, OggInv, [ParserNext]_parserVars
  PROVE  OggInv'
<1> SUFFICES ASSUME stream'.format = "ogg" PROVE OggInv'
  BY DEF OggInv
<1>1. stream' = stream
  BY DEF ParserNext, ReadPipe, parserVars
<1> DEFINE s == stream
           W == AllBytes(s)
           R == s.parts
<1>2. s.format = "ogg"
  BY <1>1
<1>3. /\ IsStream(s) /\ R \in Seq(Seq(Seq(Nat))) /\ Returned(s) = R
  BY <1>2, OggStream
<1>4. Len(R) \in Nat
  BY <1>3 DEF IsStream
<1>5. CASE UNCHANGED parserVars
  BY <1>5 DEF OggInv, OggKept, parserVars
<1>6. ASSUME NEW n \in 1..Len(AllBytes(stream)), ReadPipe(n) PROVE OggInv'
  <2> DEFINE g == given
             b == buffer \o SubSeq(AllBytes(stream), given + 1, given + n)
  <2>1. W \in Seq(Nat) /\ Len(W) \in Nat
    BY <1>3, StreamHolds DEF IsStream
  <2>2. g \in 0..Len(W) /\ torn = FALSE /\ lost = FALSE /\ OggKept
    BY <1>2 DEF OggInv
  <2>3. n \in Nat /\ g + n <= Len(W) /\ given' = g + n /\ g + n \in 0..Len(W)
    BY <1>6, <2>1, <2>2 DEF ReadPipe
  <2>4. torn' = FALSE
    BY <1>2, <1>6, <2>2 DEF ReadPipe, Tears
  <2>5. PushOgg(b)
    BY <1>2, <1>6 DEF ReadPipe, H26x
  <2> DEFINE d    == OggPackets(b)
             skip == Min({2 - begun, Len(d.out)})
             left == Filled(From(d.out, skip + 1))
  <2>6. /\ buffer' = d.rest /\ begun' = begun + skip /\ frames' = frames \o Plains(left) /\ lost' = FALSE
    <3> HIDE DEF b
    <3> QED
      BY <2>2, <2>5 DEF PushOgg, Plains
  <2>7. PICK k \in 0..Len(R) : /\ AreRead(s, k, g) /\ buffer = Unused(s, k, g)
                               /\ begun = Headers(Flat(R, k))
                               /\ frames = Plains(Filled(From(Flat(R, k), 3)))
    BY <2>2 DEF OggKept
  <2>8. g \in Ends(s, k)..Len(W)
    <3>1. Ends(s, k) \in Nat /\ Ends(s, k) <= g
      BY <1>3, <2>7, StreamHolds DEF IsStream, AreRead
    <3> QED
      BY <2>1, <2>2, <3>1
  <2>9. /\ Unused(s, k, g) \o SubSeq(W, g + 1, g + n) = Unused(s, k, g + n)
        /\ g + n \in Ends(s, k)..Len(W)
        /\ \E j \in k..Len(R) : AreRead(s, j, g + n)
    BY <1>3, <2>3, <2>8, ReadsOn
  <2>10. PICK j \in k..Len(R) : AreRead(s, j, g + n)
    BY <2>9
  <2>11. d = OggPackets(Unused(s, k, g + n))
    BY <2>7, <2>9
  <2>12. d = [rest |-> Unused(s, j, g + n), out |-> Rest(R, k, j), hung |-> FALSE]
    <3> DEFINE x == g + n
    <3>1. x \in Ends(s, k)..Len(AllBytes(s)) /\ AreRead(s, j, x) /\ d = OggPackets(Unused(s, k, x))
      BY <2>9, <2>10, <2>11
    <3> HIDE DEF x, d
    <3>2. d = [rest |-> Unused(s, j, x), out |-> Rest(Returned(s), k, j), hung |-> FALSE]
      BY <1>2, <3>1, OggTakes
    <3> QED
      BY <1>3, <3>2 DEF x
  <2>13. j \in 0..Len(R)
    BY <1>4
  <2> DEFINE q == Flat(R, k)
             o == Rest(R, k, j)
  <2>14. q \in Seq(Seq(Nat)) /\ o \in Seq(Seq(Nat)) /\ q \o o = Flat(R, j)
    <3>1. k \in 0..Len(R) /\ j \in k..Len(R)
      BY <1>3
    <3> HIDE DEF R
    <3> QED
      BY ONLY <1>3, <3>1, RestGoesOn
  <2>15. skip = Min({2 - Headers(q), Len(o)}) /\ d.out = o
    <3> HIDE DEF d, b, R
    <3> QED
      BY <2>7, <2>12
  <2>16. left = Filled(From(o, skip + 1))
    <3> HIDE DEF d, b, R, skip
    <3> QED
      BY <2>15
  <2> HIDE DEF d, b, R, skip, left, q, o
  <2>17. /\ skip \in Nat /\ Headers(q) + skip = Headers(q \o o)
         /\ From(q, 3) \in Seq(Seq(Nat)) /\ From(o, skip + 1) \in Seq(Seq(Nat))
         /\ From(q \o o, 3) = From(q, 3) \o From(o, skip + 1)
    <3> DEFINE T == Seq(Nat)
    <3>1. q \in Seq(T) /\ o \in Seq(T)
      BY <2>14, <2>15
    <3> HIDE DEF T
    <3>2. GoesOnAfter(T, q, o, Min({2 - Headers(q), Len(o)}))
      BY ONLY <3>1, HeadersSkipped
    <3>3. GoesOnAfter(T, q, o, skip)
      BY ONLY <2>15, <3>2
    <3> QED
      BY <3>3 DEF T, GoesOnAfter
  <2>18. /\ Filled(From(q, 3)) \in Seq(Seq(Nat)) /\ left \in Seq(Seq(Nat))
         /\ Filled(From(q, 3) \o From(o, skip + 1)) = Filled(From(q, 3)) \o left
    BY ONLY <2>16, <2>17, FilledJoins
  <2>19. Plains(Filled(From(q, 3)) \o left) = Plains(Filled(From(q, 3))) \o Plains(left)
    BY ONLY <2>18, PlainsJoin
  <2>20. frames' = Plains(Filled(From(Flat(R, j), 3)))
    <3>1. frames = Plains(Filled(From(q, 3)))
      BY <2>7 DEF q
    <3> QED
      BY ONLY <2>6, <2>14, <2>17, <2>18, <2>19, <3>1
  <2>21. begun' = Headers(Flat(R, j)) /\ buffer' = Unused(s, j, g + n)
    <3>1. begun = Headers(q)
      BY <2>7 DEF q
    <3>2. d.rest = Unused(s, j, g + n)
      BY <2>12
    <3> QED
      BY ONLY <2>6, <2>14, <2>17, <3>1, <3>2
  <2>22. OggKept'
    BY <1>1, <2>3, <2>10, <2>13, <2>20, <2>21 DEF OggKept, R
  <2> QED
    BY <1>1, <2>3, <2>4, <2>6, <2>22 DEF OggInv
<1> QED
  BY <1>5, <1>6 DEF ParserNext

\* All three begin so.
LEMMA FramedStart ==
  ASSUME ParserInit
  PROVE  IvfInv /\ AdtsInv /\ OggInv
<1> DEFINE s == stream
<1>1. ASSUME NEW T, IsStream(s), HeadOf(s) = <<>>
      PROVE  /\ given \in 0..Len(AllBytes(s)) /\ AreRead(s, 0, given) /\ buffer = Unused(s, 0, given)
             /\ 0 \in 0..Len(s.parts)
  <2>1. /\ AllBytes(s) \in Seq(Nat) /\ Ends(s, 0) = 0 /\ Len(s.parts) \in Nat
        /\ \A k \in 1..Len(s.parts) : Ends(s, k) = Ends(s, k - 1) + Len(Bytes(s.format, s.parts[k]))
    BY <1>1, StreamHolds DEF IsStream
  <2>2. given = 0 /\ buffer = <<>>
    BY DEF ParserInit
  <2>3. Unused(s, 0, 0) = <<>>
    <3>1. SubSeq(AllBytes(s), 1, 0) = <<>>
      BY <2>1, SubSeqEmpty
    <3> QED
      BY <2>1, <3>1 DEF Unused
  <2>4. AreRead(s, 0, 0)
    <3>1. 0 < Len(s.parts) => 0 < Ends(s, 1)
      <4> SUFFICES ASSUME 0 < Len(s.parts) PROVE 0 < Ends(s, 1)
        OBVIOUS
      <4>1. 1 \in 1..Len(s.parts)
        BY <2>1
      <4>2. Ends(s, 1) = Ends(s, 0) + Len(Bytes(s.format, s.parts[1]))
        <5>1. 1 - 1 = 0
          OBVIOUS
        <5> QED
          BY <2>1, <4>1, <5>1
      <4>3. Len(Bytes(s.format, s.parts[1])) > 0 /\ Bytes(s.format, s.parts[1]) \in Seq(Nat)
        BY <1>1, <4>1, StreamHolds DEF IsStream
      <4> QED
        BY <2>1, <4>2, <4>3
    <3> QED
      BY <2>1, <3>1 DEF AreRead
  <2> QED
    BY <2>1, <2>2, <2>3, <2>4
<1>2. s \in Streams /\ given = 0 /\ torn = FALSE /\ lost = FALSE /\ buffer = <<>> /\ begun = 0 /\ frames = <<>>
  BY DEF ParserInit
<1>3. ASSUME s.format = "ivf" PROVE IvfInv
  <2>1. IsStream(s)
    BY <1>2, <1>3, IvfStream
  <2>2. AllBytes(s) \in Seq(Nat)
    BY <2>1, StreamHolds DEF IsStream
  <2>3. SubSeq(AllBytes(s), 1, 0) = <<>>
    BY <2>2, SubSeqEmpty
  <2> QED
    BY <1>2, <2>2, <2>3 DEF IvfInv
<1>4. ASSUME s.format = "adts" PROVE AdtsInv
  <2>1. IsStream(s) /\ Returned(s) \in Seq(Seq(Frame)) /\ HeadOf(s) = <<>>
    BY <1>2, <1>4, AdtsStream DEF HeadOf
  <2>2. frames = Flat(Returned(s), 0)
    BY <1>2, <2>1, FlatSteps
  <2> QED
    BY <1>1, <1>2, <2>1, <2>2 DEF AdtsInv, KeptUp
<1>5. ASSUME s.format = "ogg" PROVE OggInv
  <2>1. IsStream(s) /\ s.parts \in Seq(Seq(Seq(Nat))) /\ HeadOf(s) = <<>>
    BY <1>2, <1>5, OggStream DEF HeadOf
  <2>2. Flat(s.parts, 0) = <<>>
    BY <2>1, FlatSteps
  <2>3. begun = Headers(<<>>)
    BY <1>2 DEF Headers
  <2>4. From(<<>>, 3) = <<>>
    <3> DEFINE e == <<>>
    <3>1. e \in Seq(Nat) /\ 3 \in Nat \ {0} /\ 3 > Len(e)
      OBVIOUS
    <3> HIDE DEF e
    <3>2. From(e, 3) = <<>>
      BY ONLY <3>1, FromIs
    <3> QED
      BY <3>2 DEF e
  <2>5. Plains(Filled(<<>>)) = <<>>
    <3> DEFINE S == {k \in DOMAIN <<>> : (<<>>)[k] # <<>>}
    <3>1. S = {} /\ Cardinality(S) = 0
      BY FS_EmptySet
    <3>2. InOrder(S) = <<>>
      BY <3>1 DEF InOrder
    <3>3. Filled(<<>>) = <<>>
      BY <3>2 DEF Filled
    <3> QED
      BY <3>3 DEF Plains
  <2> QED
    BY <1>1, <1>2, <2>1, <2>2, <2>3, <2>4, <2>5 DEF OggInv, OggKept
<1> QED
  BY <1>3, <1>4, <1>5 DEF IvfInv, AdtsInv, OggInv

-----------------------------------------------------------------------------
(* However the pipe is cut.                                                *)

\* A frame as a viewer and as a media track get it.
Received(h) == [data |-> h.data, key |-> h.key, track |-> h.data]

\* The first k are.
Alike(h, t, k) == \A i \in 1..k : Received(h[i]) = t[i]

\* What is returned of a stream that is not H.264 or H.265 stays so.
LEMMA MeantSoFar ==
  ASSUME stream.format \notin H26x, lost = FALSE, NEW t, t = Meant(stream), Len(t) \in Nat,
         t = FirstOf(t, Len(t)), NEW k \in 0..Len(t),
         NEW h, frames = FirstOf(h, k), Alike(h, t, k),
         given = Len(AllBytes(stream)) => k = Len(t)
  PROVE  CutsDoNotMatter
<1> DEFINE got == [i \in DOMAIN frames |->
                    [data |-> frames[i].data, key |-> frames[i].key,
                     track |-> MediaPayload(stream.format, frames[i].data)]]
<1>1. got = FirstOf(t, k)
  <2>1. DOMAIN frames = 1..k /\ \A i \in 1..k : frames[i] = h[i]
    BY DEF FirstOf
  <2>2. \A b : MediaPayload(stream.format, b) = b
    BY DEF MediaPayload
  <2>3. \A i \in 1..k : got[i] = t[i]
    BY <2>1, <2>2 DEF Received, Alike
  <2>4. got = [i \in 1..k |-> got[i]]
    BY <2>1
  <2> HIDE DEF got
  <2> QED
    BY <2>3, <2>4 DEF FirstOf
<1> HIDE DEF got
<1> DEFINE n == Len(t)
<1>3. n \in Nat /\ k \in 0..n /\ t = FirstOf(t, n)
  OBVIOUS
<1> HIDE DEF n
<1>4. IsPrefix(FirstOf(t, k), t)
  BY ONLY <1>3, PrefixOf
<1>5. IsPrefix(got, Meant(stream)) /\ (given = Len(AllBytes(stream)) => got = Meant(stream))
  BY <1>1, <1>3, <1>4 DEF n
<1> QED
  BY <1>5 DEF CutsDoNotMatter, got

\* At the end of the stream all parts are read.
LEMMA AllRead ==
  ASSUME NEW s, IsStream(s), NEW k \in 0..Len(s.parts), AreRead(s, k, Len(AllBytes(s)))
  PROVE  k = Len(s.parts)
<1> DEFINE n == Len(s.parts)
<1>1. /\ n \in Nat /\ Ends(s, n) = Len(AllBytes(s)) /\ \A i \in 0..n : Ends(s, i) \in Nat
      /\ \A i, j \in 0..n : i <= j => Ends(s, i) <= Ends(s, j)
  BY StreamHolds DEF IsStream
<1>2. k \in 0..n /\ (k < n => Ends(s, n) < Ends(s, k + 1))
  BY <1>1 DEF AreRead
<1> HIDE DEF n
<1>3. ASSUME k < n PROVE FALSE
  <2>1. k + 1 \in 0..n /\ n \in 0..n /\ k + 1 <= n
    BY <1>1, <1>2, <1>3
  <2>2. Ends(s, k + 1) <= Ends(s, n) /\ Ends(s, k + 1) \in Nat /\ Ends(s, n) \in Nat
    BY <1>1, <2>1
  <2> QED
    BY <1>2, <1>3, <2>2
<1> QED
  BY <1>1, <1>2, <1>3 DEF n

\* Of IVF, what is returned is what was meant.
LEMMA IvfCuts ==
  ASSUME stream \in Streams, stream.format = "ivf", IvfInv
  PROVE  CutsDoNotMatter
<1> DEFINE s == stream
           R == Returned(s)
           n == Len(s.parts)
           t == Meant(s)
           h == [i \in 1..n |-> [Plain(s.parts[i]) EXCEPT !.key = s.parts[i][1] % 2 = 0]]
<1>1. /\ IsStream(s) /\ R \in Seq(Seq(Frame)) /\ Len(R) = n /\ n \in Nat /\ DOMAIN s.parts = 1..n
      /\ \A k \in 1..n : R[k] = <<h[k]>> /\ s.parts[k] \in Seq(Nat)
  BY IvfStream DEF IsStream
<1>2. h \in [1..n -> Frame]
  <2>1. \A i \in 1..n : h[i] \in Frame
    BY <1>1 DEF Frame, Plain
  <2> QED
    BY <2>1
<1>3. t = [i \in 1..n |-> [Same(s.parts[i]) EXCEPT !.key = s.parts[i][1] % 2 = 0]]
  BY <1>1 DEF Meant, H26x
<1>4. Len(t) = n /\ t = FirstOf(t, Len(t))
  <2>1. DOMAIN t = 1..n /\ t = FirstOf(t, n)
    BY <1>3 DEF FirstOf
  <2> HIDE DEF t, n
  <2> QED
    BY <1>1, <2>1
<1>5. \A i \in 1..n : Received(h[i]) = t[i]
  BY <1>3 DEF Received, Plain, Same
<1>6. lost = FALSE /\ s.format \notin H26x
  BY DEF IvfInv, H26x
<1>7. PICK k \in 0..n : frames = FirstOf(h, k) /\ (given = Len(AllBytes(s)) => k = n)
  <2>1. CASE begun = 0
    <3>1. frames = <<>> /\ given < 4
      BY <2>1 DEF IvfInv
    <3>2. 4 <= Len(AllBytes(s)) /\ Len(AllBytes(s)) \in Nat
      <4>1. Len(HeadOf(s)) = 4
        BY DEF HeadOf, IvfFile
      <4>2. Ends(s, 0) = 4 /\ Ends(s, n) = Len(AllBytes(s)) /\ Ends(s, 0) <= Ends(s, n) /\ Ends(s, n) \in Nat
        <5>1. Encoded(s) \in Seq(Seq(Nat)) /\ DOMAIN s.parts = 1..Len(s.parts) /\ Len(s.parts) \in Nat
          BY <1>1 DEF IsStream
        <5>2. /\ Ends(s, 0) = Len(HeadOf(s)) /\ Ends(s, Len(s.parts)) = Len(AllBytes(s))
              /\ \A j, k \in 0..Len(s.parts) : j <= k => Ends(s, j) <= Ends(s, k)
              /\ \A k \in 0..Len(s.parts) : Ends(s, k) \in Nat
          BY ONLY <5>1, StreamHolds
        <5>3. 0 \in 0..n /\ n \in 0..n /\ 0 <= n
          BY <1>1
        <5> QED
          BY <4>1, <5>2, <5>3
      <4> QED
        BY <4>2
    <3>3. given # Len(AllBytes(s))
      BY <3>1, <3>2 DEF IvfInv
    <3>4. frames = FirstOf(h, 0) /\ 0 \in 0..n
      BY <1>1, <3>1 DEF FirstOf
    <3> HIDE DEF h
    <3> QED
      BY <3>3, <3>4
  <2>2. CASE begun = 1
    <3>1. PICK k \in 0..n : AreRead(s, k, given) /\ frames = Flat(R, k)
      BY <2>2 DEF IvfInv, KeptUp
    <3>2. given = Len(AllBytes(s)) => k = n
      BY <1>1, <3>1, AllRead
    <3>3. Flat(R, k) = FirstOf(h, k)
      <4>1. R \in Seq(Seq(Frame)) /\ h \in [1..Len(R) -> Frame] /\ (\A i \in 1..Len(R) : R[i] = <<h[i]>>) /\ k \in 0..Len(R)
        BY <1>1, <1>2
      <4> HIDE DEF R, h
      <4> QED
        BY ONLY <4>1, OneEach DEF FirstOf
    <3> QED
      BY <3>1, <3>2, <3>3
  <2> QED
    BY <2>1, <2>2 DEF IvfInv
<1> HIDE DEF h, t
<1>10. Alike(h, t, k)
  BY <1>1, <1>5 DEF Alike
<1>8. k \in 0..Len(t) /\ Len(t) \in Nat /\ (given = Len(AllBytes(stream)) => k = Len(t))
  BY <1>1, <1>4, <1>7
<1>9. t = Meant(stream) /\ stream.format \notin H26x
  BY <1>6 DEF t
<1> QED
  BY ONLY <1>4, <1>6, <1>7, <1>8, <1>9, <1>10, MeantSoFar

\* Of Ogg, what is returned is what was meant.
LEMMA OggCuts ==
  ASSUME stream \in Streams, stream.format = "ogg", OggInv
  PROVE  CutsDoNotMatter
<1> DEFINE s == stream
           R == s.parts
           n == Len(s.parts)
           all == Filled(From(FlattenSeq(R), 3))
           t == Meant(s)
<1>1. /\ IsStream(s) /\ R \in Seq(Seq(Seq(Nat))) /\ n \in Nat
  BY OggStream DEF IsStream
<1>2. lost = FALSE /\ s.format \notin H26x
  BY DEF OggInv, H26x
<1>3. PICK k \in 0..n : AreRead(s, k, given) /\ frames = Plains(Filled(From(Flat(R, k), 3)))
  BY DEF OggInv, OggKept
<1>4. given = Len(AllBytes(s)) => k = n
  BY <1>1, <1>3, AllRead
<1> DEFINE q == Flat(R, k)
           o == Rest(R, k, n)
           skip == Min({2 - Headers(q), Len(o)})
<1>5. q \in Seq(Seq(Nat)) /\ o \in Seq(Seq(Nat)) /\ q \o o = FlattenSeq(R)
  <2>1. k \in 0..Len(R) /\ Len(R) \in k..Len(R)
    BY <1>1
  <2>2. Flat(R, Len(R)) = FlattenSeq(R)
    BY <1>1, FlatSteps
  <2> HIDE DEF R
  <2>3. q \in Seq(Seq(Nat)) /\ Rest(R, k, Len(R)) \in Seq(Seq(Nat)) /\ q \o Rest(R, k, Len(R)) = Flat(R, Len(R))
    BY ONLY <1>1, <2>1, RestGoesOn
  <2> QED
    BY <2>2, <2>3 DEF R
<1> HIDE DEF q, o, skip
<1>6. /\ From(q, 3) \in Seq(Seq(Nat)) /\ From(o, skip + 1) \in Seq(Seq(Nat))
      /\ From(q \o o, 3) = From(q, 3) \o From(o, skip + 1)
  <2> DEFINE T == Seq(Nat)
  <2>1. q \in Seq(T) /\ o \in Seq(T)
    BY <1>5
  <2> HIDE DEF T
  <2>2. GoesOnAfter(T, q, o, Min({2 - Headers(q), Len(o)}))
    BY ONLY <2>1, HeadersSkipped
  <2>3. GoesOnAfter(T, q, o, skip)
    BY <2>2 DEF skip
  <2> QED
    BY <2>3 DEF T, GoesOnAfter
<1> DEFINE a == Filled(From(q, 3))
           c == Filled(From(o, skip + 1))
<1>7. a \in Seq(Seq(Nat)) /\ c \in Seq(Seq(Nat)) /\ all = a \o c
  <2>1. a \in Seq(Seq(Nat)) /\ c \in Seq(Seq(Nat)) /\ Filled(From(q, 3) \o From(o, skip + 1)) = a \o c
    BY ONLY <1>6, FilledJoins
  <2> QED
    BY <1>5, <1>6, <2>1
<1> HIDE DEF a, c, all
<1>8. a \in Seq(Seq(Nat)) /\ Len(a) \in Nat /\ DOMAIN a = 1..Len(a)
  BY <1>7
<1>9. frames = FirstOf(frames, Len(a)) /\ \A i \in 1..Len(a) : frames[i] = Plain(a[i])
  <2>1. frames = Plains(a)
    BY <1>3 DEF a, q
  <2> QED
    BY <1>8, <2>1 DEF Plains, FirstOf
<1>10. /\ all \in Seq(Seq(Nat)) /\ Len(all) \in Nat /\ Len(a) \in 0..Len(all)
       /\ \A i \in 1..Len(a) : all[i] = a[i]
  <2>1. a \in Seq(Seq(Nat)) /\ c \in Seq(Seq(Nat))
    BY <1>7
  <2>2. /\ a \o c \in Seq(Seq(Nat)) /\ Len(a) \in Nat /\ Len(c) \in Nat
        /\ Len(a \o c) = Len(a) + Len(c)
        /\ \A i \in 1..Len(a) : (a \o c)[i] = a[i]
    BY ONLY <2>1, JoinIs
  <2>3. /\ all \in Seq(Seq(Nat)) /\ Len(a) \in Nat /\ Len(c) \in Nat
        /\ Len(all) = Len(a) + Len(c)
        /\ \A i \in 1..Len(a) : all[i] = a[i]
    BY ONLY <1>7, <2>2
  <2> QED
    BY ONLY <2>3
<1>11. t = [i \in DOMAIN all |-> Same(all[i])] /\ DOMAIN all = 1..Len(all)
  <2>1. t = [i \in DOMAIN all |-> Same(all[i])]
    BY <1>1 DEF Meant, H26x, all
  <2> QED
    BY <1>10, <2>1
<1> HIDE DEF t
<1>12. Len(t) = Len(all) /\ t = FirstOf(t, Len(t)) /\ \A i \in 1..Len(all) : t[i] = Same(all[i])
  <2>1. t = [i \in 1..Len(all) |-> Same(all[i])]
    BY <1>11
  <2>2. DOMAIN t = 1..Len(all) /\ \A i \in 1..Len(all) : t[i] = Same(all[i])
    BY <2>1
  <2>3. Len(t) = Len(all)
    BY <1>10, <2>1
  <2>4. t = [i \in 1..Len(all) |-> t[i]]
    BY <2>1
  <2> QED
    BY <2>2, <2>3, <2>4 DEF FirstOf
<1>13. Alike(frames, t, Len(a))
  <2> SUFFICES ASSUME NEW i \in 1..Len(a) PROVE Received(frames[i]) = t[i]
    BY DEF Alike
  <2>1. i \in 1..Len(all)
    BY <1>10
  <2>2. frames[i] = Plain(a[i]) /\ t[i] = Same(a[i])
    BY <1>9, <1>10, <1>12, <2>1
  <2> QED
    BY <2>2 DEF Received, Plain, Same
<1>14. given = Len(AllBytes(s)) => Len(a) = Len(t)
  <2> SUFFICES ASSUME given = Len(AllBytes(s)) PROVE Len(a) = Len(t)
    OBVIOUS
  <2>1. q = FlattenSeq(R)
    <3>1. Flat(R, Len(R)) = FlattenSeq(R)
      BY <1>1, FlatSteps
    <3> QED
      BY <1>4, <3>1 DEF q
  <2>2. a = all
    BY <2>1 DEF a, all
  <2> QED
    BY <1>12, <2>2
<1>15. Len(a) \in 0..Len(t) /\ Len(t) \in Nat /\ (given = Len(AllBytes(stream)) => Len(a) = Len(t))
  BY <1>10, <1>12, <1>14
<1>16. t = Meant(stream) /\ stream.format \notin H26x /\ t = FirstOf(t, Len(t))
  BY <1>2, <1>12 DEF t
<1> DEFINE l == Len(a)
<1>17. /\ l \in 0..Len(t) /\ Len(t) \in Nat /\ (given = Len(AllBytes(stream)) => l = Len(t))
       /\ frames = FirstOf(frames, l) /\ Alike(frames, t, l)
  BY <1>9, <1>13, <1>15
<1> HIDE DEF l
<1> QED
  BY ONLY <1>2, <1>16, <1>17, MeantSoFar

\* Of ADTS, what is returned is what was meant.
LEMMA AdtsCuts ==
  ASSUME stream \in Streams, stream.format = "adts", AdtsInv
  PROVE  CutsDoNotMatter
<1> DEFINE s == stream
           R == Returned(s)
           n == Len(s.parts)
           t == Meant(s)
           h == [i \in 1..n |-> Plain(Adts(s.parts[i]))]
<1>0. CASE torn = TRUE
  BY <1>0 DEF CutsDoNotMatter
<1>1. /\ IsStream(s) /\ R \in Seq(Seq(Frame)) /\ Len(R) = n /\ n \in Nat /\ DOMAIN s.parts = 1..n
      /\ \A k \in 1..n : R[k] = <<h[k]>> /\ s.parts[k] \in Seq(Nat)
  BY AdtsStream DEF IsStream
<1>2. h \in [1..n -> Frame]
  <2>1. ASSUME NEW i \in 1..n PROVE h[i] \in Frame
    <3>1. R[i] \in Seq(Frame) /\ R[i] = <<h[i]>>
      <4> HIDE DEF R, h
      <4> QED
        BY <1>1
    <3> DEFINE r == R[i]
               x == h[i]
    <3>2. r = <<x>> /\ r \in Seq(Frame)
      BY <3>1
    <3> HIDE DEF r, x
    <3>3. x \in Frame
      BY ONLY <3>2
    <3> QED
      BY <3>3 DEF x
  <2> QED
    BY <2>1
<1>3. t = [i \in 1..n |-> Same(Adts(s.parts[i]))]
  BY <1>1 DEF Meant, H26x
<1>4. Len(t) = n /\ t = FirstOf(t, Len(t))
  <2>1. DOMAIN t = 1..n /\ t = FirstOf(t, n)
    BY <1>3 DEF FirstOf
  <2> HIDE DEF t, n
  <2> QED
    BY <1>1, <2>1
<1>5. \A i \in 1..n : Received(h[i]) = t[i]
  BY <1>3 DEF Received, Plain, Same
<1>6. torn = FALSE => lost = FALSE /\ KeptUp
  BY DEF AdtsInv
<1>7. CASE torn = FALSE
  <2>1. lost = FALSE /\ s.format \notin H26x
    BY <1>6, <1>7 DEF H26x
  <2>2. PICK k \in 0..n : AreRead(s, k, given) /\ frames = Flat(R, k)
    BY <1>6, <1>7 DEF KeptUp
  <2>3. given = Len(AllBytes(s)) => k = n
    BY <1>1, <2>2, AllRead
  <2>4. Flat(R, k) = FirstOf(h, k)
    <3>1. R \in Seq(Seq(Frame)) /\ h \in [1..Len(R) -> Frame] /\ (\A i \in 1..Len(R) : R[i] = <<h[i]>>) /\ k \in 0..Len(R)
      BY <1>1, <1>2
    <3> HIDE DEF R, h
    <3> QED
      BY ONLY <3>1, OneEach DEF FirstOf
  <2>5. frames = FirstOf(h, k)
    BY <2>2, <2>4
  <2> HIDE DEF h, t
  <2>10. Alike(h, t, k)
    BY <1>1, <1>5 DEF Alike
  <2>8. k \in 0..Len(t) /\ Len(t) \in Nat /\ (given = Len(AllBytes(stream)) => k = Len(t))
    BY <1>1, <1>4, <2>3
  <2>9. t = Meant(stream) /\ stream.format \notin H26x
    BY <2>1 DEF t
  <2> QED
    BY ONLY <1>4, <2>1, <2>5, <2>8, <2>9, <2>10, MeantSoFar
<1> QED
  BY <1>0, <1>7 DEF AdtsInv
=============================================================================
