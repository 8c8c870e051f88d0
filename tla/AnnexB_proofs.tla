---------------------------- MODULE AnnexB_proofs -----------------------------
(***************************************************************************)
(* What is proved of StreamParsers, of AnnexBParser: for all streams of    *)
(* H.264 and H.265 with the units that StreamsAssumption allows, however   *)
(* they are read.  A start code is found where a unit begins and nowhere   *)
(* else, so that what push cuts out of its buffer is what was written;     *)
(* after every read, it has returned the pictures before the last          *)
(* delimiter that it has heard, and has kept the rest.  Then the theorems  *)
(* about all the parsers.                                                  *)
(***************************************************************************)
EXTENDS StreamParsers_proofs

-----------------------------------------------------------------------------
(* Start codes.  W is a stream of n units, e their ends, c their codes.    *)

\* W is n units, of which the i-th goes up to e[i], its start code taking c[i].
Laid(W, n, e, c) ==
  /\ W \in Seq(Nat) /\ n \in Nat /\ e \in [0..n -> Nat] /\ c \in [1..n -> {3, 4}]
  /\ e[0] = 0 /\ e[n] = Len(W)
  /\ \A i \in 1..n :
       /\ e[i - 1] + c[i] < e[i]
       /\ W[e[i - 1] + 1] = 0 /\ W[e[i - 1] + 2] = 0
       /\ c[i] = 3 => W[e[i - 1] + 3] = 1
       /\ c[i] = 4 => W[e[i - 1] + 3] = 0 /\ W[e[i - 1] + 4] = 1
       /\ W[e[i]] # 0
       /\ \A p \in e[i - 1] + c[i] + 1..e[i] - 2 : ~(W[p] = 0 /\ W[p + 1] = 0 /\ W[p + 2] \in {0, 1})

\* The zeros and the one of a long and of a short start code.
Four(W, p)  == W[p] = 0 /\ W[p + 1] = 0 /\ W[p + 2] = 0 /\ W[p + 3] = 1
Three(W, p) == W[p] = 0 /\ W[p + 1] = 0 /\ W[p + 2] = 1

\* The ends of the units grow, by four and more.
LEMMA EndsGrow ==
  ASSUME NEW W, NEW n, NEW e, NEW c, Laid(W, n, e, c)
  PROVE  /\ n \in Nat /\ \A i \in 0..n : e[i] \in Nat
         /\ \A i, j \in 0..n : i <= j => e[i] <= e[j]
         /\ \A i, j \in 0..n : i < j => e[i] + 4 <= e[j]
         /\ \A i \in 0..n : e[i] <= Len(W)
<1>1. n \in Nat /\ (\A i \in 0..n : e[i] \in Nat) /\ e[n] = Len(W)
  BY DEF Laid
<1>2. \A i \in 1..n : e[i - 1] + c[i] < e[i] /\ c[i] \in {3, 4}
  BY DEF Laid
<1>3. ASSUME NEW i \in 0..n
      PROVE  \A m \in Nat : i + m <= n => e[i] <= e[i + m] /\ (m > 0 => e[i] + 4 <= e[i + m])
  <2> DEFINE I == {m \in Nat : i + m <= n => e[i] <= e[i + m] /\ (m > 0 => e[i] + 4 <= e[i + m])}
  <2>1. 0 \in I
    <3>1. i + 0 = i /\ e[i] \in Nat
      BY <1>1
    <3> QED
      BY <3>1
  <2>2. ASSUME NEW m \in I PROVE m + 1 \in I
    <3> SUFFICES ASSUME i + (m + 1) <= n PROVE e[i] <= e[i + (m + 1)] /\ e[i] + 4 <= e[i + (m + 1)]
      OBVIOUS
    <3> DEFINE j == i + (m + 1)
    <3>1. m \in Nat /\ i + m \in 0..n /\ j \in 1..n /\ j \in 0..n /\ j - 1 = i + m /\ i + m <= n
      BY <1>1
    <3>2. e[i] <= e[i + m]
      BY <3>1
    <3>3. e[j - 1] + c[j] < e[j] /\ c[j] \in {3, 4} /\ e[i] \in Nat /\ e[i + m] \in Nat /\ e[j] \in Nat
      BY <1>1, <1>2, <3>1
    <3> HIDE DEF j
    <3> DEFINE x == e[i]
               y == e[i + m]
               z == e[j]
               d == c[j]
    <3>4. x <= y /\ y + d < z /\ d \in {3, 4} /\ x \in Nat /\ y \in Nat /\ z \in Nat
      BY <3>1, <3>2, <3>3
    <3> HIDE DEF x, y, z, d
    <3>5. x <= z /\ x + 4 <= z
      BY ONLY <3>4
    <3> QED
      BY <3>5 DEF x, z, j
  <2>3. I = Nat
    <3>1. I \in SUBSET Nat
      OBVIOUS
    <3> HIDE DEF I
    <3> QED
      BY <2>1, <2>2, <3>1, Induction
  <2> QED
    BY <2>3
<1>4. ASSUME NEW i \in 0..n, NEW j \in 0..n, i <= j
      PROVE  e[i] <= e[j] /\ (i < j => e[i] + 4 <= e[j])
  <2> DEFINE m == j - i
  <2>1. m \in Nat /\ i + m = j /\ i + m <= n /\ (i < j => m > 0)
    BY <1>1, <1>4
  <2> HIDE DEF m
  <2>2. e[i] <= e[i + m] /\ (m > 0 => e[i] + 4 <= e[i + m])
    BY <1>3, <2>1
  <2> QED
    BY <2>1, <2>2
<1>5. \A i, j \in 0..n : i < j => i <= j
  BY <1>1
<1>6. \A i \in 0..n : e[i] <= Len(W)
  <2> TAKE i \in 0..n
  <2>1. n \in 0..n /\ i <= n
    BY <1>1
  <2> QED
    BY <1>1, <1>4, <2>1
<1> QED
  BY <1>1, <1>4, <1>5, <1>6

\* Each byte is in one of them.
LEMMA Located ==
  ASSUME NEW W, NEW n, NEW e, NEW c, Laid(W, n, e, c), NEW p \in 1..Len(W)
  PROVE  \E i \in 1..n : e[i - 1] < p /\ p <= e[i]
<1>1. n \in Nat /\ (\A i \in 0..n : e[i] \in Nat) /\ e[0] = 0 /\ e[n] = Len(W) /\ p \in Nat /\ p > 0
  BY DEF Laid
<1> DEFINE I == {i \in 0..n : p <= e[i]}
<1>2. I \in SUBSET Nat /\ n \in I
  BY <1>1
<1>3. PICK i \in I : \A m \in I : i <= m
  <2> HIDE DEF I
  <2> QED
    BY <1>2, LeastOf
<1>4. i # 0 /\ i \in 1..n
  BY <1>1
<1>5. i - 1 \in 0..n /\ i - 1 \notin I
  BY <1>1, <1>3, <1>4
<1>6. e[i - 1] < p
  BY <1>1, <1>5
<1> QED
  BY <1>4, <1>6

\* In a stream of units, there is a start code only where a unit begins, and a short one in
\* each long one.
LEMMA CodesAre ==
  ASSUME NEW W, NEW n, NEW e, NEW c, Laid(W, n, e, c), NEW p \in 1..Len(W) - 3
  PROVE  /\ Four(W, p) <=> \E i \in 1..n : p = e[i - 1] + 1 /\ c[i] = 4
         /\ Three(W, p) <=> \E i \in 1..n : (p = e[i - 1] + 1 /\ c[i] = 3) \/ (p = e[i - 1] + 2 /\ c[i] = 4)
<1>1. W \in Seq(Nat) /\ Len(W) \in Nat /\ p \in 1..Len(W)
  BY DEF Laid
<1>2. PICK i \in 1..n : e[i - 1] < p /\ p <= e[i]
  BY <1>1, Located
<1>3. n \in Nat /\ (\A j \in 0..n : e[j] \in Nat) /\ (\A j, k \in 0..n : j <= k => e[j] <= e[k])
  BY EndsGrow
<1> DEFINE f == e[i - 1]
           z == e[i]
           d == c[i]
<1>4. f \in Nat /\ z \in Nat /\ d \in {3, 4} /\ f + d < z /\ f < p /\ p <= z /\ p \in Nat
  <2>1. i - 1 \in 0..n /\ i \in 0..n
    BY <1>3
  <2> QED
    BY <1>1, <1>2, <1>3, <2>1 DEF Laid
<1>5. /\ W[f + 1] = 0 /\ W[f + 2] = 0
      /\ d = 3 => W[f + 3] = 1
      /\ d = 4 => W[f + 3] = 0 /\ W[f + 4] = 1
      /\ W[z] # 0
      /\ \A x \in f + d + 1..z - 2 : ~(W[x] = 0 /\ W[x + 1] = 0 /\ W[x + 2] \in {0, 1})
  BY DEF Laid
\* Which part it is of.
<1>6. ASSUME NEW j \in 1..n, p = e[j - 1] + 1 \/ p = e[j - 1] + 2
      PROVE  j = i
  <2>1. e[j - 1] + 4 <= e[j] /\ j - 1 \in 0..n /\ j \in 0..n /\ i - 1 \in 0..n /\ i \in 0..n
    <3>1. j - 1 \in 0..n /\ j \in 0..n /\ i - 1 \in 0..n /\ i \in 0..n /\ j - 1 < j
      BY <1>3
    <3> QED
      BY <3>1, EndsGrow
  <2>2. e[j - 1] \in Nat /\ e[j] \in Nat /\ e[j - 1] < p /\ p <= e[j]
    <3> DEFINE x == e[j - 1]
               y == e[j]
    <3>1. x \in Nat /\ y \in Nat /\ x + 4 <= y /\ (p = x + 1 \/ p = x + 2)
      BY <1>3, <1>6, <2>1
    <3> HIDE DEF x, y
    <3>2. x < p /\ p <= y
      BY ONLY <3>1
    <3> QED
      BY <3>1, <3>2 DEF x, y
  <2>3. CASE j < i
    <3>1. j <= i - 1
      BY <1>3, <2>3
    <3>2. e[j] <= e[i - 1]
      BY <1>3, <2>1, <3>1
    <3> QED
      BY <1>4, <2>2, <3>2
  <2>4. CASE i < j
    <3>1. i <= j - 1
      BY <1>3, <2>4
    <3>2. e[i] <= e[j - 1]
      BY <1>3, <2>1, <3>1
    <3> QED
      BY <1>4, <2>2, <3>2
  <2> QED
    BY <1>3, <2>3, <2>4
<1> HIDE DEF f, z, d
<1>7. Three(W, p) => (p = f + 1 /\ d = 3) \/ (p = f + 2 /\ d = 4)
  <2> SUFFICES ASSUME W[p] = 0, W[p + 1] = 0, W[p + 2] = 1 PROVE (p = f + 1 /\ d = 3) \/ (p = f + 2 /\ d = 4)
    BY DEF Three
  <2>1. CASE p > f + d
    <3>1. p # z /\ p + 1 # z
      BY <1>5
    <3>2. p \in f + d + 1..z - 2
      BY <1>4, <2>1, <3>1
    <3> QED
      BY <1>5, <3>2
  <2>2. CASE p <= f + d
    <3>1. p = f + 1 \/ p = f + 2 \/ p = f + 3 \/ (p = f + 4 /\ d = 4)
      BY <1>4, <2>2
    <3>2. p # f + 4
      BY <1>4, <1>5, <2>2
    <3>3. d = 3 => p # f + 3 /\ p # f + 2
      <4>1. f + 2 + 1 = f + 3
        BY <1>4
      <4> QED
        BY <1>5, <4>1
    <3>4. d = 4 => p # f + 3 /\ p # f + 1
      <4>1. f + 3 + 1 = f + 4 /\ f + 1 + 2 = f + 3
        BY <1>4
      <4> QED
        BY <1>5, <4>1
    <3> QED
      BY <1>4, <3>1, <3>2, <3>3, <3>4
  <2> QED
    BY <1>4, <2>1, <2>2
<1>8. Four(W, p) => p = f + 1 /\ d = 4
  <2> SUFFICES ASSUME W[p] = 0, W[p + 1] = 0, W[p + 2] = 0, W[p + 3] = 1 PROVE p = f + 1 /\ d = 4
    BY DEF Four
  <2>1. CASE p > f + d
    <3>1. p # z /\ p + 1 # z
      BY <1>5
    <3>2. p \in f + d + 1..z - 2
      BY <1>4, <2>1, <3>1
    <3> QED
      BY <1>5, <3>2
  <2>2. CASE p <= f + d
    <3>1. p = f + 1 \/ p = f + 2 \/ p = f + 3 \/ (p = f + 4 /\ d = 4)
      BY <1>4, <2>2
    <3>2. p # f + 4
      BY <1>4, <1>5, <2>2
    <3>3. d = 3 => p # f + 3 /\ p # f + 2 /\ p # f + 1
      <4>1. f + 2 + 1 = f + 3 /\ f + 1 + 2 = f + 3
        BY <1>4
      <4> QED
        BY <1>5, <4>1
    <3>4. d = 4 => p # f + 3 /\ p # f + 2
      <4>1. f + 3 + 1 = f + 4 /\ f + 2 + 2 = f + 4
        BY <1>4
      <4> QED
        BY <1>5, <4>1
    <3> QED
      BY <1>4, <3>1, <3>2, <3>3, <3>4
  <2> QED
    BY <1>4, <2>1, <2>2
<1>9. (p = f + 1 /\ d = 3) \/ (p = f + 2 /\ d = 4) => Three(W, p)
  <2>1. f + 1 + 1 = f + 2 /\ f + 1 + 2 = f + 3 /\ f + 2 + 1 = f + 3 /\ f + 2 + 2 = f + 4
    BY <1>4
  <2> QED
    BY <1>5, <2>1 DEF Three
<1>10. p = f + 1 /\ d = 4 => Four(W, p)
  <2>1. f + 1 + 1 = f + 2 /\ f + 1 + 2 = f + 3 /\ f + 1 + 3 = f + 4
    BY <1>4
  <2> QED
    BY <1>5, <2>1 DEF Four
<1>11. Four(W, p) <=> \E j \in 1..n : p = e[j - 1] + 1 /\ c[j] = 4
  <2>1. ASSUME Four(W, p) PROVE \E j \in 1..n : p = e[j - 1] + 1 /\ c[j] = 4
    BY <1>8, <2>1 DEF f, d
  <2>2. ASSUME NEW j \in 1..n, p = e[j - 1] + 1, c[j] = 4 PROVE Four(W, p)
    <3>1. j = i
      BY <1>6, <2>2
    <3> QED
      BY <1>10, <2>2, <3>1 DEF f, d
  <2> QED
    BY <2>1, <2>2
<1>12. Three(W, p) <=> \E j \in 1..n : (p = e[j - 1] + 1 /\ c[j] = 3) \/ (p = e[j - 1] + 2 /\ c[j] = 4)
  <2>1. ASSUME Three(W, p) PROVE \E j \in 1..n : (p = e[j - 1] + 1 /\ c[j] = 3) \/ (p = e[j - 1] + 2 /\ c[j] = 4)
    BY <1>7, <2>1 DEF f, d
  <2>2. ASSUME NEW j \in 1..n, (p = e[j - 1] + 1 /\ c[j] = 3) \/ (p = e[j - 1] + 2 /\ c[j] = 4) PROVE Three(W, p)
    <3>1. j = i
      BY <1>6, <2>2
    <3> QED
      BY <1>9, <2>2, <3>1 DEF f, d
  <2> QED
    BY <2>1, <2>2
<1> QED
  BY <1>11, <1>12

\* What is at a place of a sequence, against what is written out.
LEMMA FourAt ==
  ASSUME NEW b \in Seq(Nat), NEW x \in Nat \ {0}
  PROVE  /\ Is4(b, x) <=> x + 3 <= Len(b) /\ Four(b, x)
         /\ Is3(b, x) <=> x + 3 <= Len(b) /\ Three(b, x)
<1> DEFINE n == Len(b)
<1>0. n \in Nat
  OBVIOUS
<1> HIDE DEF n
<1> SUFFICES ASSUME x + 3 <= n
             PROVE  /\ SubSeq(b, x, x + 3) = <<0, 0, 0, 1>> <=> Four(b, x)
                    /\ SubSeq(b, x, x + 2) = <<0, 0, 1>> <=> Three(b, x)
  BY <1>0 DEF Is4, Is3, n
<1> DEFINE a == x - 1
           w == SubSeq(b, a + 1, x + 3)
           v == SubSeq(b, a + 1, x + 2)
           t == <<0, 0, 0, 1>>
           r == <<0, 0, 1>>
<1>1. /\ a \in Nat /\ a + 1 = x /\ x + 3 \in a..Len(b) /\ x + 2 \in a..Len(b)
      /\ x + 3 - a = 4 /\ x + 2 - a = 3 /\ a + 2 = x + 1 /\ a + 3 = x + 2 /\ a + 4 = x + 3
  BY <1>0 DEF n
<1>6. w = SubSeq(b, x, x + 3) /\ v = SubSeq(b, x, x + 2)
  BY <1>1
<1> HIDE DEF a
<1>2. w \in Seq(Nat) /\ Len(w) = 4 /\ w[1] = b[x] /\ w[2] = b[x + 1] /\ w[3] = b[x + 2] /\ w[4] = b[x + 3]
  <2>1. w \in Seq(Nat) /\ Len(w) = 4 /\ \A i \in 1..4 : w[i] = b[a + i]
    <3> DEFINE z == x + 3
    <3>1. b \in Seq(Nat) /\ a \in Nat /\ z \in a..Len(b)
      BY <1>1
    <3> HIDE DEF z
    <3>2. /\ SubSeq(b, a + 1, z) \in Seq(Nat)
          /\ Len(SubSeq(b, a + 1, z)) = z - a
          /\ \A i \in 1..z - a : SubSeq(b, a + 1, z)[i] = b[a + i]
      BY ONLY <3>1, WindowOf
    <3>3. w = SubSeq(b, a + 1, z) /\ z - a = 4
      BY <1>1 DEF z
    <3> HIDE DEF w
    <3> QED
      BY ONLY <3>2, <3>3
  <2>2. 1 \in 1..4 /\ 2 \in 1..4 /\ 3 \in 1..4 /\ 4 \in 1..4
    OBVIOUS
  <2> HIDE DEF w
  <2> QED
    BY ONLY <1>1, <2>1, <2>2
<1>3. v \in Seq(Nat) /\ Len(v) = 3 /\ v[1] = b[x] /\ v[2] = b[x + 1] /\ v[3] = b[x + 2]
  <2>1. v \in Seq(Nat) /\ Len(v) = 3 /\ \A i \in 1..3 : v[i] = b[a + i]
    <3> DEFINE z == x + 2
    <3>1. b \in Seq(Nat) /\ a \in Nat /\ z \in a..Len(b)
      BY <1>1
    <3> HIDE DEF z
    <3>2. /\ SubSeq(b, a + 1, z) \in Seq(Nat)
          /\ Len(SubSeq(b, a + 1, z)) = z - a
          /\ \A i \in 1..z - a : SubSeq(b, a + 1, z)[i] = b[a + i]
      BY ONLY <3>1, WindowOf
    <3>3. v = SubSeq(b, a + 1, z) /\ z - a = 3
      BY <1>1 DEF z
    <3> HIDE DEF v
    <3> QED
      BY ONLY <3>2, <3>3
  <2>2. 1 \in 1..3 /\ 2 \in 1..3 /\ 3 \in 1..3
    OBVIOUS
  <2> HIDE DEF v
  <2> QED
    BY ONLY <1>1, <2>1, <2>2
<1>4. t \in Seq(Nat) /\ Len(t) = 4 /\ t[1] = 0 /\ t[2] = 0 /\ t[3] = 0 /\ t[4] = 1
  OBVIOUS
<1>5. r \in Seq(Nat) /\ Len(r) = 3 /\ r[1] = 0 /\ r[2] = 0 /\ r[3] = 1
  OBVIOUS
<1> HIDE DEF w, v, t, r
<1>7. w = t <=> Four(b, x)
  <2>1. ASSUME w = t PROVE Four(b, x)
    BY <1>2, <1>4, <2>1 DEF Four
  <2>2. ASSUME Four(b, x) PROVE w = t
    <3>1. w[1] = t[1] /\ w[2] = t[2] /\ w[3] = t[3] /\ w[4] = t[4]
      BY <1>2, <1>4, <2>2 DEF Four
    <3>2. \A i \in 1..4 : i = 1 \/ i = 2 \/ i = 3 \/ i = 4
      OBVIOUS
    <3>3. Len(w) = Len(t) /\ \A i \in 1..Len(w) : w[i] = t[i]
      BY ONLY <1>2, <1>4, <3>1, <3>2
    <3> QED
      BY ONLY <1>2, <1>4, <3>3, SeqEqual
  <2> QED
    BY <2>1, <2>2
<1>8. v = r <=> Three(b, x)
  <2>1. ASSUME v = r PROVE Three(b, x)
    BY <1>3, <1>5, <2>1 DEF Three
  <2>2. ASSUME Three(b, x) PROVE v = r
    <3>1. v[1] = r[1] /\ v[2] = r[2] /\ v[3] = r[3]
      BY <1>3, <1>5, <2>2 DEF Three
    <3>2. \A i \in 1..3 : i = 1 \/ i = 2 \/ i = 3
      OBVIOUS
    <3>3. Len(v) = Len(r) /\ \A i \in 1..Len(v) : v[i] = r[i]
      BY ONLY <1>3, <1>5, <3>1, <3>2
    <3> QED
      BY ONLY <1>3, <1>5, <3>3, SeqEqual
  <2> QED
    BY <2>1, <2>2
<1>9. w = SubSeq(b, x, x + 3) /\ v = SubSeq(b, x, x + 2) /\ t = <<0, 0, 0, 1>> /\ r = <<0, 0, 1>>
  BY <1>6 DEF t, r
<1> QED
  BY ONLY <1>7, <1>8, <1>9

\* b is what comes after a and up to g.
Cut(W, a, g) == SubSeq(W, a + 1, g)

\* So it is in what is unused, as far as it goes.
LEMMA CodesInCut ==
  ASSUME NEW W \in Seq(Nat), NEW a \in Nat, NEW g \in a..Len(W), NEW x \in Nat \ {0}
  PROVE  /\ Is4(Cut(W, a, g), x) <=> a + x + 3 <= g /\ Four(W, a + x)
         /\ Is3(Cut(W, a, g), x) <=> a + x + 3 <= g /\ Three(W, a + x)
<1> DEFINE b == Cut(W, a, g)
<1>1. b \in Seq(Nat) /\ Len(b) = g - a /\ \A i \in 1..g - a : b[i] = W[a + i]
  BY WindowOf DEF Cut
<1>2. g \in Nat
  OBVIOUS
<1> HIDE DEF b
<1>3. /\ Is4(b, x) <=> x + 3 <= Len(b) /\ Four(b, x)
      /\ Is3(b, x) <=> x + 3 <= Len(b) /\ Three(b, x)
  BY ONLY <1>1, x \in Nat \ {0}, FourAt
<1>4. x + 3 <= Len(b) <=> a + x + 3 <= g
  BY <1>1, <1>2
<1>5. ASSUME a + x + 3 <= g
      PROVE  (Four(b, x) <=> Four(W, a + x)) /\ (Three(b, x) <=> Three(W, a + x))
  <2>1. x \in 1..g - a /\ x + 1 \in 1..g - a /\ x + 2 \in 1..g - a /\ x + 3 \in 1..g - a
    BY <1>2, <1>5
  <2>2. a + (x + 1) = a + x + 1 /\ a + (x + 2) = a + x + 2 /\ a + (x + 3) = a + x + 3
    OBVIOUS
  <2>3. b[x] = W[a + x] /\ b[x + 1] = W[a + x + 1] /\ b[x + 2] = W[a + x + 2] /\ b[x + 3] = W[a + x + 3]
    <3>1. b[x + 1] = W[a + (x + 1)]
      BY ONLY <1>1, <2>1
    <3>2. b[x + 2] = W[a + (x + 2)]
      BY ONLY <1>1, <2>1
    <3>3. b[x + 3] = W[a + (x + 3)]
      BY ONLY <1>1, <2>1
    <3>4. b[x] = W[a + x]
      BY ONLY <1>1, <2>1
    <3> QED
      BY ONLY <2>2, <3>1, <3>2, <3>3, <3>4
  <2> QED
    BY <2>3 DEF Four, Three
<1> QED
  BY <1>3, <1>4, <1>5 DEF b

\* The parts of which a start code is seen in what is read.
Seen(n, e, k, g) == {i \in k + 1..n : e[i - 1] + 4 <= g}

\* Where the parts begin when k are used.
Places(e, k, S) == {e[i - 1] + 1 - e[k] : i \in S}

\* start_codes finds the units that begin before the last bytes, each once.
LEMMA StartCodesAre ==
  ASSUME NEW W, NEW n, NEW e, NEW c, Laid(W, n, e, c), NEW k \in 0..n, NEW g \in e[k]..Len(W)
  PROVE  StartCodes(Cut(W, e[k], g)) = Places(e, k, Seen(n, e, k, g))
<1> DEFINE a == e[k]
           b == Cut(W, a, g)
           S == StartCodes(b)
           R == {e[i - 1] + 1 - a : i \in Seen(n, e, k, g)}
<1>1. /\ n \in Nat /\ \A i \in 0..n : e[i] \in Nat
      /\ \A i, j \in 0..n : i <= j => e[i] <= e[j]
      /\ \A i, j \in 0..n : i < j => e[i] + 4 <= e[j]
  BY EndsGrow
<1>2. W \in Seq(Nat) /\ Len(W) \in Nat /\ a \in Nat /\ g \in a..Len(W) /\ g \in Nat /\ c \in [1..n -> {3, 4}]
  <2>1. W \in Seq(Nat) /\ a \in Nat /\ g \in a..Len(W) /\ c \in [1..n -> {3, 4}]
    BY <1>1 DEF Laid
  <2> HIDE DEF a
  <2> QED
    BY <2>1
<1>3. b \in Seq(Nat) /\ Len(b) = g - a
  <2> HIDE DEF a
  <2> QED
    BY ONLY <1>2, WindowOf DEF Cut
<1>4. S = {x \in DOMAIN b : Is4(b, x) \/ (Is3(b, x) /\ ~(x > 1 /\ Is4(b, x - 1)))}
  BY DEF StartCodes
<1>5. DOMAIN b = 1..g - a
  <2> HIDE DEF a, b
  <2> QED
    BY ONLY <1>3
<1>6. ASSUME NEW x \in Nat \ {0}
      PROVE  /\ Is4(b, x) <=> a + x + 3 <= g /\ Four(W, a + x)
             /\ Is3(b, x) <=> a + x + 3 <= g /\ Three(W, a + x)
  <2> HIDE DEF a
  <2> QED
    BY ONLY <1>2, x \in Nat \ {0}, CodesInCut
<1>7. ASSUME NEW p \in Nat \ {0}, p + 3 <= g
      PROVE  /\ Four(W, p) <=> \E i \in 1..n : p = e[i - 1] + 1 /\ c[i] = 4
             /\ Three(W, p) <=> \E i \in 1..n : (p = e[i - 1] + 1 /\ c[i] = 3) \/ (p = e[i - 1] + 2 /\ c[i] = 4)
  <2>1. p \in 1..Len(W) - 3
    <3> HIDE DEF a
    <3> QED
      BY <1>2, <1>7
  <2> QED
    BY <2>1, CodesAre
<1> HIDE DEF a, b, S, R
<1>8. a = e[k]
  BY DEF a
<1>9. ASSUME NEW x \in S PROVE x \in R
  <2>1. x \in 1..g - a /\ x \in Nat \ {0} /\ a + x + 3 <= g /\ a + x \in Nat \ {0}
    <3>1. x \in 1..g - a /\ (Is4(b, x) \/ Is3(b, x))
      BY <1>4, <1>5
    <3>2. x \in Nat \ {0}
      BY <1>2, <3>1
    <3>3. a + x + 3 <= g
      BY <1>6, <3>1, <3>2
    <3> QED
      BY <1>2, <3>1, <3>2, <3>3
  <2>2. PICK i \in 1..n : a + x = e[i - 1] + 1 \/ (a + x = e[i - 1] + 2 /\ c[i] = 4 /\ Is3(b, x) /\ ~Is4(b, x))
    <3>1. CASE Is4(b, x)
      BY <1>6, <1>7, <2>1, <3>1
    <3>2. CASE ~Is4(b, x)
      <4>1. Three(W, a + x) /\ Is3(b, x)
        BY <1>4, <1>6, <2>1, <3>2
      <4> QED
        BY <1>7, <2>1, <3>2, <4>1
    <3> QED
      BY <3>1, <3>2
  <2>3. i > k
    <3> SUFFICES ASSUME i <= k PROVE FALSE
      BY <1>1
    <3>1. i \in 0..n /\ i - 1 \in 0..n /\ i - 1 < i
      BY <1>1
    <3> DEFINE f == e[i - 1]
               z == e[i]
    <3>2. f + 4 <= z /\ z <= a /\ f \in Nat /\ z \in Nat /\ (a + x = f + 1 \/ a + x = f + 2)
      BY <1>1, <1>8, <2>2, <3>1
    <3> HIDE DEF f, z
    <3> QED
      BY ONLY <1>2, <2>1, <3>2
  <2>4. i - 1 \in 0..n /\ k <= i - 1 /\ i \in k + 1..n /\ e[i - 1] \in Nat /\ a <= e[i - 1]
    <3>1. i - 1 \in 0..n /\ k <= i - 1 /\ i \in k + 1..n
      BY <1>1, <2>3
    <3> QED
      BY <1>1, <1>8, <3>1
  <2>5. CASE a + x = e[i - 1] + 1
    <3>1. e[i - 1] + 4 <= g /\ x = e[i - 1] + 1 - a
      <4> DEFINE f == e[i - 1]
      <4>1. f \in Nat /\ a + x = f + 1
        BY <2>4, <2>5
      <4> HIDE DEF f
      <4>2. f + 4 <= g /\ x = f + 1 - a
        BY ONLY <1>2, <2>1, <4>1
      <4> QED
        BY <4>2 DEF f
    <3>2. i \in Seen(n, e, k, g)
      BY <2>4, <3>1 DEF Seen
    <3> QED
      BY <3>1, <3>2 DEF R
  <2>6. CASE a + x = e[i - 1] + 2 /\ c[i] = 4 /\ Is3(b, x) /\ ~Is4(b, x)
    <3> DEFINE y == x - 1
    <3>1. y \in Nat \ {0} /\ a + y = e[i - 1] + 1 /\ a + y + 3 <= g /\ x > 1 /\ a + y \in Nat \ {0}
      <4> DEFINE f == e[i - 1]
      <4>1. f \in Nat /\ a <= f /\ a + x = f + 2
        BY <2>4, <2>6
      <4> HIDE DEF f
      <4>2. x - 1 \in Nat \ {0} /\ a + (x - 1) = f + 1 /\ a + (x - 1) + 3 <= g /\ x > 1 /\ a + (x - 1) \in Nat \ {0}
        BY ONLY <1>2, <2>1, <4>1
      <4> QED
        BY ONLY <4>2 DEF y, f
    <3> HIDE DEF y
    <3>2. Four(W, a + y)
      BY <1>7, <2>6, <3>1
    <3>3. Is4(b, y)
      BY <1>6, <3>1, <3>2
    <3>4. FALSE
      BY <1>4, <2>6, <3>1, <3>3 DEF y
    <3> QED
      BY <3>4
  <2> QED
    BY <2>2, <2>5, <2>6
<1>10. ASSUME NEW x \in R PROVE x \in S
  <2>1. PICK i \in Seen(n, e, k, g) : x = e[i - 1] + 1 - a
    BY DEF R
  <2>2. i \in k + 1..n /\ e[i - 1] + 4 <= g /\ i \in 1..n /\ i - 1 \in 0..n /\ k <= i - 1
    BY <1>1 DEF Seen
  <2>3. e[i - 1] \in Nat /\ a <= e[i - 1]
    BY <1>1, <1>8, <2>2
  <2>4. x \in Nat \ {0} /\ a + x = e[i - 1] + 1 /\ a + x + 3 <= g /\ x \in 1..g - a /\ a + x \in Nat \ {0}
    <3> DEFINE f == e[i - 1]
    <3>1. f \in Nat /\ a <= f /\ x = f + 1 - a /\ f + 4 <= g
      BY <2>1, <2>2, <2>3
    <3> HIDE DEF f
    <3>2. x \in Nat \ {0} /\ a + x = f + 1 /\ a + x + 3 <= g /\ x \in 1..g - a /\ a + x \in Nat \ {0}
      BY ONLY <1>2, <3>1
    <3> QED
      BY <3>2 DEF f
  <2>5. CASE c[i] = 4
    <3>1. Four(W, a + x)
      BY <1>7, <2>2, <2>4, <2>5
    <3>2. Is4(b, x)
      BY <1>6, <2>4, <3>1
    <3> QED
      BY <1>4, <1>5, <2>4, <3>2
  <2>6. CASE c[i] = 3
    <3>1. Three(W, a + x)
      BY <1>7, <2>2, <2>4, <2>6
    <3>2. Is3(b, x)
      BY <1>6, <2>4, <3>1
    <3>3. ASSUME x > 1, Is4(b, x - 1) PROVE FALSE
      <4> DEFINE y == x - 1
      <4>1. y \in Nat \ {0} /\ a + y + 2 = e[i - 1] + 2 /\ a + y \in Nat \ {0} /\ a + y + 3 <= g
        <5> DEFINE f == e[i - 1]
        <5>1. f \in Nat /\ x \in Nat /\ x > 1 /\ a + x = f + 1 /\ a + x + 3 <= g
          BY <2>3, <2>4, <3>3
        <5> HIDE DEF f
        <5>2. x - 1 \in Nat \ {0} /\ a + (x - 1) + 2 = f + 2 /\ a + (x - 1) \in Nat \ {0} /\ a + (x - 1) + 3 <= g
          BY ONLY <1>2, <5>1
        <5> QED
          BY ONLY <5>2 DEF y, f
      <4>2. Is4(b, y)
        BY <3>3
      <4> HIDE DEF y
      <4>3. PICK j \in 1..n : a + y = e[j - 1] + 1 /\ c[j] = 4
        BY <1>6, <1>7, <4>1, <4>2
      <4>4. e[j - 1] \in Nat /\ j - 1 \in 0..n
        BY <1>1
      <4>5. e[j - 1] + 1 = e[i - 1]
        <5> DEFINE f == e[i - 1]
                   z == e[j - 1]
        <5>1. f \in Nat /\ z \in Nat /\ a + y + 2 = f + 2 /\ a + y = z + 1
          BY <2>3, <4>1, <4>3, <4>4
        <5> HIDE DEF f, z
        <5>2. z + 1 = f
          BY ONLY <1>2, <4>1, <5>1
        <5> QED
          BY <5>2 DEF f, z
      <4>6. CASE j - 1 < i - 1
        BY <1>1, <2>2, <2>3, <4>4, <4>5, <4>6
      <4>7. CASE ~(j - 1 < i - 1)
        <5>1. i - 1 <= j - 1
          BY <1>1, <2>2, <4>4, <4>7
        <5>2. e[i - 1] <= e[j - 1]
          BY <1>1, <2>2, <4>4, <5>1
        <5> QED
          BY <2>3, <4>4, <4>5, <5>2
      <4> QED
        BY <4>6, <4>7
    <3> QED
      BY <1>4, <1>5, <2>4, <3>2, <3>3
  <2> QED
    BY <1>2, <2>2, <2>5, <2>6
<1> QED
  BY <1>9, <1>10 DEF S, R, b, a, Places

\* What is behind the start code of a part.
LEMMA PayloadIs ==
  ASSUME NEW W, NEW n, NEW e, NEW c, Laid(W, n, e, c), NEW i \in 1..n,
         NEW g \in e[i - 1] + 4..Len(W)
  PROVE  /\ Payload(Cut(W, e[i - 1], g)) = Cut(W, e[i - 1] + c[i], g)
         /\ Cut(W, e[i - 1] + c[i], g) # <<>> <=> e[i - 1] + c[i] + 1 <= g
         /\ e[i - 1] + c[i] + 1 <= g =>
              Cut(W, e[i - 1] + c[i], g)[1] = W[e[i - 1] + c[i] + 1]
         /\ \A z \in e[i - 1] + c[i]..g : Cut(W, e[i - 1] + c[i], z) \in Seq(Nat)
<1> DEFINE a == e[i - 1]
           d == c[i]
           b == Cut(W, a, g)
<1>1. W \in Seq(Nat) /\ a \in Nat /\ d \in {3, 4} /\ Len(W) \in Nat
  <2>1. i - 1 \in 0..n
    BY EndsGrow
  <2> QED
    BY <2>1 DEF Laid
<1>2. /\ W[a + 1] = 0 /\ W[a + 2] = 0
      /\ d = 3 => W[a + 3] = 1
      /\ d = 4 => W[a + 3] = 0 /\ W[a + 4] = 1
  BY DEF Laid
<1> HIDE DEF a, d
<1>3. g \in Nat /\ a + 4 <= g /\ g <= Len(W) /\ g \in a..Len(W)
  <2>1. g \in a + 4..Len(W)
    BY DEF a
  <2> QED
    BY <1>1, <2>1
<1>4. /\ b \in Seq(Nat) /\ Len(b) = g - a
      /\ \A x \in 1..g - a : b[x] = W[a + x]
      /\ \A x \in 1..g - a + 1 : From(b, x) = SubSeq(W, a + x, g)
  BY ONLY <1>1, <1>3, WindowOf DEF Cut
<1> HIDE DEF b
<1>5. Is4(b, 1) <=> a + 1 + 3 <= g /\ Four(W, a + 1)
  BY ONLY <1>1, <1>3, CodesInCut DEF b
<1>6. a + 1 + 1 = a + 2 /\ a + 1 + 2 = a + 3 /\ a + 1 + 3 = a + 4 /\ a + 3 + 1 = a + 4 /\ a + 4 + 1 = a + 5
  BY <1>1
<1>7. ASSUME d = 4 PROVE Payload(b) = Cut(W, a + d, g)
  <2>1. Is4(b, 1)
    BY <1>2, <1>3, <1>5, <1>6, <1>7 DEF Four
  <2>2. 5 \in 1..g - a + 1
    BY <1>1, <1>3
  <2>3. Payload(b) = SubSeq(W, a + 5, g)
    BY <1>4, <2>1, <2>2 DEF Payload
  <2> QED
    BY <1>6, <1>7, <2>3 DEF Cut
<1>8. ASSUME d = 3 PROVE Payload(b) = Cut(W, a + d, g)
  <2>1. ~Is4(b, 1)
    BY <1>2, <1>3, <1>5, <1>6, <1>8 DEF Four
  <2>2. 4 \in 1..g - a + 1 /\ 1 \in 1..g - a /\ 2 \in 1..g - a /\ 3 \in 1..g - a /\ 3 <= g - a /\ g - a \in Nat
    BY <1>1, <1>3
  <2>3. b[1] = 0 /\ b[2] = 0 /\ b[3] = 1
    BY <1>2, <1>4, <1>8, <2>2
  <2>4. Three(b, 1) /\ 1 + 3 <= Len(b)
    <3>1. 1 + 1 = 2 /\ 1 + 2 = 3 /\ 1 + 3 <= g - a
      BY <1>1, <1>3
    <3> QED
      BY <1>4, <2>3, <3>1 DEF Three
  <2>5. SubSeq(b, 1, 3) = <<0, 0, 1>>
    <3>1. Is3(b, 1)
      BY <1>4, <2>4, FourAt
    <3>2. 1 + 2 = 3
      OBVIOUS
    <3> QED
      BY <3>1, <3>2 DEF Is3
  <2>6. IsPrefix(<<0, 0, 1>>, b)
    <3> DEFINE r == <<0, 0, 1>>
    <3>1. r \in Seq(Nat) /\ Len(r) = 3
      OBVIOUS
    <3>3. SubSeq(b, 1, 3) = r
      BY <2>5
    <3> HIDE DEF r
    <3>2. SubSeq(r, 1, Len(r)) = r
      BY ONLY <3>1, SubSeqFull
    <3>4. IsPrefix(r, b)
      BY ONLY <1>4, <2>2, <3>1, <3>2, <3>3 DEF IsPrefix
    <3> QED
      BY <3>4 DEF r
  <2>7. Payload(b) = SubSeq(W, a + 4, g)
    BY <1>4, <2>1, <2>2, <2>6 DEF Payload
  <2> QED
    BY <1>6, <1>8, <2>7 DEF Cut
<1> DEFINE f == a + d
           w == Cut(W, f, g)
<1>9. Payload(b) = w
  BY <1>1, <1>7, <1>8
<1>10. f \in Nat /\ g \in f..Len(W) /\ g - f \in Nat
  BY <1>1, <1>3
<1> HIDE DEF f
<1>11. w \in Seq(Nat) /\ Len(w) = g - f /\ \A x \in 1..g - f : w[x] = W[f + x]
  BY ONLY <1>1, <1>10, WindowOf DEF Cut
<1> HIDE DEF w
<1>12. w # <<>> <=> f + 1 <= g
  <2>1. w # <<>> <=> Len(w) # 0
    BY <1>11, EmptySeq
  <2> QED
    BY ONLY <1>3, <1>10, <1>11, <2>1
<1>13. f + 1 <= g => w[1] = W[f + 1]
  <2>1. f + 1 <= g => 1 \in 1..g - f
    BY <1>3, <1>10
  <2> QED
    BY <1>11, <2>1
<1>14. \A z \in f..g : Cut(W, f, z) \in Seq(Nat)
  <2> TAKE z \in f..g
  <2>1. z \in f..Len(W)
    BY <1>1, <1>3, <1>10
  <2> QED
    BY <1>1, <1>10, <2>1, WindowOf DEF Cut
<1> QED
  BY <1>9, <1>12, <1>13, <1>14 DEF a, d, b, f, w

\* The parts of which a type is seen in what is read, if it is one of those.
SeenOf(n, e, c, k, g, W, f, types) ==
  {i \in k + 1..n : e[i - 1] + c[i] + 1 <= g /\ UnitType(f, W[e[i - 1] + c[i] + 1]) \in types}

\* nal_type gives their types, as soon as there is a byte behind the start code.
LEMMA TypedAre ==
  ASSUME NEW W, NEW n, NEW e, NEW c, Laid(W, n, e, c), NEW k \in 0..n, NEW g \in e[k]..Len(W),
         NEW f, NEW types
  PROVE  Typed(f, Cut(W, e[k], g), types) = Places(e, k, SeenOf(n, e, c, k, g, W, f, types))
<1> DEFINE a == e[k]
           b == Cut(W, a, g)
<1>1. /\ n \in Nat /\ \A i \in 0..n : e[i] \in Nat
      /\ \A i, j \in 0..n : i <= j => e[i] <= e[j]
  BY EndsGrow
<1>2. W \in Seq(Nat) /\ Len(W) \in Nat /\ a \in Nat /\ g \in a..Len(W) /\ g \in Nat /\ c \in [1..n -> {3, 4}]
  <2>1. W \in Seq(Nat) /\ a \in Nat /\ g \in a..Len(W) /\ c \in [1..n -> {3, 4}]
    BY <1>1 DEF Laid
  <2> HIDE DEF a
  <2> QED
    BY <2>1
<1>3. StartCodes(b) = {e[i - 1] + 1 - a : i \in Seen(n, e, k, g)}
  BY StartCodesAre DEF Places
<1>4. ASSUME NEW i \in k + 1..n, e[i - 1] + 4 <= g
      PROVE  /\ From(b, e[i - 1] + 1 - a) = Cut(W, e[i - 1], g)
             /\ i \in 1..n /\ g \in e[i - 1] + 4..Len(W) /\ e[i - 1] \in Nat
  <2> DEFINE h == e[i - 1]
  <2>1. i \in 1..n /\ i - 1 \in 0..n /\ k <= i - 1
    BY <1>1
  <2>2. h \in Nat /\ a <= h /\ h + 4 <= g
    BY <1>1, <1>4, <2>1
  <2> HIDE DEF h, a
  <2>3. h + 1 - a \in 1..g - a + 1 /\ a + (h + 1 - a) = h + 1 /\ g \in h + 4..Len(W)
    BY ONLY <1>2, <2>2
  <2>4. \A x \in 1..g - a + 1 : From(SubSeq(W, a + 1, g), x) = SubSeq(W, a + x, g)
    BY ONLY <1>2, WindowOf
  <2> DEFINE y == h + 1 - a
  <2>5. y \in 1..g - a + 1 /\ a + y = h + 1
    BY <2>3
  <2> HIDE DEF y
  <2>6. From(SubSeq(W, a + 1, g), y) = SubSeq(W, h + 1, g)
    BY ONLY <2>4, <2>5
  <2> QED
    BY <2>1, <2>2, <2>3, <2>6 DEF h, y, Cut
<1>5. ASSUME NEW i \in k + 1..n, e[i - 1] + 4 <= g
      PROVE  Payload(From(b, e[i - 1] + 1 - a)) # <<>> /\ UnitType(f, Payload(From(b, e[i - 1] + 1 - a))[1]) \in types
               <=> e[i - 1] + c[i] + 1 <= g /\ UnitType(f, W[e[i - 1] + c[i] + 1]) \in types
  <2>1. /\ From(b, e[i - 1] + 1 - a) = Cut(W, e[i - 1], g)
        /\ i \in 1..n /\ g \in e[i - 1] + 4..Len(W)
    BY <1>4, <1>5
  <2>2. /\ Payload(Cut(W, e[i - 1], g)) = Cut(W, e[i - 1] + c[i], g)
        /\ Cut(W, e[i - 1] + c[i], g) # <<>> <=> e[i - 1] + c[i] + 1 <= g
        /\ e[i - 1] + c[i] + 1 <= g => Cut(W, e[i - 1] + c[i], g)[1] = W[e[i - 1] + c[i] + 1]
    BY <2>1, PayloadIs
  <2> QED
    BY <2>1, <2>2
<1>6. ASSUME NEW i \in k + 1..n, e[i - 1] + c[i] + 1 <= g PROVE e[i - 1] + 4 <= g
  <2>1. i \in 1..n /\ i - 1 \in 0..n
    BY <1>1
  <2>2. e[i - 1] \in Nat /\ c[i] \in {3, 4}
    BY <1>1, <1>2, <2>1
  <2> QED
    BY <1>2, <1>6, <2>2
<1> DEFINE p(i) == e[i - 1] + 1 - a
           S == Seen(n, e, k, g)
           R == SeenOf(n, e, c, k, g, W, f, types)
<1>7. \A i : i \in S <=> i \in k + 1..n /\ e[i - 1] + 4 <= g
  BY DEF Seen
<1>8. \A i : i \in R <=> i \in k + 1..n /\ e[i - 1] + c[i] + 1 <= g /\ UnitType(f, W[e[i - 1] + c[i] + 1]) \in types
  BY DEF SeenOf
<1>9. Typed(f, b, types) = {x \in StartCodes(b) : Payload(From(b, x)) # <<>> /\ UnitType(f, Payload(From(b, x))[1]) \in types}
  BY DEF Typed
<1>10. ASSUME NEW x \in Typed(f, b, types) PROVE x \in {p(i) : i \in R}
  <2>1. PICK i \in S : x = p(i)
    BY <1>3, <1>9
  <2>2. i \in R
    BY <1>5, <1>7, <1>8, <1>9, <2>1
  <2> QED
    BY <2>1, <2>2
<1>11. ASSUME NEW i \in R PROVE p(i) \in Typed(f, b, types)
  <2>1. i \in k + 1..n /\ e[i - 1] + 4 <= g /\ i \in S
    BY <1>6, <1>7, <1>8
  <2>2. p(i) \in StartCodes(b)
    BY <1>3, <2>1
  <2> QED
    BY <1>5, <1>8, <1>9, <2>1, <2>2
<1> QED
  BY <1>10, <1>11 DEF Places

\* The ends and the start codes of the units of a stream.
EndsOf(s)  == [i \in 0..Len(s.parts) |-> Ends(s, i)]
CodesOf(s) == [i \in 1..Len(s.parts) |-> s.parts[i].code]

\* A unit behind its start code.
IsNal(w, d, u) ==
  /\ w \in Seq(Nat) /\ Len(w) = d + Len(u) /\ Len(u) \in Nat \ {0} /\ Len(Code(d)) = d
  /\ w[1] = 0 /\ w[2] = 0
  /\ d = 3 => w[3] = 1
  /\ d = 4 => w[3] = 0 /\ w[4] = 1
  /\ \A x \in 1..Len(u) : w[d + x] = u[x]

\* So a unit is written.
LEMMA NalBytes ==
  ASSUME NEW d \in {3, 4}, NEW u \in Units, NEW w, w = Code(d) \o u
  PROVE  IsNal(w, d, u)
<1> DEFINE h == Code(d)
           m == Len(u)
<1>1. u \in Seq(Nat) /\ u # <<>>
  BY DEF Units
<1>2. /\ h \in Seq(Nat) /\ Len(h) = d /\ h[1] = 0 /\ h[2] = 0
      /\ d = 3 => h[3] = 1
      /\ d = 4 => h[3] = 0 /\ h[4] = 1
  <2>1. CASE d = 3
    BY <2>1 DEF Code
  <2>2. CASE d = 4
    BY <2>2 DEF Code
  <2> QED
    BY <2>1, <2>2
<1>3. m \in Nat \ {0}
  BY <1>1, EmptySeq
<1> HIDE DEF h, m
<1>4. /\ h \o u \in Seq(Nat) /\ Len(h \o u) = Len(h) + Len(u)
      /\ \A i \in 1..Len(h) : (h \o u)[i] = h[i]
      /\ \A i \in 1..Len(u) : (h \o u)[Len(h) + i] = u[i]
  <2>1. h \in Seq(Nat) /\ u \in Seq(Nat)
    BY <1>1, <1>2
  <2> QED
    BY ONLY <2>1, JoinIs
<1>5. w = h \o u
  BY DEF h
<1>6. /\ w \in Seq(Nat) /\ Len(w) = d + Len(u)
      /\ \A i \in 1..d : w[i] = h[i]
      /\ \A i \in 1..Len(u) : w[d + i] = u[i]
  BY ONLY <1>2, <1>4, <1>5
<1>7. 1 \in 1..d /\ 2 \in 1..d /\ 3 \in 1..d /\ (d = 4 => 4 \in 1..d)
  OBVIOUS
<1>8. w[1] = h[1] /\ w[2] = h[2] /\ w[3] = h[3] /\ (d = 4 => w[4] = h[4])
  BY <1>6, <1>7
<1> QED
  BY <1>2, <1>3, <1>6, <1>8 DEF m, h, IsNal

\* A stream of H.264 or H.265 is a stream of units.
LEMMA NalStream ==
  ASSUME NEW s \in Streams, s.format \in H26x
  PROVE  /\ IsStream(s) /\ HeadOf(s) = <<>> /\ s \in [format : H26x, parts : Seq([code : {3, 4}, unit : Units])]
         /\ \A i \in 1..Len(s.parts) :
              /\ s.parts[i].code \in {3, 4} /\ s.parts[i].unit \in Units
              /\ Bytes(s.format, s.parts[i]) = Code(s.parts[i].code) \o s.parts[i].unit
              /\ Ends(s, i) = Ends(s, i - 1) + s.parts[i].code + Len(s.parts[i].unit)
              /\ \A x \in 1..Len(s.parts[i].unit) :
                   AllBytes(s)[Ends(s, i - 1) + s.parts[i].code + x] = s.parts[i].unit[x]
         /\ Laid(AllBytes(s), Len(s.parts), EndsOf(s), CodesOf(s))
<1> DEFINE n == Len(s.parts)
           W == AllBytes(s)
           P(i) == s.parts[i]
           B(i) == Bytes(s.format, s.parts[i])
<1>1. s \in [format : H26x, parts : Seq([code : {3, 4}, unit : Units])]
  BY StreamsAssumption DEF H26x
<1>2. n \in Nat /\ DOMAIN s.parts = 1..n /\ HeadOf(s) = <<>>
  BY <1>1 DEF HeadOf, H26x
<1>3. \A i \in 1..n : P(i) \in [code : {3, 4}, unit : Units]
  <2> DEFINE T == [code : {3, 4}, unit : Units]
  <2>1. s \in [format : H26x, parts : Seq(T)]
    BY <1>1
  <2> HIDE DEF T
  <2>2. s.parts \in Seq(T)
    BY <2>1
  <2>3. \A i \in 1..n : s.parts[i] \in T
    BY <2>2
  <2> QED
    BY <2>3 DEF T
<1> HIDE DEF n
<1>4. \A i \in 1..n : P(i).code \in {3, 4} /\ P(i).unit \in Units
  BY <1>3
<1>5. \A i \in 1..n : B(i) = Code(P(i).code) \o P(i).unit
  <2>1. s.format \in H26x
    OBVIOUS
  <2> TAKE i \in 1..n
  <2> QED
    BY ONLY <2>1 DEF Bytes, H26x
<1>6. ASSUME NEW i \in 1..n
      PROVE  /\ B(i) \in Seq(Nat) /\ Len(B(i)) = P(i).code + Len(P(i).unit) /\ Len(P(i).unit) \in Nat \ {0}
             /\ B(i)[1] = 0 /\ B(i)[2] = 0
             /\ P(i).code = 3 => B(i)[3] = 1
             /\ P(i).code = 4 => B(i)[3] = 0 /\ B(i)[4] = 1
             /\ \A x \in 1..Len(P(i).unit) : B(i)[P(i).code + x] = P(i).unit[x]
  <2> DEFINE d == P(i).code
             u == P(i).unit
             w == B(i)
  <2>1. d \in {3, 4} /\ u \in Units /\ w = Code(d) \o u
    BY <1>4, <1>5
  <2> HIDE DEF d, u, w
  <2>2. IsNal(w, d, u)
    BY ONLY <2>1, NalBytes
  <2> QED
    BY <2>2 DEF d, u, w, IsNal
<1>7. \A i \in 1..n : B(i) \in Seq(Nat) /\ Len(B(i)) > 0
  <2> TAKE i \in 1..n
  <2> DEFINE d == P(i).code
             m == Len(P(i).unit)
             l == Len(B(i))
  <2>1. d \in {3, 4} /\ m \in Nat \ {0} /\ l = d + m
    BY <1>4, <1>6
  <2> HIDE DEF d, m, l
  <2>2. l > 0
    BY <2>1
  <2> QED
    BY <1>6, <2>2 DEF l
<1>8. IsStream(s)
  <2>2. Encoded(s) \in Seq(Seq(Nat))
    BY <1>2, <1>7 DEF Encoded
  <2> QED
    BY <1>2, <1>7, <2>2 DEF IsStream, n
<1>9. /\ W \in Seq(Nat)
      /\ \A k \in 0..n : Ends(s, k) \in Nat
      /\ Ends(s, 0) = Len(HeadOf(s)) /\ Ends(s, n) = Len(W)
      /\ \A k \in 1..n : Ends(s, k) = Ends(s, k - 1) + Len(B(k))
      /\ \A k \in 1..n : \A x \in 1..Len(B(k)) : W[Ends(s, k - 1) + x] = B(k)[x]
  <2>1. Encoded(s) \in Seq(Seq(Nat)) /\ DOMAIN s.parts = 1..Len(s.parts) /\ Len(s.parts) \in Nat
    BY <1>8 DEF IsStream
  <2>2. /\ AllBytes(s) \in Seq(Nat)
        /\ \A k \in 0..Len(s.parts) : Ends(s, k) \in Nat
        /\ Ends(s, 0) = Len(HeadOf(s))
        /\ Ends(s, Len(s.parts)) = Len(AllBytes(s))
        /\ \A k \in 1..Len(s.parts) : /\ Ends(s, k) = Ends(s, k - 1) + Len(Bytes(s.format, s.parts[k]))
                                      /\ Bytes(s.format, s.parts[k]) \in Seq(Nat)
        /\ \A k \in 1..Len(s.parts) : \A x \in 1..Len(Bytes(s.format, s.parts[k])) :
             AllBytes(s)[Ends(s, k - 1) + x] = Bytes(s.format, s.parts[k])[x]
    BY ONLY <2>1, StreamHolds
  <2> QED
    BY <2>2 DEF n
<1> HIDE DEF W, P, B
<1>10. ASSUME NEW i \in 1..n
       PROVE  /\ Ends(s, i) = Ends(s, i - 1) + P(i).code + Len(P(i).unit)
              /\ \A x \in 1..Len(P(i).unit) : W[Ends(s, i - 1) + P(i).code + x] = P(i).unit[x]
              /\ Ends(s, i - 1) + P(i).code < Ends(s, i)
              /\ W[Ends(s, i - 1) + 1] = 0 /\ W[Ends(s, i - 1) + 2] = 0
              /\ P(i).code = 3 => W[Ends(s, i - 1) + 3] = 1
              /\ P(i).code = 4 => W[Ends(s, i - 1) + 3] = 0 /\ W[Ends(s, i - 1) + 4] = 1
              /\ W[Ends(s, i)] # 0
              /\ \A p \in Ends(s, i - 1) + P(i).code + 1..Ends(s, i) - 2 :
                   ~(W[p] = 0 /\ W[p + 1] = 0 /\ W[p + 2] \in {0, 1})
  <2> DEFINE f == Ends(s, i - 1)
             z == Ends(s, i)
             d == P(i).code
             u == P(i).unit
             m == Len(u)
             w == B(i)
             l == Len(w)
  <2>1. /\ f \in Nat /\ z \in Nat /\ d \in {3, 4} /\ u \in Units /\ l = d + m /\ m \in Nat \ {0} /\ z = f + l
        /\ w[1] = 0 /\ w[2] = 0
        /\ d = 3 => w[3] = 1
        /\ d = 4 => w[3] = 0 /\ w[4] = 1
        /\ \A x \in 1..m : w[d + x] = u[x]
        /\ \A x \in 1..l : W[f + x] = w[x]
    <3>1. i - 1 \in 0..n /\ i \in 0..n
      BY <1>2
    <3> QED
      BY <1>4, <1>6, <1>9, <3>1
  <2>2. u[m] # 0 /\ \A x \in 1..m - 2 : ~(u[x] = 0 /\ u[x + 1] = 0 /\ u[x + 2] \in {0, 1})
    <3>1. u \in Units
      BY <2>1
    <3> HIDE DEF u
    <3> QED
      BY <3>1 DEF Units
  <2> HIDE DEF f, z, d, u, m, w, l
  <2>3. z = f + d + m /\ f + d < z
    BY <2>1
  <2>4. \A x \in 1..m : W[f + d + x] = u[x]
    <3> TAKE x \in 1..m
    <3> DEFINE y == d + x
    <3>1. y \in 1..l /\ f + y = f + d + x
      BY <2>1
    <3>2. w[y] = u[x]
      BY <2>1
    <3> HIDE DEF y
    <3>3. W[f + y] = w[y]
      BY ONLY <2>1, <3>1
    <3> QED
      BY ONLY <3>1, <3>2, <3>3
  <2>5. W[f + 1] = w[1] /\ W[f + 2] = w[2] /\ W[f + 3] = w[3] /\ W[f + 4] = w[4]
    <3>1. 1 \in 1..l /\ 2 \in 1..l /\ 3 \in 1..l /\ 4 \in 1..l
      BY <2>1
    <3> QED
      BY <2>1, <3>1
  <2>6. W[z] # 0
    <3>1. m \in 1..m
      BY <2>1
    <3>2. W[f + d + m] = u[m]
      BY ONLY <2>4, <3>1
    <3> QED
      BY ONLY <2>2, <2>3, <3>2
  <2>7. \A p \in f + d + 1..z - 2 : ~(W[p] = 0 /\ W[p + 1] = 0 /\ W[p + 2] \in {0, 1})
    <3> TAKE p \in f + d + 1..z - 2
    <3> DEFINE x == p - f - d
    <3>1. /\ x \in 1..m - 2 /\ x \in 1..m /\ x + 1 \in 1..m /\ x + 2 \in 1..m
          /\ f + d + x = p /\ f + d + (x + 1) = p + 1 /\ f + d + (x + 2) = p + 2
      BY <2>1, <2>3
    <3> HIDE DEF x
    <3>2. W[p] = u[x]
      BY ONLY <2>4, <3>1
    <3>3. W[p + 1] = u[x + 1]
      <4>1. W[f + d + (x + 1)] = u[x + 1]
        BY ONLY <2>4, <3>1
      <4> QED
        BY ONLY <3>1, <4>1
    <3>4. W[p + 2] = u[x + 2]
      <4>1. W[f + d + (x + 2)] = u[x + 2]
        BY ONLY <2>4, <3>1
      <4> QED
        BY ONLY <3>1, <4>1
    <3> QED
      BY ONLY <2>2, <3>1, <3>2, <3>3, <3>4
  <2>8. /\ W[f + 1] = 0 /\ W[f + 2] = 0
        /\ d = 3 => W[f + 3] = 1
        /\ d = 4 => W[f + 3] = 0 /\ W[f + 4] = 1
    BY <2>1, <2>5
  <2> QED
    BY ONLY <2>3, <2>4, <2>6, <2>7, <2>8 DEF f, z, d, u, m
<1> DEFINE e == EndsOf(s)
           c == CodesOf(s)
<1>11. Laid(W, n, e, c)
  <2>1. e \in [0..n -> Nat] /\ c \in [1..n -> {3, 4}] /\ (\A i \in 0..n : e[i] = Ends(s, i)) /\ (\A i \in 1..n : c[i] = P(i).code)
    BY <1>4, <1>9 DEF EndsOf, CodesOf, n, P
  <2> HIDE DEF e, c
  <2>2. e[0] = 0 /\ e[n] = Len(W)
    <3>1. 0 \in 0..n /\ n \in 0..n
      BY <1>2
    <3> QED
      BY <1>2, <1>9, <2>1, <3>1
  <2>3. ASSUME NEW i \in 1..n PROVE
          /\ e[i - 1] + c[i] < e[i]
          /\ W[e[i - 1] + 1] = 0 /\ W[e[i - 1] + 2] = 0
          /\ c[i] = 3 => W[e[i - 1] + 3] = 1
          /\ c[i] = 4 => W[e[i - 1] + 3] = 0 /\ W[e[i - 1] + 4] = 1
          /\ W[e[i]] # 0
          /\ \A p \in e[i - 1] + c[i] + 1..e[i] - 2 : ~(W[p] = 0 /\ W[p + 1] = 0 /\ W[p + 2] \in {0, 1})
    <3>1. i - 1 \in 0..n /\ i \in 0..n
      BY <1>2
    <3>2. e[i - 1] = Ends(s, i - 1) /\ e[i] = Ends(s, i) /\ c[i] = P(i).code
      BY <2>1, <3>1
    <3> QED
      BY ONLY <1>10, <3>2, i \in 1..n
  <2> QED
    BY ONLY <1>2, <1>9, <2>1, <2>2, <2>3 DEF Laid
<1> QED
  BY <1>1, <1>2, <1>4, <1>5, <1>8, <1>10, <1>11 DEF n, W, P, B

-----------------------------------------------------------------------------
(* What push hears in its buffer.                                          *)

\* A set of numbers up to N that is not empty has Max for its greatest.
LEMMA MaxIs ==
  ASSUME NEW N \in Nat, NEW S \in SUBSET (0..N), S # {}
  PROVE  Max(S) \in S /\ \A x \in S : x <= Max(S)
<1> DEFINE R == {N - x : x \in S}
<1>1. R \in SUBSET Nat /\ R # {}
  <2>1. \A x \in S : x \in 0..N /\ N - x \in Nat
    OBVIOUS
  <2>2. \A r \in R : r \in Nat
    BY <2>1
  <2> QED
    BY <2>2
<1>2. PICK m \in R : \A r \in R : m <= r
  <2> HIDE DEF R
  <2> QED
    BY ONLY <1>1, LeastOf
<1>3. PICK a \in S : m = N - a
  BY <1>2
<1>4. \A x \in S : x <= a
  <2> TAKE x \in S
  <2>1. N - x \in R
    OBVIOUS
  <2>2. m <= N - x
    BY <1>2, <2>1
  <2>3. x \in 0..N /\ a \in 0..N
    BY <1>3
  <2> QED
    BY <1>3, <2>2, <2>3
<1>5. \A x \in S : a >= x
  BY <1>4
<1> QED
  BY <1>5 DEF Max

\* Its greatest is Max.
LEMMA GreatestIs ==
  ASSUME NEW S \in SUBSET Int, NEW a \in S, \A x \in S : x <= a
  PROVE  Max(S) = a
<1>1. \A x \in S : a >= x
  OBVIOUS
<1>2. Max(S) \in S /\ Max(S) >= a
  BY <1>1 DEF Max
<1>3. Max(S) <= a /\ Max(S) \in Int /\ a \in Int
  BY <1>2
<1> QED
  BY <1>2, <1>3

\* What is so of numbers is so of what grows with them.
LEMMA ImageIs ==
  ASSUME NEW n \in Nat, NEW A \in SUBSET (1..n), NEW p \in [1..n -> Int],
         \A i, j \in 1..n : i < j => p[i] < p[j]
  PROVE  /\ InOrder(A) \in Seq(A) /\ Len(InOrder(A)) = Cardinality(A) /\ Cardinality(A) \in Nat
         /\ IsFiniteSet({p[i] : i \in A}) /\ Cardinality({p[i] : i \in A}) = Cardinality(A)
         /\ InOrder({p[i] : i \in A}) = [k \in 1..Cardinality(A) |-> p[InOrder(A)[k]]]
         /\ A # {} => Max(A) \in A /\ Max({p[i] : i \in A}) = p[Max(A)]
<1>1. IsFiniteSet(A) /\ A \in SUBSET Int
  <2>1. IsFiniteSet(1..n)
    BY FS_Interval
  <2>2. IsFiniteSet(A)
    BY <2>1, FS_Subset
  <2>3. A \in SUBSET Int
    OBVIOUS
  <2> QED
    BY <2>2, <2>3
<1> DEFINE c == Cardinality(A)
           o == InOrder(A)
           q == [k \in 1..c |-> p[o[k]]]
<1>2. /\ c \in Nat /\ o \in [1..c -> A]
      /\ \A i, j \in 1..c : i < j => o[i] < o[j]
      /\ \A x \in A : \E i \in 1..c : o[i] = x
  BY ONLY <1>1, InOrderEnumerates
<1>3. o \in Seq(A) /\ Len(o) = c
  <2> HIDE DEF c, o
  <2> QED
    BY <1>2
<1> HIDE DEF c, o
<1>4. q \in [1..c -> Int] /\ \A i, j \in 1..c : i < j => q[i] < q[j]
  BY <1>2
<1>5. {q[k] : k \in 1..c} = {p[i] : i \in A}
  BY <1>2
<1> HIDE DEF q
<1>6. /\ InOrder({q[k] : k \in 1..c}) = q
      /\ IsFiniteSet({q[k] : k \in 1..c}) /\ Cardinality({q[k] : k \in 1..c}) = c
  BY ONLY <1>2, <1>4, InOrderIs, CountOf
<1>7. ASSUME A # {} PROVE Max(A) \in A /\ Max({p[i] : i \in A}) = p[Max(A)]
  <2> DEFINE m == Max(A)
             S == {p[i] : i \in A}
  <2>1. m \in A /\ \A x \in A : x <= m
    <3>1. A \in SUBSET (0..n)
      OBVIOUS
    <3> QED
      BY ONLY <1>7, <3>1, MaxIs, n \in Nat
  <2> HIDE DEF m
  <2>2. \A i \in A : p[i] <= p[m]
    <3> TAKE i \in A
    <3>1. i \in 1..n /\ m \in 1..n /\ i <= m /\ p[i] \in Int /\ p[m] \in Int
      BY <2>1
    <3>2. i = m \/ i < m
      BY <3>1
    <3> QED
      BY <3>1, <3>2
  <2>3. S \in SUBSET Int /\ p[m] \in S /\ \A x \in S : x <= p[m]
    BY <2>1, <2>2
  <2> HIDE DEF S
  <2>4. Max(S) = p[m]
    BY ONLY <2>3, GreatestIs
  <2> QED
    BY <2>1, <2>4 DEF S, m
<1> QED
  BY <1>2, <1>3, <1>5, <1>6, <1>7 DEF c, o, q

\* The next of a set, and of what grows with it.
IsNext(A, p, i) ==
  LET m == Min({x \in A : x > i})
  IN  /\ m \in A /\ m > i /\ \A x \in A : x > i => m <= x
      /\ Min({y \in {p[x] : x \in A} : y > p[i]}) = p[m]

\* That is so of a set that has a next.
LEMMA NextIs ==
  ASSUME NEW n \in Nat, NEW A \in SUBSET (1..n), NEW p \in [1..n -> Int],
         \A i, j \in 1..n : i < j => p[i] < p[j], \A i \in A : p[i] \in Nat,
         NEW i \in A, NEW j \in A, i < j
  PROVE  IsNext(A, p, i)
<1> DEFINE S == {x \in A : x > i}
           R == {y \in {p[x] : x \in A} : y > p[i]}
           m == Min(S)
<1>1. S \in SUBSET Nat /\ S # {}
  <2>1. j \in S
    OBVIOUS
  <2>2. \A x \in S : x \in Nat
    <3>1. \A x \in A : x \in Nat
      OBVIOUS
    <3> QED
      BY ONLY <3>1
  <2> QED
    BY <2>1, <2>2
<1>2. m \in S /\ \A x \in S : m <= x
  <2> HIDE DEF S
  <2> QED
    BY ONLY <1>1, MinIs
<1> HIDE DEF m
<1>3. m \in A /\ m > i /\ \A x \in A : x > i => m <= x
  BY <1>2
<1>4. R \in SUBSET Nat /\ p[m] \in R
  BY <1>3
<1>5. \A y \in R : p[m] <= y
  <2> TAKE y \in R
  <2>1. PICK x \in A : y = p[x] /\ p[x] > p[i]
    OBVIOUS
  <2>2. x > i
    <3>1. CASE x = i
      BY <2>1, <3>1
    <3>2. CASE x < i
      BY <2>1, <3>2
    <3> QED
      BY <3>1, <3>2
  <2>3. m <= x
    BY <1>3, <2>2
  <2> QED
    BY <1>3, <2>1, <2>3
<1>6. Min(R) = p[m]
  <2> HIDE DEF R
  <2> QED
    BY ONLY <1>4, <1>5, LeastIs
<1> QED
  BY <1>3, <1>6 DEF m, IsNext

\* Where a unit begins in what is unused; the units whose start codes are seen; those whose
\* types are, of some types.
BeginsAt(s, k) == [i \in 1..Len(s.parts) |-> Ends(s, i - 1) + 1 - Ends(s, k)]
SeenIn(s, k, g) == {i \in k + 1..Len(s.parts) : Ends(s, i - 1) + 4 <= g}
HeardOf(s, k, g, types) ==
  {i \in k + 1..Len(s.parts) : Ends(s, i - 1) + s.parts[i].code + 1 <= g /\ TypeOf(s, i) \in types}

\* The ends of a stream of units.
Grows(s) ==
  /\ Len(s.parts) \in Nat /\ DOMAIN s.parts = 1..Len(s.parts)
  /\ AllBytes(s) \in Seq(Nat)
  /\ Ends(s, 0) = 0 /\ Ends(s, Len(s.parts)) = Len(AllBytes(s))
  /\ \A i \in 0..Len(s.parts) : Ends(s, i) \in Nat
  /\ \A i, j \in 0..Len(s.parts) : i <= j => Ends(s, i) <= Ends(s, j)
  /\ \A i, j \in 0..Len(s.parts) : i < j => Ends(s, i) + 4 <= Ends(s, j)
  /\ \A i \in 1..Len(s.parts) : /\ s.parts[i].code \in {3, 4} /\ s.parts[i].unit \in Units
                                /\ Len(s.parts[i].unit) \in Nat \ {0}
                                /\ Ends(s, i) = Ends(s, i - 1) + s.parts[i].code + Len(s.parts[i].unit)

\* The ends of a stream of H.264 or H.265 grow.
LEMMA NalGrows ==
  ASSUME NEW s \in Streams, s.format \in H26x
  PROVE  Grows(s)
<1> DEFINE n == Len(s.parts)
           W == AllBytes(s)
           e == EndsOf(s)
           c == CodesOf(s)
<1>1. /\ IsStream(s) /\ HeadOf(s) = <<>>
      /\ \A i \in 1..n : /\ s.parts[i].code \in {3, 4} /\ s.parts[i].unit \in Units
                         /\ Ends(s, i) = Ends(s, i - 1) + s.parts[i].code + Len(s.parts[i].unit)
      /\ Laid(W, n, e, c)
  BY NalStream
<1>2. n \in Nat /\ DOMAIN s.parts = 1..n
  BY <1>1 DEF IsStream
<1>3. /\ \A i \in 0..n : e[i] \in Nat
      /\ \A i, j \in 0..n : i <= j => e[i] <= e[j]
      /\ \A i, j \in 0..n : i < j => e[i] + 4 <= e[j]
  <2> HIDE DEF n, W, e, c
  <2> QED
    BY ONLY <1>1, EndsGrow
<1>4. e[0] = 0 /\ e[n] = Len(W) /\ W \in Seq(Nat)
  <2> HIDE DEF n, W, e, c
  <2> QED
    BY ONLY <1>1 DEF Laid
<1>5. \A i \in 0..n : e[i] = Ends(s, i)
  BY <1>2 DEF EndsOf
<1>6. \A i \in 1..n : Len(s.parts[i].unit) \in Nat \ {0}
  <2> TAKE i \in 1..n
  <2> DEFINE u == s.parts[i].unit
  <2>1. u \in Units
    BY <1>1
  <2> HIDE DEF u
  <2>2. u \in Seq(Nat) /\ u # <<>>
    BY <2>1 DEF Units
  <2>3. Len(u) \in Nat \ {0}
    BY ONLY <2>2, EmptySeq
  <2> QED
    BY <2>3 DEF u
<1> HIDE DEF n, W, e, c
<1>7. 0 \in 0..n /\ n \in 0..n
  BY <1>2
<1> QED
  BY ONLY <1>1, <1>2, <1>3, <1>4, <1>5, <1>6, <1>7 DEF Grows, n, W

\* The start codes in what is unused are those of the units that are seen, and so are their types.
IsHeard(s, k, g) ==
  /\ BeginsAt(s, k) \in [1..Len(s.parts) -> Int]
  /\ \A i, j \in 1..Len(s.parts) : i < j => BeginsAt(s, k)[i] < BeginsAt(s, k)[j]
  /\ \A i \in k + 1..Len(s.parts) : BeginsAt(s, k)[i] \in Nat \ {0}
  /\ StartCodes(Unused(s, k, g)) = {BeginsAt(s, k)[i] : i \in SeenIn(s, k, g)}
  /\ SeenIn(s, k, g) \in SUBSET (1..Len(s.parts))
  /\ \A types : /\ Typed(s.format, Unused(s, k, g), types) = {BeginsAt(s, k)[i] : i \in HeardOf(s, k, g, types)}
                /\ HeardOf(s, k, g, types) \in SUBSET (1..Len(s.parts))
                /\ HeardOf(s, k, g, types) \in SUBSET SeenIn(s, k, g)

\* For streams of H.264 and H.265 it is so.
LEMMA HeardAre ==
  ASSUME NEW s \in Streams, s.format \in H26x, NEW k \in 0..Len(s.parts), NEW g \in Ends(s, k)..Len(AllBytes(s))
  PROVE  IsHeard(s, k, g)
<1> DEFINE n == Len(s.parts)
           W == AllBytes(s)
           e == EndsOf(s)
           c == CodesOf(s)
           f == s.format
<1>1. Grows(s)
  BY NalGrows
<1>2. Laid(W, n, e, c)
  BY NalStream
<1>3. n \in Nat /\ k \in 0..n /\ \A i \in 0..n : Ends(s, i) \in Nat /\ e[i] = Ends(s, i)
  BY <1>1 DEF Grows, EndsOf
<1>4. \A i \in 1..n : c[i] = s.parts[i].code
  BY DEF CodesOf
<1>5. \A i \in 1..n : TypeOf(s, i) = UnitType(f, W[e[i - 1] + c[i] + 1])
  <2> TAKE i \in 1..n
  <2> DEFINE u == s.parts[i].unit
  <2>1. 1 \in 1..Len(u)
    BY <1>1 DEF Grows
  <2>2. \A x \in 1..Len(u) : W[Ends(s, i - 1) + s.parts[i].code + x] = u[x]
    BY NalStream
  <2>3. W[Ends(s, i - 1) + s.parts[i].code + 1] = u[1]
    <3> HIDE DEF u, W
    <3> QED
      BY ONLY <2>1, <2>2
  <2>4. i - 1 \in 0..n
    BY <1>3
  <2>5. e[i - 1] = Ends(s, i - 1) /\ c[i] = s.parts[i].code
    BY <1>3, <1>4, <2>4
  <2> HIDE DEF e, c, W, f
  <2> QED
    BY ONLY <2>3, <2>5 DEF TypeOf, f, u
<1>6. Unused(s, k, g) = Cut(W, e[k], g)
  <2>1. e[k] = Ends(s, k)
    BY <1>3
  <2> HIDE DEF e
  <2> QED
    BY ONLY <2>1 DEF Unused, Cut, W
<1>7. g \in e[k]..Len(W)
  BY <1>3
<1> HIDE DEF n, W, e, c, f
<1>8. StartCodes(Cut(W, e[k], g)) = Places(e, k, Seen(n, e, k, g))
  BY ONLY <1>2, <1>3, <1>7, StartCodesAre
<1>9. \A types : Typed(f, Cut(W, e[k], g), types) = Places(e, k, SeenOf(n, e, c, k, g, W, f, types))
  BY ONLY <1>2, <1>3, <1>7, TypedAre
<1>10. \A i \in 1..n : i - 1 \in 0..n /\ BeginsAt(s, k)[i] = Ends(s, i - 1) + 1 - Ends(s, k) /\ BeginsAt(s, k)[i] = e[i - 1] + 1 - e[k]
  <2> TAKE i \in 1..n
  <2>1. i - 1 \in 0..n
    BY <1>3
  <2>2. BeginsAt(s, k)[i] = Ends(s, i - 1) + 1 - Ends(s, k)
    BY DEF BeginsAt, n
  <2> QED
    BY ONLY <1>3, <2>1, <2>2
<1>11. Seen(n, e, k, g) = SeenIn(s, k, g)
  <2>1. \A i \in k + 1..n : e[i - 1] = Ends(s, i - 1)
    BY <1>3
  <2> QED
    BY <2>1 DEF Seen, SeenIn, n
<1>12. \A types : SeenOf(n, e, c, k, g, W, f, types) = HeardOf(s, k, g, types)
  <2>1. \A i \in k + 1..n : e[i - 1] = Ends(s, i - 1) /\ c[i] = s.parts[i].code
                            /\ TypeOf(s, i) = UnitType(f, W[e[i - 1] + c[i] + 1])
    <3> TAKE i \in k + 1..n
    <3>1. i \in 1..n /\ i - 1 \in 0..n
      BY <1>3
    <3> QED
      BY ONLY <3>1, <1>3, <1>4, <1>5
  <2> TAKE types
  <2>2. SeenOf(n, e, c, k, g, W, f, types) = {i \in k + 1..n : e[i - 1] + c[i] + 1 <= g /\ UnitType(f, W[e[i - 1] + c[i] + 1]) \in types}
    BY ONLY DEF SeenOf
  <2>3. HeardOf(s, k, g, types) = {i \in k + 1..n : Ends(s, i - 1) + s.parts[i].code + 1 <= g /\ TypeOf(s, i) \in types}
    BY ONLY DEF HeardOf, n
  <2> QED
    BY ONLY <2>1, <2>2, <2>3
<1>13. SeenIn(s, k, g) \in SUBSET (1..n)
  BY <1>3 DEF SeenIn, n
<1>14. \A types : HeardOf(s, k, g, types) \in SUBSET (1..n) /\ HeardOf(s, k, g, types) \in SUBSET SeenIn(s, k, g)
  <2> TAKE types
  <2>1. HeardOf(s, k, g, types) \in SUBSET (1..n)
    BY <1>3 DEF HeardOf, n
  <2>2. ASSUME NEW i \in HeardOf(s, k, g, types) PROVE i \in SeenIn(s, k, g)
    <3> DEFINE h == Ends(s, i - 1)
               d == s.parts[i].code
    <3>1. i \in k + 1..n /\ h + d + 1 <= g
      BY DEF HeardOf, n
    <3>2. i \in 1..n /\ i - 1 \in 0..n
      BY <2>1, <1>3
    <3>3. h \in Nat /\ d \in {3, 4}
      BY <1>1, <1>3, <3>2 DEF Grows, n
    <3>5. g \in Int
      BY <1>3
    <3> HIDE DEF h, d
    <3>4. h + 4 <= g
      BY ONLY <3>1, <3>3, <3>5
    <3> QED
      BY <3>1, <3>4 DEF SeenIn, h, n
  <2> QED
    BY <2>1, <2>2
<1>15. StartCodes(Unused(s, k, g)) = {BeginsAt(s, k)[i] : i \in SeenIn(s, k, g)}
  <2>1. Places(e, k, SeenIn(s, k, g)) = {BeginsAt(s, k)[i] : i \in SeenIn(s, k, g)}
    BY ONLY <1>10, <1>13 DEF Places
  <2> QED
    BY ONLY <2>1, <1>6, <1>8, <1>11
<1>16. \A types : Typed(f, Unused(s, k, g), types) = {BeginsAt(s, k)[i] : i \in HeardOf(s, k, g, types)}
  <2> TAKE types
  <2>1. Places(e, k, HeardOf(s, k, g, types)) = {BeginsAt(s, k)[i] : i \in HeardOf(s, k, g, types)}
    BY ONLY <1>10, <1>14 DEF Places
  <2> QED
    BY ONLY <2>1, <1>6, <1>9, <1>12
<1>17. \A i, j \in 1..n : i < j => BeginsAt(s, k)[i] < BeginsAt(s, k)[j]
  <2> TAKE i \in 1..n, j \in 1..n
  <2> HAVE i < j
  <2> DEFINE x == Ends(s, i - 1)
             y == Ends(s, j - 1)
             z == Ends(s, k)
  <2>1. i - 1 \in 0..n /\ j - 1 \in 0..n /\ i - 1 < j - 1
    BY <1>3
  <2>2. x + 4 <= y
    BY <1>1, <2>1 DEF Grows, n
  <2>3. x \in Nat /\ y \in Nat /\ z \in Nat /\ BeginsAt(s, k)[i] = x + 1 - z /\ BeginsAt(s, k)[j] = y + 1 - z
    BY <1>3, <1>10, <2>1
  <2> HIDE DEF x, y, z
  <2> QED
    BY ONLY <2>2, <2>3
<1>18. BeginsAt(s, k) \in [1..n -> Int]
  <2>1. \A i \in 1..n : BeginsAt(s, k)[i] \in Int
    BY <1>3, <1>10
  <2>2. BeginsAt(s, k) = [i \in 1..n |-> BeginsAt(s, k)[i]]
    BY DEF BeginsAt, n
  <2> QED
    BY ONLY <2>1, <2>2
<1>19. \A i \in k + 1..n : BeginsAt(s, k)[i] \in Nat \ {0}
  <2> TAKE i \in k + 1..n
  <2> DEFINE x == Ends(s, i - 1)
             z == Ends(s, k)
  <2>1. i \in 1..n /\ i - 1 \in 0..n /\ k <= i - 1
    BY <1>3
  <2>2. z <= x
    BY <1>1, <1>3, <2>1 DEF Grows, n
  <2>3. x \in Nat /\ z \in Nat /\ BeginsAt(s, k)[i] = x + 1 - z
    BY <1>3, <1>10, <2>1
  <2> HIDE DEF x, z
  <2> QED
    BY ONLY <2>2, <2>3
<1> QED
  BY ONLY <1>13, <1>14, <1>15, <1>16, <1>17, <1>18, <1>19 DEF IsHeard, n, f

\* The delimiter after the i-th unit, and what is written up to it.
NextOne(s, i) == Min({j \in Delimiters(s) : j > i})
Access(s, i)  == Unused(s, i - 1, Ends(s, NextOne(s, i) - 1))

\* A part of a part of a sequence.
LEMMA CutOfCut ==
  ASSUME NEW W \in Seq(Nat), NEW a \in Nat, NEW g \in a..Len(W), NEW x \in Nat, NEW y \in x..g - a
  PROVE  SubSeq(SubSeq(W, a + 1, g), x + 1, y) = SubSeq(W, a + x + 1, a + y)
<1> DEFINE b == SubSeq(W, a + 1, g)
           l == SubSeq(b, x + 1, y)
           r == SubSeq(W, a + x + 1, a + y)
           h == a + x
           z == a + y
<1>1. /\ b \in Seq(Nat) /\ Len(b) = g - a
      /\ \A i \in 1..g - a : b[i] = W[a + i]
  BY WindowOf
<1>2. /\ h \in Nat /\ z \in h..Len(W) /\ h = a + x /\ z = a + y /\ z - h = y - x
      /\ x \in Nat /\ y \in Nat /\ a \in Nat /\ g \in Nat /\ x <= y /\ y <= g - a
  OBVIOUS
<1>3. r = SubSeq(W, h + 1, z)
  OBVIOUS
<1> HIDE DEF b, h, z
<1>4. /\ SubSeq(W, h + 1, z) \in Seq(Nat) /\ Len(SubSeq(W, h + 1, z)) = z - h
      /\ \A i \in 1..z - h : SubSeq(W, h + 1, z)[i] = W[h + i]
  BY ONLY <1>2, WindowOf, W \in Seq(Nat)
<1>5. y \in x..Len(b)
  BY <1>1, <1>2
<1>6. /\ SubSeq(b, x + 1, y) \in Seq(Nat) /\ Len(SubSeq(b, x + 1, y)) = y - x
      /\ \A i \in 1..y - x : SubSeq(b, x + 1, y)[i] = b[x + i]
  BY ONLY <1>1, <1>2, <1>5, WindowOf
<1> HIDE DEF l, r
<1>7. l \in Seq(Nat) /\ r \in Seq(Nat) /\ Len(l) = y - x /\ Len(r) = y - x
  BY ONLY <1>2, <1>3, <1>4, <1>6 DEF l
<1>8. \A i \in 1..y - x : l[i] = r[i]
  <2> TAKE i \in 1..y - x
  <2> DEFINE t == x + i
  <2>1. t \in 1..g - a /\ a + t = h + i /\ i \in 1..z - h /\ x + i = t
    BY ONLY <1>2, i \in 1..y - x
  <2> HIDE DEF t
  <2>2. l[i] = b[t]
    BY ONLY <1>6, <2>1 DEF l
  <2>3. b[t] = W[a + t]
    BY ONLY <1>1, <2>1
  <2>4. r[i] = W[h + i]
    BY ONLY <1>3, <1>4, <2>1
  <2> QED
    BY ONLY <2>1, <2>2, <2>3, <2>4
<1>9. l = r
  BY ONLY <1>7, <1>8, SeqEqual
<1> QED
  BY <1>9 DEF l, r, b

\* An access unit: its units, and the types that are heard in it.
IsAccess(s, i, m) ==
  /\ m \in Delimiters(s) /\ m > i /\ m \in 1..Len(s.parts) /\ i \in 1..Len(s.parts)
  /\ \A x \in Delimiters(s) : x > i => m <= x
  /\ Within(s, i) = i..m - 1
  /\ Ends(s, m - 1) \in Ends(s, i - 1)..Len(AllBytes(s))
  /\ Access(s, i) = Unused(s, i - 1, Ends(s, m - 1))
  /\ \A types : HeardOf(s, i - 1, Ends(s, m - 1), types) = {x \in i..m - 1 : TypeOf(s, x) \in types}
  /\ \A types : Typed(s.format, Access(s, i), types) # {} <=> Holds(s, i, types)

\* From a delimiter to the next there is an access unit.
LEMMA AccessIs ==
  ASSUME NEW s \in Streams, s.format \in H26x, NEW i \in Delimiters(s), NEW j \in Delimiters(s), i < j
  PROVE  IsAccess(s, i, NextOne(s, i)) /\ NextOne(s, i) <= j
<1> DEFINE n == Len(s.parts)
           S == {x \in Delimiters(s) : x > i}
           m == NextOne(s, i)
<1>1. Grows(s)
  BY NalGrows
<1>2. n \in Nat /\ Delimiters(s) \in SUBSET (1..n)
  BY <1>1 DEF Grows, Delimiters
<1>3. m \in S /\ \A x \in S : m <= x
  <2>1. S \in SUBSET Nat
    <3>1. \A x \in Delimiters(s) : x \in Nat
      BY <1>2
    <3> QED
      BY ONLY <3>1
  <2>2. S # {}
    <3>1. j \in S
      OBVIOUS
    <3> QED
      BY ONLY <3>1
  <2>3. m = Min(S)
    BY DEF NextOne
  <2> HIDE DEF S, m
  <2> QED
    BY ONLY <2>1, <2>2, <2>3, MinIs
<1> HIDE DEF m
<1>4. m \in Delimiters(s) /\ m > i /\ m <= j /\ m \in 1..n /\ i \in 1..n /\ \A x \in Delimiters(s) : x > i => m <= x
  BY <1>2, <1>3
<1>5. Within(s, i) = i..m - 1
  BY ONLY DEF Within, m, NextOne
<1>6. Access(s, i) = Unused(s, i - 1, Ends(s, m - 1))
  BY ONLY DEF Access, m
<1> HIDE DEF S
<1> DEFINE g == Ends(s, m - 1)
<1>7. g \in Ends(s, i - 1)..Len(AllBytes(s)) /\ g \in Nat
  <2>1. i - 1 \in 0..n /\ m - 1 \in 0..n /\ n \in 0..n /\ i - 1 <= m - 1 /\ m - 1 <= n
    BY <1>2, <1>4
  <2>2. Ends(s, i - 1) <= g /\ g <= Ends(s, n) /\ Ends(s, n) = Len(AllBytes(s)) /\ g \in Nat /\ Ends(s, i - 1) \in Nat /\ Ends(s, n) \in Nat
    BY ONLY <1>1, <2>1 DEF Grows, n
  <2> HIDE DEF g
  <2> QED
    BY <2>2
<1> HIDE DEF g
<1>8. ASSUME NEW x \in i..n
      PROVE  Ends(s, x - 1) + s.parts[x].code + 1 <= g <=> x <= m - 1
  <2> DEFINE h == Ends(s, x - 1)
             z == Ends(s, x)
             d == s.parts[x].code
             l == Len(s.parts[x].unit)
  <2>1. x \in 1..n /\ x \in 0..n /\ x - 1 \in 0..n /\ m - 1 \in 0..n
    BY <1>2, <1>4
  <2>2. h \in Nat /\ z \in Nat /\ d \in {3, 4} /\ l \in Nat \ {0} /\ z = h + d + l
    BY <1>1, <2>1 DEF Grows, n
  <2>3. x <= m - 1 => z <= g
    BY <1>1, <2>1 DEF Grows, g, n
  <2>4. m - 1 <= x - 1 => g <= h
    BY <1>1, <2>1 DEF Grows, g, n
  <2> HIDE DEF h, z, d, l
  <2>5. x <= m - 1 => h + d + 1 <= g
    BY ONLY <2>2, <2>3, <1>7
  <2>6. ~(x <= m - 1) => ~(h + d + 1 <= g)
    <3>1. ~(x <= m - 1) => m - 1 <= x - 1
      BY <1>4
    <3> QED
      BY ONLY <3>1, <2>2, <2>4, <1>7
  <2> QED
    BY ONLY <2>5, <2>6 DEF h, d
<1>9. \A types : HeardOf(s, i - 1, g, types) = {x \in i..m - 1 : TypeOf(s, x) \in types}
  <2> TAKE types
  <2>1. HeardOf(s, i - 1, g, types) = {x \in i..n : Ends(s, x - 1) + s.parts[x].code + 1 <= g /\ TypeOf(s, x) \in types}
    <3>1. (i - 1) + 1 = i
      BY <1>4
    <3> QED
      BY ONLY <3>1 DEF HeardOf, n
  <2>2. \A x \in i..m - 1 : x \in i..n
    BY <1>2, <1>4
  <2>3. \A x \in i..n : x <= m - 1 => x \in i..m - 1
    BY <1>2, <1>4
  <2>4. \A x \in i..m - 1 : x <= m - 1
    OBVIOUS
  <2> QED
    BY ONLY <2>1, <2>2, <2>3, <2>4, <1>8
<1>10. \A types : Typed(s.format, Access(s, i), types) # {} <=> Holds(s, i, types)
  <2> TAKE types
  <2>1. IsHeard(s, i - 1, g)
    <3> DEFINE k == i - 1
    <3>1. k \in 0..Len(s.parts) /\ g \in Ends(s, k)..Len(AllBytes(s))
      BY <1>2, <1>4, <1>7 DEF n
    <3> HIDE DEF k
    <3>2. IsHeard(s, k, g)
      BY ONLY <3>1, HeardAre, s \in Streams, s.format \in H26x
    <3> QED
      BY <3>2 DEF k
  <2>2. Typed(s.format, Access(s, i), types) = {BeginsAt(s, i - 1)[x] : x \in HeardOf(s, i - 1, g, types)}
    BY ONLY <2>1, <1>6 DEF IsHeard, g
  <2>3. Typed(s.format, Access(s, i), types) # {} <=> HeardOf(s, i - 1, g, types) # {}
    BY ONLY <2>2
  <2>4. Holds(s, i, types) <=> \E x \in i..m - 1 : TypeOf(s, x) \in types
    BY ONLY <1>5 DEF Holds
  <2> QED
    BY ONLY <2>3, <2>4, <1>9
<1> QED
  BY ONLY <1>4, <1>5, <1>6, <1>7, <1>9, <1>10 DEF IsAccess, g, m, n

\* The delimiters that are heard, and those of them that a picture is behind, and the next delimiter.
Heard(s, k, g) == HeardOf(s, k, g, Auds(s.format))
Shows(s, k, g) == {i \in Heard(s, k, g) : i # Max(Heard(s, k, g)) /\ Holds(s, i, Vcls(s.format))}

\* They are heard in their order: with one, all that come before it.
LEMMA HeardHolds ==
  ASSUME NEW s \in Streams, s.format \in H26x, NEW k \in 0..Len(s.parts), NEW g \in Ends(s, k)..Len(AllBytes(s))
  PROVE  /\ Heard(s, k, g) \in SUBSET (1..Len(s.parts)) /\ Heard(s, k, g) \in SUBSET Delimiters(s)
         /\ \A i \in Heard(s, k, g) : i > k /\ Ends(s, i - 1) \in Ends(s, k)..g
         /\ \A j \in Heard(s, k, g) : \A i \in Delimiters(s) : i > k /\ i <= j => i \in Heard(s, k, g)
<1> DEFINE n == Len(s.parts)
           A == Heard(s, k, g)
<1>1. Grows(s)
  BY NalGrows
<1>2. n \in Nat /\ DOMAIN s.parts = 1..n /\ k \in 0..n /\ g \in Int
  BY <1>1 DEF Grows
<1>3. A = {i \in k + 1..n : Ends(s, i - 1) + s.parts[i].code + 1 <= g /\ TypeOf(s, i) \in Auds(s.format)}
  BY ONLY DEF Heard, HeardOf, n
<1>4. Delimiters(s) = {i \in 1..n : TypeOf(s, i) \in Auds(s.format)}
  BY ONLY <1>2 DEF Delimiters
<1> HIDE DEF n, A
<1>5. \A i \in k + 1..n : i \in 1..n /\ i > k /\ i - 1 \in 0..n /\ k <= i - 1 /\ i \in 0..n
  BY ONLY <1>2
<1>6. A \in SUBSET (1..n) /\ A \in SUBSET Delimiters(s)
  BY ONLY <1>3, <1>4, <1>5
<1>7. ASSUME NEW i \in A PROVE i > k /\ Ends(s, i - 1) \in Ends(s, k)..g
  <2> DEFINE h == Ends(s, i - 1)
             d == s.parts[i].code
             z == Ends(s, k)
  <2>1. i \in k + 1..n /\ h + d + 1 <= g
    BY ONLY <1>3, <1>7
  <2>2. h \in Nat /\ z \in Nat /\ d \in {3, 4} /\ z <= h
    BY ONLY <1>1, <1>2, <1>5, <2>1 DEF Grows, n
  <2> HIDE DEF h, d, z
  <2>3. h \in z..g
    BY ONLY <1>2, <2>1, <2>2
  <2> QED
    BY ONLY <1>5, <2>1, <2>3 DEF h, z
<1>8. ASSUME NEW j \in A, NEW i \in Delimiters(s), i > k, i <= j
      PROVE  i \in A
  <2>1. CASE i = j
    BY <2>1
  <2>2. CASE i # j
    <3> DEFINE h == Ends(s, i - 1)
               d == s.parts[i].code
               l == Len(s.parts[i].unit)
               z == Ends(s, i)
               y == Ends(s, j - 1)
    <3>1. i \in k + 1..n /\ j \in k + 1..n /\ i <= j - 1
      BY ONLY <1>2, <1>3, <1>4, <1>8, <2>2
    <3>2. h \in Nat /\ d \in {3, 4} /\ l \in Nat \ {0} /\ z = h + d + l /\ z <= y /\ y \in Nat
      BY ONLY <1>1, <1>5, <3>1 DEF Grows, n
    <3>3. y \in Ends(s, k)..g
      BY ONLY <1>7
    <3> HIDE DEF h, d, l, z, y
    <3>4. h + d + 1 <= g
      BY ONLY <1>2, <3>2, <3>3
    <3> QED
      BY ONLY <1>3, <1>4, <1>8, <3>1, <3>4 DEF h, d
  <2> QED
    BY <2>1, <2>2
<1> QED
  BY ONLY <1>6, <1>7, <1>8 DEF A, n

\* What push cuts out of its buffer from the i-th unit on is the access unit.
IsSliced(s, k, g, i) ==
  /\ IsAccess(s, i, NextOne(s, i)) /\ NextOne(s, i) <= Max(Heard(s, k, g)) /\ NextOne(s, i) \in Heard(s, k, g)
  /\ Slice(Unused(s, k, g), {BeginsAt(s, k)[x] : x \in Heard(s, k, g)}, BeginsAt(s, k)[i]) = Access(s, i)

\* It is so for each delimiter but the last that is heard.
LEMMA SlicedIs ==
  ASSUME NEW s \in Streams, s.format \in H26x, NEW k \in 0..Len(s.parts), NEW g \in Ends(s, k)..Len(AllBytes(s)),
         NEW i \in Heard(s, k, g), i # Max(Heard(s, k, g))
  PROVE  IsSliced(s, k, g, i)
<1> DEFINE n == Len(s.parts)
           A == Heard(s, k, g)
           p == BeginsAt(s, k)
           j == Max(A)
           m == NextOne(s, i)
           W == AllBytes(s)
<1>1. Grows(s)
  BY NalGrows
<1>2. n \in Nat /\ k \in 0..n /\ W \in Seq(Nat)
  BY <1>1 DEF Grows
<1>3. /\ A \in SUBSET (1..n) /\ A \in SUBSET Delimiters(s)
      /\ \A x \in A : x > k /\ Ends(s, x - 1) \in Ends(s, k)..g
      /\ \A y \in A : \A x \in Delimiters(s) : x > k /\ x <= y => x \in A
  BY HeardHolds
<1>4. IsHeard(s, k, g)
  BY HeardAre
<1>5. /\ p \in [1..n -> Int]
      /\ \A x, y \in 1..n : x < y => p[x] < p[y]
      /\ \A x \in A : p[x] \in Nat
  <2>1. /\ p \in [1..n -> Int]
        /\ \A x, y \in 1..n : x < y => p[x] < p[y]
        /\ \A x \in k + 1..n : p[x] \in Nat
    BY ONLY <1>4 DEF IsHeard, n
  <2>2. \A x \in A : x \in k + 1..n
    <3> HIDE DEF A, n
    <3> QED
      BY ONLY <1>2, <1>3
  <2> HIDE DEF A, n, p
  <2> QED
    BY ONLY <2>1, <2>2
<1>6. j \in A /\ \A x \in A : x <= j
  <2>1. A \in SUBSET (0..n) /\ A # {}
    <3>1. \A x \in 1..n : x \in 0..n
      BY <1>2
    <3>2. i \in A
      OBVIOUS
    <3> HIDE DEF A, n
    <3> QED
      BY ONLY <1>3, <3>1, <3>2
  <2> HIDE DEF A, n
  <2> QED
    BY ONLY <1>2, <2>1, MaxIs
<1>7. i \in A /\ i # j
  OBVIOUS
<1> HIDE DEF A, n, p, j
<1>8. i < j
  BY ONLY <1>3, <1>6, <1>7
<1>9. IsAccess(s, i, m) /\ m <= j
  <2>1. i \in Delimiters(s) /\ j \in Delimiters(s)
    BY ONLY <1>3, <1>6, <1>7
  <2> QED
    BY ONLY <1>8, <2>1, AccessIs, s \in Streams, s.format \in H26x
<1> HIDE DEF m, W
<1>10. /\ m \in Delimiters(s) /\ m > i /\ \A x \in Delimiters(s) : x > i => m <= x
       /\ Access(s, i) = Unused(s, i - 1, Ends(s, m - 1)) /\ m \in 1..n
  BY ONLY <1>9 DEF IsAccess, n
<1>11. m \in A
  <2>1. m > k
    BY ONLY <1>2, <1>3, <1>7, <1>10
  <2> QED
    BY ONLY <1>3, <1>6, <1>9, <1>10, <2>1
<1>12. Min({x \in A : x > i}) = m
  <2> DEFINE S == {x \in A : x > i}
  <2>1. S \in SUBSET Nat
    <3>1. \A x \in A : x \in Nat
      BY ONLY <1>2, <1>3
    <3> QED
      BY ONLY <3>1
  <2>2. m \in S /\ \A x \in S : m <= x
    BY ONLY <1>3, <1>10, <1>11
  <2> HIDE DEF S
  <2>3. Min(S) = m
    BY ONLY <2>1, <2>2, LeastIs
  <2> QED
    BY ONLY <2>3 DEF S
<1>13. Min({y \in {p[x] : x \in A} : y > p[i]}) = p[m]
  <2>1. IsNext(A, p, i)
    BY ONLY <1>2, <1>3, <1>5, <1>6, <1>7, <1>8, NextIs
  <2> QED
    BY ONLY <1>12, <2>1 DEF IsNext
<1>14. Slice(Unused(s, k, g), {p[x] : x \in A}, p[i]) = SubSeq(Unused(s, k, g), p[i], p[m] - 1)
  BY ONLY <1>13 DEF Slice
<1> DEFINE a == Ends(s, k)
           h == Ends(s, i - 1)
           z == Ends(s, m - 1)
<1>15. /\ a \in Nat /\ h \in Nat /\ z \in Nat /\ a <= h /\ h <= z /\ z <= g
       /\ p[i] = h + 1 - a /\ p[m] = z + 1 - a
  <2>1. i \in 1..n /\ m \in 1..n /\ i - 1 \in 0..n /\ m - 1 \in 0..n /\ i - 1 <= m - 1
    BY ONLY <1>2, <1>3, <1>7, <1>10
  <2>2. a \in Nat /\ h \in Nat /\ z \in Nat /\ h <= z
    BY ONLY <1>1, <1>2, <2>1 DEF Grows, n
  <2>3. h \in a..g /\ z \in a..g
    BY ONLY <1>3, <1>7, <1>11
  <2>4. p[i] = h + 1 - a /\ p[m] = z + 1 - a
    BY ONLY <2>1 DEF BeginsAt, p, n
  <2> HIDE DEF a, h, z
  <2> QED
    BY ONLY <2>2, <2>3, <2>4
<1>16. g \in a..Len(W)
  BY DEF W
<1>17. Unused(s, k, g) = SubSeq(W, a + 1, g) /\ Unused(s, i - 1, z) = SubSeq(W, h + 1, z)
  BY ONLY DEF Unused, W
<1> HIDE DEF a, h, z
<1> DEFINE x == h - a
           y == z - a
<1>18. x \in Nat /\ y \in x..g - a /\ a + x = h /\ a + y = z /\ p[i] = x + 1 /\ p[m] - 1 = y
  BY ONLY <1>15, <1>16, <1>2
<1> HIDE DEF x, y
<1>19. SubSeq(SubSeq(W, a + 1, g), x + 1, y) = SubSeq(W, a + x + 1, a + y)
  BY ONLY <1>2, <1>15, <1>16, <1>18, CutOfCut
<1>20. Slice(Unused(s, k, g), {p[w] : w \in A}, p[i]) = Access(s, i)
  <2>1. SubSeq(Unused(s, k, g), p[i], p[m] - 1) = SubSeq(W, h + 1, z)
    BY ONLY <1>17, <1>18, <1>19
  <2>2. Access(s, i) = SubSeq(W, h + 1, z)
    BY ONLY <1>10, <1>17 DEF z
  <2> QED
    BY ONLY <1>14, <2>1, <2>2
<1> QED
  BY ONLY <1>9, <1>11, <1>20 DEF IsSliced, A, p, j, m

\* What push finds in its buffer, against what was written: the delimiters, the last of them, the pictures.
IsPictured(s, k, g) ==
  LET f    == s.format
      b    == Unused(s, k, g)
      auds == Typed(f, b, Auds(f))
      A    == Heard(s, k, g)
      P    == Shows(s, k, g)
  IN  /\ auds = {BeginsAt(s, k)[x] : x \in A}
      /\ Cardinality(auds) = Cardinality(A) /\ Cardinality(A) \in Nat
      /\ A # {} => Max(A) \in A /\ From(b, Max(auds)) = Unused(s, Max(A) - 1, g)
      /\ P \in SUBSET A /\ InOrder(P) \in Seq(P) /\ Len(InOrder(P)) = Cardinality(P)
      /\ Pictures(f, b, auds) = [x \in 1..Cardinality(P) |-> BeginsAt(s, k)[InOrder(P)[x]]]

\* It finds them.
LEMMA PicturesAre ==
  ASSUME NEW s \in Streams, s.format \in H26x, NEW k \in 0..Len(s.parts), NEW g \in Ends(s, k)..Len(AllBytes(s))
  PROVE  IsPictured(s, k, g)
<1> DEFINE n == Len(s.parts)
           f == s.format
           b == Unused(s, k, g)
           auds == Typed(f, b, Auds(f))
           A == Heard(s, k, g)
           P == Shows(s, k, g)
           p == BeginsAt(s, k)
           img(S) == {p[x] : x \in S}
<1>1. Grows(s)
  BY NalGrows
<1>2. n \in Nat /\ k \in 0..n
  BY <1>1 DEF Grows
<1>3. /\ A \in SUBSET (1..n)
      /\ \A x \in A : x > k /\ Ends(s, x - 1) \in Ends(s, k)..g
  BY HeardHolds
<1>4. IsHeard(s, k, g)
  BY HeardAre
<1>5. /\ p \in [1..n -> Int]
      /\ \A x, y \in 1..n : x < y => p[x] < p[y]
      /\ auds = img(A)
  BY ONLY <1>4 DEF IsHeard, n, Heard
<1>6. P = {i \in A : i # Max(A) /\ Holds(s, i, Vcls(f))}
  BY ONLY DEF Shows
<1>7. \A i \in A : i # Max(A) => IsSliced(s, k, g, i)
  BY SlicedIs
<1> HIDE DEF n, f, b, A, P, p
<1>8. /\ InOrder(P) \in Seq(P) /\ Len(InOrder(P)) = Cardinality(P) /\ P \in SUBSET A
      /\ InOrder(img(P)) = [x \in 1..Cardinality(P) |-> p[InOrder(P)[x]]]
  <2>1. P \in SUBSET (1..n) /\ P \in SUBSET A
    BY ONLY <1>3, <1>6
  <2> QED
    BY ONLY <1>2, <1>5, <2>1, ImageIs
<1>9. /\ Cardinality(A) \in Nat /\ Cardinality(img(A)) = Cardinality(A)
      /\ A # {} => Max(A) \in A /\ Max(img(A)) = p[Max(A)]
  BY ONLY <1>2, <1>3, <1>5, ImageIs
<1> HIDE DEF auds
<1>10. ASSUME A # {} PROVE Max(A) \in A /\ From(b, Max(auds)) = Unused(s, Max(A) - 1, g)
  <2> DEFINE m == Max(A)
             q == m - 1
  <2>1. m \in A /\ Max(auds) = p[m]
    BY ONLY <1>5, <1>9, <1>10
  <2> HIDE DEF m
  <2>2. q \in k..n /\ m \in 1..n /\ Ends(s, q) \in Ends(s, k)..g
    BY ONLY <1>2, <1>3, <2>1
  <2>3. p[m] = Ends(s, q) + 1 - Ends(s, k)
    BY ONLY <2>2 DEF p, BeginsAt, n
  <2> HIDE DEF q
  <2>4. IsStream(s)
    BY NalStream
  <2>5. Ends(s, q) <= g /\ Ends(s, q) \in Nat /\ Ends(s, k) \in Nat
    <3>1. q \in 0..n
      BY ONLY <1>2, <2>2
    <3>2. Ends(s, q) \in Nat /\ Ends(s, k) \in Nat
      BY ONLY <1>1, <1>2, <3>1 DEF Grows, n
    <3> QED
      BY ONLY <2>2, <3>2
  <2>6. p[m] = Ends(s, q) - Ends(s, k) + 1
    BY ONLY <2>3, <2>5
  <2>7. From(Unused(s, k, g), Ends(s, q) - Ends(s, k) + 1) = Unused(s, q, g)
    <3>1. q \in k..Len(s.parts)
      BY ONLY <2>2 DEF n
    <3> QED
      BY <2>4, <2>5, <3>1, UnusedIs
  <2> QED
    BY ONLY <2>1, <2>6, <2>7 DEF b, m, q
<1>11. {i \in auds : i # Max(auds) /\ Typed(f, Slice(b, auds, i), Vcls(f)) # {}} = img(P)
  <2>1. ASSUME NEW i \in A
        PROVE  (p[i] # Max(auds) /\ Typed(f, Slice(b, auds, p[i]), Vcls(f)) # {}) <=> i \in P
    <3> DEFINE m == Max(A)
    <3>1. m \in A /\ Max(auds) = p[m] /\ i \in A
      BY ONLY <1>5, <1>9, <2>1
    <3> HIDE DEF m
    <3>2. p[i] # p[m] <=> i # m
      <4>1. i \in 1..n /\ m \in 1..n
        BY ONLY <1>3, <3>1
      <4>2. i # m => i < m \/ m < i
        BY ONLY <4>1
      <4> QED
        BY ONLY <1>5, <4>1, <4>2
    <3>3. CASE i = m
      BY ONLY <1>6, <3>1, <3>2, <3>3 DEF m
    <3>4. CASE i # m
      <4>1. IsSliced(s, k, g, i)
        BY ONLY <1>7, <3>1, <3>4 DEF m
      <4>2. Slice(b, auds, p[i]) = Access(s, i) /\ IsAccess(s, i, NextOne(s, i))
        BY ONLY <4>1, <1>5 DEF IsSliced, A, b, p
      <4>3. Typed(f, Access(s, i), Vcls(f)) # {} <=> Holds(s, i, Vcls(f))
        BY ONLY <4>2 DEF IsAccess, f
      <4> QED
        BY ONLY <1>6, <3>1, <3>2, <3>4, <4>2, <4>3 DEF m
    <3> QED
      BY ONLY <3>3, <3>4
  <2>2. \A i \in P : i \in A
    BY ONLY <1>6
  <2> QED
    BY ONLY <1>5, <2>1, <2>2
<1>12. Pictures(f, b, auds) = [x \in 1..Cardinality(P) |-> p[InOrder(P)[x]]]
  <2>1. Pictures(f, b, auds) = InOrder(img(P))
    BY ONLY <1>11 DEF Pictures
  <2> QED
    BY ONLY <1>8, <2>1
<1> QED
  BY ONLY <1>5, <1>8, <1>9, <1>10, <1>12 DEF IsPictured, n, f, b, A, P, p, auds

-----------------------------------------------------------------------------
(* What an access unit is sent as.                                         *)

\* Some parts after each other.
Run(ss, k, j) == FlattenSeq([x \in 1..j - k |-> ss[k + x]])

\* Two ways to say what is made of the seqs from the k-th to the j-th.
LEMMA RunIs ==
  ASSUME NEW T, NEW ss \in Seq(Seq(T)), NEW k \in 0..Len(ss), NEW j \in k..Len(ss)
  PROVE  Run(ss, k, j) = Rest(ss, k, j)
<1> DEFINE N == j - k
           tt == [x \in 1..N |-> ss[k + x]]
           L == Len(ss)
           a == Flat(ss, k)
<1>1. L \in Nat /\ k \in Nat /\ N \in Nat /\ k + N = j /\ j \in Nat /\ k <= L /\ j <= L
  OBVIOUS
<1>2. \A x \in 1..L : ss[x] \in Seq(T)
  OBVIOUS
<1> HIDE DEF N, L
<1>3. \A x \in 1..N : k + x \in 1..L
  BY ONLY <1>1
<1>4. tt \in Seq(Seq(T)) /\ Len(tt) = N /\ \A x \in 1..N : tt[x] = ss[k + x] /\ tt[x] \in Seq(T)
  <2>1. \A x \in 1..N : ss[k + x] \in Seq(T)
    BY ONLY <1>2, <1>3
  <2> DEFINE U == Seq(T)
  <2>2. \A x \in 1..N : ss[k + x] \in U
    BY ONLY <2>1
  <2> HIDE DEF U
  <2>3. tt \in [1..N -> U]
    BY ONLY <2>2
  <2>4. tt \in Seq(U) /\ Len(tt) = N
    <3> HIDE DEF tt
    <3> QED
      BY ONLY <1>1, <2>3
  <2> QED
    BY ONLY <2>1, <2>4 DEF U
<1> HIDE DEF tt
<1>5. /\ Flat(tt, 0) = <<>>
      /\ \A x \in 0..N - 1 : Flat(tt, x + 1) = Flat(tt, x) \o tt[x + 1]
      /\ \A x \in 0..N : Flat(tt, x) \in Seq(T)
      /\ FlattenSeq(tt) = Flat(tt, N)
  BY ONLY <1>4, FlatSteps
<1>6. /\ \A x \in 0..L - 1 : Flat(ss, x + 1) = Flat(ss, x) \o ss[x + 1]
      /\ \A x \in 0..L : Flat(ss, x) \in Seq(T)
  BY ONLY FlatSteps, ss \in Seq(Seq(T)) DEF L
<1>7. \A x \in 0..N : a \o Flat(tt, x) = Flat(ss, k + x)
  <2> DEFINE I == {x \in Nat : x <= N => a \o Flat(tt, x) = Flat(ss, k + x)}
  <2>1. 0 \in I
    <3>1. a \in Seq(T) /\ k + 0 = k
      BY ONLY <1>1, <1>6
    <3>2. a \o <<>> = a
      <4> HIDE DEF a
      <4> QED
        BY ONLY <3>1, ConcatEmptySeq
    <3> QED
      BY ONLY <1>5, <3>1, <3>2
  <2>2. \A x \in I : x + 1 \in I
    <3> TAKE x \in I
    <3>1. SUFFICES ASSUME x + 1 <= N PROVE a \o Flat(tt, x + 1) = Flat(ss, k + (x + 1))
      BY ONLY <3>1, x \in I
    <3>2. x \in Nat /\ x <= N /\ x \in 0..N - 1 /\ x \in 0..N /\ k + x \in 0..L - 1 /\ k \in 0..L /\ x + 1 \in 1..N
          /\ k + (x + 1) = (k + x) + 1
      BY ONLY <1>1, <3>1, x \in I
    <3>3. a \o Flat(tt, x) = Flat(ss, k + x)
      BY ONLY <3>2, x \in I
    <3>4. Flat(ss, k + (x + 1)) = Flat(ss, k + x) \o ss[k + (x + 1)]
      BY ONLY <1>6, <3>2
    <3>5. Flat(tt, x + 1) = Flat(tt, x) \o ss[k + (x + 1)]
      BY ONLY <1>4, <1>5, <3>2
    <3>6. a \in Seq(T) /\ Flat(tt, x) \in Seq(T) /\ ss[k + (x + 1)] \in Seq(T)
      BY ONLY <1>4, <1>5, <1>6, <3>2
    <3> DEFINE y == Flat(tt, x)
               w == ss[k + (x + 1)]
    <3>8. a \in Seq(T) /\ y \in Seq(T) /\ w \in Seq(T)
      BY ONLY <3>6
    <3> HIDE DEF a, y, w
    <3>9. (a \o y) \o w = a \o (y \o w)
      BY ONLY <3>8, ConcatAssociative
    <3>7. a \o (y \o w) = (a \o y) \o w
      BY ONLY <3>9
    <3> QED
      BY ONLY <3>3, <3>4, <3>5, <3>7 DEF y, w
  <2>3. I \in SUBSET Nat
    OBVIOUS
  <2> HIDE DEF I
  <2>4. I = Nat
    BY ONLY <2>1, <2>2, <2>3, Induction
  <2>5. \A x \in Nat : x <= N => a \o Flat(tt, x) = Flat(ss, k + x)
    BY ONLY <2>4 DEF I
  <2> QED
    BY ONLY <1>1, <2>5
<1> DEFINE z == Flat(tt, N)
           r == Rest(ss, k, j)
<1>8. a \o z = Flat(ss, j) /\ z \in Seq(T)
  <2>1. N \in 0..N
    BY ONLY <1>1
  <2> QED
    BY ONLY <1>1, <1>5, <1>7, <2>1
<1>9. r \in Seq(T) /\ a \in Seq(T) /\ a \o r = Flat(ss, j)
  BY RestGoesOn
<1> HIDE DEF a, z, r
<1>10. z = r
  <2>1. Len(a \o z) = Len(a) + Len(z) /\ Len(a \o r) = Len(a) + Len(r) /\ Len(a) \in Nat /\ Len(z) \in Nat /\ Len(r) \in Nat
    BY ONLY <1>8, <1>9, JoinIs
  <2>2. Len(z) = Len(r)
    BY ONLY <1>8, <1>9, <2>1
  <2>3. \A i \in 1..Len(z) : (a \o z)[Len(a) + i] = z[i]
    BY ONLY <1>8, <1>9, JoinIs
  <2>4. \A i \in 1..Len(r) : (a \o r)[Len(a) + i] = r[i]
    BY ONLY <1>8, <1>9, JoinIs
  <2>5. \A i \in 1..Len(z) : z[i] = r[i]
    BY ONLY <1>8, <1>9, <2>2, <2>3, <2>4
  <2> QED
    BY ONLY <1>8, <1>9, <2>2, <2>5, SeqEqual
<1>11. Run(ss, k, j) = FlattenSeq(tt)
  BY ONLY DEF Run, tt, N
<1> QED
  BY ONLY <1>5, <1>10, <1>11 DEF z, r

\* The units with codes in front of them.
Coded(s, codes) == [x \in 1..Len(s.parts) |-> codes[x] \o s.parts[x].unit]

\* What an access unit is meant to be is made of its units one after the other.
LEMMA WrittenIs ==
  ASSUME NEW s \in Streams, s.format \in H26x, NEW i, NEW m, IsAccess(s, i, m),
         NEW codes \in [1..Len(s.parts) -> Seq(Nat)]
  PROVE  /\ Coded(s, codes) \in Seq(Seq(Nat)) /\ Len(Coded(s, codes)) = Len(s.parts)
         /\ Written(s, i, codes) = Rest(Coded(s, codes), i - 1, m - 1)
         /\ Written(s, i, codes) = FlattenSeq([x \in 1..m - i |-> codes[i + x - 1] \o s.parts[i + x - 1].unit])
<1> DEFINE n == Len(s.parts)
           ss == Coded(s, codes)
           k == i - 1
           j == m - 1
           N == m - i
<1>1. n \in Nat /\ \A x \in 1..n : s.parts[x].unit \in Units
  BY NalGrows DEF Grows
<1>2. i \in 1..n /\ m \in 1..n /\ i < m /\ Within(s, i) = i..m - 1
  BY DEF IsAccess
<1> HIDE DEF n
<1>3. /\ k \in 0..n /\ j \in k..n /\ j - k = N /\ N \in Nat /\ \A x \in 1..N : k + x = i + x - 1 /\ i + x - 1 \in 1..n
  BY ONLY <1>1, <1>2
<1>4. Cardinality(i..m - 1) = N
  <2>1. Cardinality(i..m - 1) = IF i > m - 1 THEN 0 ELSE (m - 1) - i + 1
    BY ONLY <1>1, <1>2, FS_Interval
  <2> QED
    BY ONLY <1>1, <1>2, <2>1
<1>5. ss \in Seq(Seq(Nat)) /\ Len(ss) = n /\ \A x \in 1..n : ss[x] = codes[x] \o s.parts[x].unit
  <2> DEFINE T == Seq(Nat)
             h(x) == codes[x] \o s.parts[x].unit
  <2>1. \A x \in 1..n : h(x) \in T
    <3> TAKE x \in 1..n
    <3> DEFINE u == s.parts[x].unit
               d == codes[x]
    <3>1. d \in Seq(Nat)
      BY DEF n
    <3>2. u \in Seq(Nat)
      BY ONLY <1>1 DEF Units
    <3> HIDE DEF u, d
    <3>3. d \o u \in Seq(Nat)
      BY ONLY <3>1, <3>2
    <3> QED
      BY ONLY <3>3 DEF d, u
  <2>2. ss = [x \in 1..n |-> h(x)]
    BY ONLY DEF Coded, n
  <2> HIDE DEF T, h, ss
  <2>3. ss \in Seq(T) /\ Len(ss) = n /\ \A x \in 1..n : ss[x] = h(x)
    BY ONLY <1>1, <2>1, <2>2
  <2> QED
    BY ONLY <2>3 DEF T, h
<1> HIDE DEF ss, k, j, N
<1>6. Run(ss, k, j) = Rest(ss, k, j)
  BY ONLY <1>3, <1>5, RunIs
<1>7. [x \in 1..N |-> codes[i + x - 1] \o s.parts[i + x - 1].unit] = [x \in 1..j - k |-> ss[k + x]]
  BY ONLY <1>3, <1>5
<1>8. Written(s, i, codes) = FlattenSeq([x \in 1..N |-> codes[i + x - 1] \o s.parts[i + x - 1].unit])
  BY ONLY <1>2, <1>4 DEF Written
<1>9. Written(s, i, codes) = Rest(ss, k, j)
  BY ONLY <1>6, <1>7, <1>8 DEF Run
<1> QED
  BY ONLY <1>5, <1>8, <1>9 DEF ss, n, k, j, N

\* The codes of what the viewers and a media track get: their own, lengths, long ones.
Own(s)   == [j \in DOMAIN s.parts |-> Code(s.parts[j].code)]
Sizes(s) == [j \in DOMAIN s.parts |-> Big(Len(s.parts[j].unit))]
Long(s)  == [j \in DOMAIN s.parts |-> Code(4)]

\* A unit whose end is read can be cut out of what is unused.
LEMMA UnitIn ==
  ASSUME NEW s \in Streams, s.format \in H26x, NEW k \in 0..Len(s.parts), NEW g \in Ends(s, k)..Len(AllBytes(s)),
         NEW x \in k + 1..Len(s.parts), Ends(s, x) <= g
  PROVE  Payload(SubSeq(Unused(s, k, g), Ends(s, x - 1) - Ends(s, k) + 1, Ends(s, x) - Ends(s, k))) = s.parts[x].unit
<1> DEFINE n == Len(s.parts)
           W == AllBytes(s)
           e == EndsOf(s)
           c == CodesOf(s)
           a == Ends(s, k)
           h == Ends(s, x - 1)
           z == Ends(s, x)
           u == s.parts[x].unit
           d == s.parts[x].code
           l == Len(u)
<1>1. Grows(s)
  BY NalGrows
<1>2. Laid(W, n, e, c) /\ \A y \in 1..l : W[h + d + y] = u[y]
  <2>1. \A i \in 1..n : \A y \in 1..Len(s.parts[i].unit) : W[Ends(s, i - 1) + s.parts[i].code + y] = s.parts[i].unit[y]
    BY NalStream
  <2>2. x \in 1..n
    BY <1>1 DEF Grows
  <2>3. Laid(W, n, e, c)
    BY NalStream
  <2> QED
    BY ONLY <2>1, <2>2, <2>3
<1>3. n \in Nat /\ W \in Seq(Nat) /\ k \in 0..n /\ x \in 1..n /\ x \in 0..n /\ x - 1 \in 0..n /\ k <= x - 1
  BY <1>1 DEF Grows
<1>4. /\ a \in Nat /\ h \in Nat /\ z \in Nat /\ a <= h /\ z = h + d + l /\ d \in {3, 4} /\ l \in Nat \ {0} /\ u \in Units
  BY ONLY <1>1, <1>3 DEF Grows, n
<1>5. e[x - 1] = h /\ e[x] = z /\ c[x] = d
  BY ONLY <1>3 DEF EndsOf, CodesOf, n
<1>6. g \in a..Len(W) /\ z <= g /\ Len(W) \in Nat
  BY <1>3
<1>7. u \in Seq(Nat)
  <2> HIDE DEF u
  <2> QED
    BY ONLY <1>4 DEF Units
<1>8. Unused(s, k, g) = SubSeq(W, a + 1, g)
  BY ONLY DEF Unused, W, a
<1> HIDE DEF n, W, e, c, a, h, z, u, d, l
<1> DEFINE o == h - a
           y == z - a
<1>9. o \in Nat /\ y \in o..g - a /\ a + o = h /\ a + y = z /\ g \in Nat /\ Len(W) \in Nat
  BY ONLY <1>4, <1>6
<1> HIDE DEF o, y
<1>10. SubSeq(SubSeq(W, a + 1, g), o + 1, y) = SubSeq(W, a + o + 1, a + y)
  BY ONLY <1>3, <1>4, <1>6, <1>9, CutOfCut
<1>11. SubSeq(SubSeq(W, a + 1, g), o + 1, y) = Cut(W, e[x - 1], z)
  BY ONLY <1>5, <1>9, <1>10 DEF Cut
<1>12. Payload(Cut(W, e[x - 1], z)) = Cut(W, e[x - 1] + c[x], z)
  <2>1. z \in e[x - 1] + 4..Len(W)
    BY ONLY <1>4, <1>5, <1>6, <1>9
  <2> QED
    BY ONLY <1>2, <1>3, <2>1, PayloadIs
<1> DEFINE f == h + d
           v == SubSeq(W, f + 1, z)
<1>13. f \in Nat /\ z \in f..Len(W) /\ z - f = l
  BY ONLY <1>4, <1>6, <1>9
<1>14. \A w \in 1..l : W[f + w] = u[w]
  BY ONLY <1>2
<1> HIDE DEF f
<1>15. v \in Seq(Nat) /\ Len(v) = l /\ \A w \in 1..l : v[w] = W[f + w]
  BY ONLY <1>3, <1>13, WindowOf
<1> HIDE DEF v
<1>16. v = u
  <2>1. Len(u) = l
    BY ONLY DEF l
  <2>2. \A w \in 1..l : v[w] = u[w]
    BY ONLY <1>14, <1>15
  <2> QED
    BY ONLY <1>7, <1>15, <2>1, <2>2, SeqEqual
<1>17. Cut(W, e[x - 1] + c[x], z) = v
  BY ONLY <1>5 DEF Cut, v, f
<1> QED
  BY ONLY <1>8, <1>11, <1>12, <1>16, <1>17 DEF o, y, a, h, z, u

\* The bytes of an access unit are those that were meant.
LEMMA AccessWritten ==
  ASSUME NEW s \in Streams, s.format \in H26x, NEW i, NEW m, IsAccess(s, i, m)
  PROVE  Access(s, i) = Written(s, i, Own(s))
<1> DEFINE n == Len(s.parts)
           W == AllBytes(s)
           E == Encoded(s)
           k == i - 1
           j == m - 1
           F == Flat(E, j)
<1>1. Grows(s)
  BY NalGrows
<1>2. /\ IsStream(s) /\ HeadOf(s) = <<>>
      /\ \A x \in 1..n : s.parts[x].code \in {3, 4} /\ Bytes(s.format, s.parts[x]) = Code(s.parts[x].code) \o s.parts[x].unit
  BY NalStream
<1>3. n \in Nat /\ DOMAIN s.parts = 1..n /\ W \in Seq(Nat) /\ E \in Seq(Seq(Nat))
  BY <1>1, <1>2 DEF Grows, IsStream
<1>4. i \in 1..n /\ m \in 1..n /\ i < m /\ Access(s, i) = Unused(s, k, Ends(s, j))
  BY DEF IsAccess
<1>5. Own(s) \in [1..n -> Seq(Nat)]
  <2>1. \A x \in 1..n : Code(s.parts[x].code) \in Seq(Nat)
    <3> TAKE x \in 1..n
    <3> DEFINE d == s.parts[x].code
    <3>1. d \in {3, 4}
      BY <1>2
    <3> HIDE DEF d
    <3>2. Code(d) \in Seq(Nat)
      <4>1. <<0, 0, 1>> \in Seq(Nat) /\ <<0, 0, 0, 1>> \in Seq(Nat)
        OBVIOUS
      <4> QED
        BY ONLY <4>1 DEF Code
    <3> QED
      BY <3>2 DEF d
  <2> HIDE DEF n
  <2> QED
    BY ONLY <1>3, <2>1 DEF Own
<1>6. Coded(s, Own(s)) = E
  <2>1. \A x \in 1..n : Own(s)[x] = Code(s.parts[x].code)
    BY ONLY <1>3 DEF Own
  <2>2. E = [x \in 1..n |-> Bytes(s.format, s.parts[x])]
    BY ONLY <1>3 DEF Encoded
  <2>3. Coded(s, Own(s)) = [x \in 1..n |-> Own(s)[x] \o s.parts[x].unit]
    BY ONLY DEF Coded, n
  <2> HIDE DEF n, E
  <2> QED
    BY ONLY <1>2, <2>1, <2>2, <2>3
<1>7. Written(s, i, Own(s)) = Rest(E, k, j)
  <2>1. Written(s, i, Own(s)) = Rest(Coded(s, Own(s)), i - 1, m - 1)
    BY <1>5, WrittenIs
  <2> QED
    BY ONLY <1>6, <2>1
<1>8. Len(E) = n /\ \A x \in 0..n : Ends(s, x) = Len(Flat(E, x))
  <2>1. Len(E) = n
    BY <1>3 DEF Encoded
  <2>2. \A x \in 0..n : Len(Flat(E, x)) \in Nat
    <3> HIDE DEF E, n
    <3> QED
      BY ONLY <1>3, <2>1, FlatHolds
  <2>3. Len(HeadOf(s)) = 0
    BY ONLY <1>2, EmptySeq
  <2> HIDE DEF E, n
  <2> QED
    BY ONLY <2>1, <2>2, <2>3 DEF Ends, E
<1>9. W = FlattenSeq(E)
  <2>1. AllBytes(s) = HeadOf(s) \o FlattenSeq(E)
    BY ONLY DEF AllBytes, HeadOf, Encoded
  <2>2. FlattenSeq(E) \in Seq(Nat)
    <3>1. FlattenSeq(E) = Flat(E, Len(E)) /\ \A x \in 0..Len(E) : Flat(E, x) \in Seq(Nat)
      <4> HIDE DEF E
      <4> QED
        BY ONLY <1>3, FlatSteps
    <3>2. Len(E) \in 0..Len(E)
      BY ONLY <1>3, <1>8
    <3> QED
      BY ONLY <3>1, <3>2
  <2> QED
    BY ONLY <1>2, <2>1, <2>2, ConcatEmptySeq
<1> HIDE DEF W, E, n, k, j
<1>10. k \in 0..n /\ j \in 0..n /\ k <= j /\ n \in 0..n
  BY ONLY <1>3, <1>4 DEF k, j
<1> DEFINE a == Ends(s, k)
           g == Ends(s, j)
<1>11. a \in Nat /\ g \in a..Len(W) /\ a = Len(Flat(E, k)) /\ g = Len(F) /\ F \in Seq(Nat) /\ g \in a..Len(F)
       /\ Flat(E, n) = W /\ \A x \in 1..g : W[x] = F[x]
  <2>1. a \in Nat /\ g \in Nat /\ a <= g /\ Ends(s, n) = Len(W) /\ g <= Ends(s, n) /\ Len(W) \in Nat
    BY ONLY <1>1, <1>3, <1>10 DEF Grows, n, W
  <2>2. a = Len(Flat(E, k)) /\ g = Len(F)
    BY ONLY <1>8, <1>10
  <2>3. F \in Seq(Nat) /\ Flat(E, n) = W
    BY ONLY <1>3, <1>8, <1>9, <1>10, FlatSteps
  <2>4. \A x \in 1..Len(F) : Flat(E, n)[x] = F[x]
    <3>1. \A p, q \in 0..Len(E) : p <= q =>
            /\ Len(Flat(E, p)) <= Len(Flat(E, q))
            /\ \A x \in 1..Len(Flat(E, p)) : Flat(E, q)[x] = Flat(E, p)[x]
      BY ONLY <1>3, FlatHolds
    <3>2. j <= n
      BY ONLY <1>10, <1>3
    <3> QED
      BY ONLY <3>1, <3>2, <1>8, <1>10
  <2> HIDE DEF a, g, F
  <2> QED
    BY ONLY <2>1, <2>2, <2>3, <2>4
<1>12. Access(s, i) = SubSeq(W, a + 1, g)
  BY ONLY <1>4 DEF Unused, W
<1>13. Written(s, i, Own(s)) = SubSeq(F, a + 1, g)
  BY ONLY <1>7, <1>11 DEF Rest
<1> HIDE DEF a, g, F
<1> DEFINE l == SubSeq(W, a + 1, g)
           r == SubSeq(F, a + 1, g)
<1>14. l \in Seq(Nat) /\ Len(l) = g - a /\ \A x \in 1..g - a : l[x] = W[a + x]
  BY ONLY <1>3, <1>11, WindowOf
<1>15. r \in Seq(Nat) /\ Len(r) = g - a /\ \A x \in 1..g - a : r[x] = F[a + x]
  <2>1. F \in Seq(Nat) /\ a \in Nat /\ g \in a..Len(F)
    BY ONLY <1>11
  <2> QED
    BY ONLY <2>1, WindowOf
<1> HIDE DEF l, r
<1>16. \A x \in 1..g - a : l[x] = r[x]
  <2> TAKE x \in 1..g - a
  <2> DEFINE y == a + x
  <2>1. y \in 1..g
    BY ONLY <1>11, <1>3, x \in 1..g - a
  <2>2. l[x] = W[y] /\ r[x] = F[y]
    BY ONLY <1>14, <1>15, x \in 1..g - a
  <2> HIDE DEF y
  <2> QED
    BY ONLY <1>11, <2>1, <2>2
<1>17. l = r
  BY ONLY <1>14, <1>15, <1>16, SeqEqual
<1> QED
  BY ONLY <1>12, <1>13, <1>17 DEF l, r

\* What Prefixed finds where start codes are.
UnitFrom(b, q, y) == Payload(SubSeq(b, q[y], IF y = Len(q) THEN Len(b) ELSE q[y + 1] - 1))

\* A buffer of N units, which begin at q.
AreUnits(b, q, N, u) ==
  /\ InOrder(StartCodes(b)) = q /\ q # <<>> /\ DOMAIN q = 1..N
  /\ \A y \in 1..N : UnitFrom(b, q, y) = u[y] /\ u[y] # <<>>
\* Units with their lengths in front.
Sized(u, N) == FlattenSeq([y \in 1..N |-> Big(Len(u[y])) \o u[y]])

\* Of such a buffer, annexb_sample_to_length_prefixed makes the units with their lengths.
LEMMA PrefixedFrom ==
  ASSUME NEW b, NEW q, NEW N, NEW u, AreUnits(b, q, N, u)
  PROVE  Prefixed(b) = Sized(u, N)
<1>0. /\ InOrder(StartCodes(b)) = q /\ q # <<>> /\ DOMAIN q = 1..N
      /\ \A y \in 1..N : UnitFrom(b, q, y) = u[y] /\ u[y] # <<>>
  BY DEF AreUnits
<1>1. Prefixed(b) = FlattenSeq([y \in DOMAIN q |-> IF UnitFrom(b, q, y) = <<>> THEN <<>>
                                                   ELSE Big(Len(UnitFrom(b, q, y))) \o UnitFrom(b, q, y)])
  BY <1>0 DEF Prefixed, UnitFrom
<1> DEFINE F(y) == IF UnitFrom(b, q, y) = <<>> THEN <<>> ELSE Big(Len(UnitFrom(b, q, y))) \o UnitFrom(b, q, y)
<1>2. \A y \in 1..N : F(y) = Big(Len(u[y])) \o u[y]
  BY <1>0
<1>3. Prefixed(b) = FlattenSeq([y \in 1..N |-> F(y)])
  BY ONLY <1>0, <1>1 DEF F
<1> HIDE DEF F
<1>4. [y \in 1..N |-> F(y)] = [y \in 1..N |-> Big(Len(u[y])) \o u[y]]
  BY ONLY <1>2
<1> QED
  BY ONLY <1>3, <1>4 DEF Sized

\* An access unit as such a buffer.
IsUnitsOf(s, i, m, b, q) ==
  /\ InOrder(StartCodes(b)) = q /\ DOMAIN q = 1..m - i /\ q # <<>> /\ Len(q) = m - i /\ m - i \in Nat \ {0}
  /\ \A y \in 1..m - i : UnitFrom(b, q, y) = s.parts[i - 1 + y].unit

\* It is one.
LEMMA UnitsOfAccess ==
  ASSUME NEW s \in Streams, s.format \in H26x, NEW i, NEW m, IsAccess(s, i, m)
  PROVE  \E q : IsUnitsOf(s, i, m, Access(s, i), q)
<1> DEFINE n == Len(s.parts)
           k == i - 1
           N == m - i
           z == Ends(s, m - 1)
           a == Ends(s, k)
           b == Access(s, i)
           p == BeginsAt(s, k)
           q == [y \in 1..N |-> p[k + y]]
<1>1. Grows(s)
  BY NalGrows
<1>2. n \in Nat
  BY <1>1 DEF Grows
<1>3. /\ i \in 1..n /\ m \in 1..n /\ i < m /\ b = Unused(s, k, z) /\ z \in a..Len(AllBytes(s))
  BY DEF IsAccess
<1>4. /\ k \in 0..n /\ k + 1 = i /\ N \in Nat \ {0} /\ k + N = m - 1 /\ m - 1 \in 0..n
      /\ \A y \in 1..N : /\ k + y \in 1..n /\ k + y \in i..m - 1 /\ k + y - 1 \in 0..n /\ k + y \in 0..n
                         /\ (k + y) - 1 = k + y - 1 /\ k + y <= m - 1 /\ k + y \in k + 1..n
  BY ONLY <1>2, <1>3
<1>5. IsHeard(s, k, z)
  <2> HIDE DEF k, z
  <2> QED
    BY ONLY <1>3, <1>4, HeardAre, s \in Streams, s.format \in H26x DEF a, n
<1>6. SeenIn(s, k, z) = i..m - 1
  <2>1. SeenIn(s, k, z) = {x \in i..n : Ends(s, x - 1) + 4 <= z}
    BY ONLY <1>4 DEF SeenIn, n
  <2>2. ASSUME NEW x \in i..n PROVE Ends(s, x - 1) + 4 <= z <=> x <= m - 1
    <3> DEFINE h == Ends(s, x - 1)
    <3>1. x - 1 \in 0..n /\ x \in Int
      BY ONLY <1>2, <1>3, <2>2
    <3>2. x - 1 < m - 1 => h + 4 <= z
      BY ONLY <1>1, <1>4, <3>1 DEF Grows, n
    <3>3. m - 1 <= x - 1 => z <= h
      BY ONLY <1>1, <1>4, <3>1 DEF Grows, n
    <3>4. h \in Nat /\ z \in Nat
      BY ONLY <1>1, <1>4, <3>1 DEF Grows, n
    <3> HIDE DEF h, z
    <3> QED
      BY ONLY <1>2, <1>3, <3>1, <3>2, <3>3, <3>4 DEF h
  <2> HIDE DEF z
  <2>3. \A x \in i..m - 1 : x \in i..n /\ x <= m - 1
    BY ONLY <1>2, <1>3
  <2>4. \A x \in i..n : x <= m - 1 => x \in i..m - 1
    BY ONLY <1>2, <1>3
  <2> QED
    BY ONLY <2>1, <2>2, <2>3, <2>4
<1> HIDE DEF n, k, N, z, a, b, p
<1>7. /\ p \in [1..n -> Int] /\ \A x, y \in 1..n : x < y => p[x] < p[y]
      /\ StartCodes(b) = {p[x] : x \in i..m - 1}
  BY ONLY <1>3, <1>5, <1>6 DEF IsHeard, n, p
<1>8. q \in [1..N -> Int] /\ \A x, y \in 1..N : x < y => q[x] < q[y]
  <2>1. \A x \in 1..N : q[x] = p[k + x] /\ q[x] \in Int
    BY ONLY <1>4, <1>7
  <2>2. ASSUME NEW x \in 1..N, NEW y \in 1..N, x < y PROVE q[x] < q[y]
    <3>1. k + x < k + y
      BY ONLY <1>4, <1>2, <2>2
    <3> QED
      BY ONLY <1>4, <1>7, <2>1, <3>1, x \in 1..N, y \in 1..N
  <2> QED
    BY ONLY <2>1, <2>2
<1>9. {q[y] : y \in 1..N} = StartCodes(b)
  <2>1. \A y \in 1..N : q[y] \in StartCodes(b)
    BY ONLY <1>4, <1>7
  <2>2. ASSUME NEW x \in i..m - 1 PROVE \E y \in 1..N : p[x] = q[y]
    <3> DEFINE y == x - k
    <3>1. y \in 1..N /\ k + y = x
      BY ONLY <1>2, <1>3, <1>4, <2>2
    <3> HIDE DEF y
    <3>2. q[y] = p[k + y]
      BY ONLY <3>1
    <3> QED
      BY ONLY <3>1, <3>2
  <2> HIDE DEF q
  <2> QED
    BY ONLY <1>7, <2>1, <2>2
<1>10. \A y \in 1..N : q[y] = Ends(s, k + y - 1) - a + 1
  <2> TAKE y \in 1..N
  <2> DEFINE x == k + y
             h == Ends(s, x - 1)
  <2>1. x \in 1..n /\ x - 1 \in 0..n /\ q[y] = p[x]
    BY ONLY <1>4
  <2> HIDE DEF x
  <2>2. p[x] = h + 1 - a
    BY ONLY <2>1 DEF p, BeginsAt, a, n
  <2>3. h \in Nat /\ a \in Nat
    BY ONLY <1>1, <1>4, <2>1 DEF Grows, n, a
  <2> HIDE DEF h
  <2>4. q[y] = h - a + 1
    BY ONLY <2>1, <2>2, <2>3
  <2> QED
    BY ONLY <1>4, <2>4 DEF h, x
<1> HIDE DEF q
<1>11. InOrder(StartCodes(b)) = q
  <2>1. N \in Nat
    BY ONLY <1>4
  <2>2. InOrder({q[y] : y \in 1..N}) = q
    BY ONLY <1>8, <2>1, InOrderIs
  <2> QED
    BY ONLY <1>9, <2>2
<1>12. DOMAIN q = 1..N /\ Len(q) = N /\ q # <<>>
  <2>1. N \in Nat /\ DOMAIN q = 1..N /\ q \in Seq(Int)
    BY ONLY <1>4, <1>8
  <2>2. Len(q) = N
    BY ONLY <2>1
  <2> QED
    BY ONLY <2>1, <2>2, <1>4, EmptySeq
<1>13. Len(b) = Ends(s, k + N) - a
  <2>1. IsStream(s)
    BY NalStream
  <2>2. Len(Unused(s, k, z)) = z - Ends(s, k)
    BY ONLY <1>3, <1>4, <2>1, UnusedIs DEF a, n
  <2> QED
    BY ONLY <1>3, <1>4, <2>2 DEF a, z
<1>14. ASSUME NEW y \in 1..N PROVE UnitFrom(b, q, y) = s.parts[k + y].unit
  <2> DEFINE x == k + y
             h == Ends(s, x)
             v == IF y = Len(q) THEN Len(b) ELSE q[y + 1] - 1
  <2>1. x \in k + 1..n /\ x \in 0..n /\ x <= m - 1 /\ x = k + y /\ x - 1 = k + y - 1
    BY ONLY <1>4
  <2>2. h \in Nat /\ a \in Nat /\ h <= z /\ z \in Nat
    BY ONLY <1>1, <1>4, <2>1 DEF Grows, n, a, z
  <2> HIDE DEF h
  <2>3. v = h - a
    <3>1. CASE y = N
      BY ONLY <1>12, <1>13, <3>1 DEF h
    <3>2. CASE y # N
      <4>1. y + 1 \in 1..N /\ k + (y + 1) - 1 = x
        BY ONLY <1>2, <1>3, <1>4, <1>14, <3>2
      <4>2. q[y + 1] = Ends(s, k + (y + 1) - 1) - a + 1
        BY ONLY <1>10, <4>1
      <4>3. q[y + 1] = h - a + 1
        BY ONLY <4>1, <4>2 DEF h
      <4> QED
        BY ONLY <1>12, <2>2, <3>2, <4>3
    <3> QED
      BY ONLY <3>1, <3>2
  <2>4. q[y] = Ends(s, x - 1) - a + 1
    BY ONLY <1>4, <1>10, <1>14
  <2>5. UnitFrom(b, q, y) = Payload(SubSeq(b, q[y], v))
    BY ONLY DEF UnitFrom
  <2> HIDE DEF x, v
  <2>6. Payload(SubSeq(Unused(s, k, z), Ends(s, x - 1) - Ends(s, k) + 1, Ends(s, x) - Ends(s, k))) = s.parts[x].unit
    <3>1. k \in 0..Len(s.parts) /\ z \in Ends(s, k)..Len(AllBytes(s)) /\ x \in k + 1..Len(s.parts) /\ Ends(s, x) <= z
      BY ONLY <1>3, <1>4, <2>1, <2>2 DEF n, a, h
    <3> QED
      BY ONLY <3>1, UnitIn, s \in Streams, s.format \in H26x
  <2> QED
    BY ONLY <1>3, <2>3, <2>4, <2>5, <2>6 DEF a, h, x
<1>15. IsUnitsOf(s, i, m, b, q)
  BY ONLY <1>4, <1>11, <1>12, <1>14 DEF IsUnitsOf, N, k
<1> QED
  BY ONLY <1>15 DEF b

\* annexb_sample_to_length_prefixed makes of an access unit what is meant for the viewers.
LEMMA PrefixedIs ==
  ASSUME NEW s \in Streams, s.format \in H26x, NEW i, NEW m, IsAccess(s, i, m)
  PROVE  Prefixed(Access(s, i)) = Written(s, i, Sizes(s))
<1> DEFINE n == Len(s.parts)
           N == m - i
           b == Access(s, i)
           u == [y \in 1..N |-> s.parts[i - 1 + y].unit]
<1>1. PICK q : IsUnitsOf(s, i, m, b, q)
  BY UnitsOfAccess
<1>2. n \in Nat /\ DOMAIN s.parts = 1..n /\ \A x \in 1..n : s.parts[x].unit \in Units /\ Len(s.parts[x].unit) \in Nat \ {0}
  BY NalGrows DEF Grows
<1>3. i \in 1..n /\ m \in 1..n /\ i < m
  BY DEF IsAccess
<1> HIDE DEF n, b
<1>4. \A y \in 1..N : i - 1 + y \in 1..n /\ i + y - 1 \in 1..n /\ i - 1 + y = i + y - 1
  BY ONLY <1>2, <1>3
<1>5. \A y \in 1..N : u[y] = s.parts[i - 1 + y].unit /\ UnitFrom(b, q, y) = u[y]
  BY ONLY <1>1 DEF IsUnitsOf
<1>6. \A y \in 1..N : u[y] # <<>>
  <2> TAKE y \in 1..N
  <2> DEFINE v == s.parts[i - 1 + y].unit
  <2>1. v \in Units /\ u[y] = v
    BY ONLY <1>2, <1>4, <1>5
  <2> HIDE DEF v
  <2>2. v # <<>>
    BY ONLY <2>1 DEF Units
  <2> QED
    BY ONLY <2>1, <2>2
<1>7. InOrder(StartCodes(b)) = q /\ q # <<>> /\ DOMAIN q = 1..N
  BY ONLY <1>1 DEF IsUnitsOf
<1> HIDE DEF u, N
<1>8. AreUnits(b, q, N, u)
  BY ONLY <1>5, <1>6, <1>7 DEF AreUnits
<1>9. Prefixed(b) = FlattenSeq([y \in 1..N |-> Big(Len(u[y])) \o u[y]])
  <2>1. Prefixed(b) = Sized(u, N)
    BY ONLY <1>8, PrefixedFrom
  <2> QED
    BY ONLY <2>1 DEF Sized
<1>10. Sizes(s) \in [1..n -> Seq(Nat)] /\ \A x \in 1..n : Sizes(s)[x] = Big(Len(s.parts[x].unit))
  <2>1. \A x \in 1..n : Big(Len(s.parts[x].unit)) \in Seq(Nat)
    <3> TAKE x \in 1..n
    <3> DEFINE l == Len(s.parts[x].unit)
    <3>1. l \in Nat
      BY <1>2
    <3> HIDE DEF l
    <3>2. <<0, 0, 0, l>> \in Seq(Nat)
      BY <3>1
    <3> QED
      BY ONLY <3>2 DEF Big, l
  <2> QED
    BY ONLY <1>2, <2>1 DEF Sizes
<1>11. Written(s, i, Sizes(s)) = FlattenSeq([x \in 1..m - i |-> Sizes(s)[i + x - 1] \o s.parts[i + x - 1].unit])
  <2>1. Sizes(s) \in [1..Len(s.parts) -> Seq(Nat)]
    BY ONLY <1>10 DEF n
  <2> QED
    BY <2>1, WrittenIs
<1>12. [x \in 1..N |-> Sizes(s)[i + x - 1] \o s.parts[i + x - 1].unit] = [y \in 1..N |-> Big(Len(u[y])) \o u[y]]
  <2>1. \A y \in 1..N : Sizes(s)[i + y - 1] \o s.parts[i + y - 1].unit = Big(Len(u[y])) \o u[y]
    BY ONLY <1>4, <1>5, <1>10
  <2> QED
    BY ONLY <2>1
<1> QED
  BY ONLY <1>9, <1>11, <1>12 DEF b, N

\* The length in front of what follows.
LengthAt(b, i) == 256 * (256 * (256 * b[i] + b[i + 1]) + b[i + 2]) + b[i + 3]
LongFound(b) ==
  [i \in 1..Len(b) + 1 |->
    LET n == 256 * (256 * (256 * b[i] + b[i + 1]) + b[i + 2]) + b[i + 3]
    IN  IF Len(b) < i + 3 \/ n = 0 \/ n > Len(b) - i - 3 THEN Stops(i)
        ELSE Goes(Code(4) \o SubSeq(b, i + 4, i + 3 + n), i + 4 + n)]

\* avcc_to_annex_b goes forward.
LEMMA LongForward ==
  ASSUME NEW b \in Seq(Nat)
  PROVE  /\ Forward(b, LongFound(b))
         /\ LongCodes(b) = Taken(b, LongFound(b))
         /\ \A i \in 1..Len(b) + 1 : LongFound(b)[i] =
              IF Len(b) < i + 3 \/ LengthAt(b, i) = 0 \/ LengthAt(b, i) > Len(b) - i - 3 THEN Stops(i)
              ELSE Goes(Code(4) \o SubSeq(b, i + 4, i + 3 + LengthAt(b, i)), i + 4 + LengthAt(b, i))
<1> DEFINE l == Len(b)
<1>1. l \in Nat
  OBVIOUS
<1>2. LongCodes(b) = Taken(b, LongFound(b))
  BY DEF LongCodes, LongFound
<1>3. \A i \in 1..l + 1 : LongFound(b)[i] =
              IF l < i + 3 \/ LengthAt(b, i) = 0 \/ LengthAt(b, i) > l - i - 3 THEN Stops(i)
              ELSE Goes(Code(4) \o SubSeq(b, i + 4, i + 3 + LengthAt(b, i)), i + 4 + LengthAt(b, i))
  BY DEF LongFound, LengthAt
<1>4. \A i \in 1..l + 1 : LongFound(b)[i].more => LongFound(b)[i].next \in i..l + 1
  <2> TAKE i \in 1..l + 1
  <2> HAVE LongFound(b)[i].more
  <2> DEFINE n == LengthAt(b, i)
             F == LongFound(b)[i]
             o == Code(4) \o SubSeq(b, i + 4, i + 3 + n)
  <2>1. F = IF l < i + 3 \/ n = 0 \/ n > l - i - 3 THEN Stops(i) ELSE Goes(o, i + 4 + n)
    BY <1>3
  <2>2. F.more
    OBVIOUS
  <2> HIDE DEF n, F, o
  <2>3. ~(l < i + 3 \/ n = 0 \/ n > l - i - 3)
    BY ONLY <2>1, <2>2 DEF Stops
  <2>4. F.next = i + 4 + n
    BY ONLY <2>1, <2>3 DEF Goes
  <2>5. b[i] \in Nat /\ b[i + 1] \in Nat /\ b[i + 2] \in Nat /\ b[i + 3] \in Nat
    <3>1. i \in 1..l /\ i + 1 \in 1..l /\ i + 2 \in 1..l /\ i + 3 \in 1..l
      BY <1>1, <2>3
    <3> QED
      BY <3>1
  <2>6. n \in Nat
    <3> DEFINE b1 == b[i]
               b2 == b[i + 1]
               b3 == b[i + 2]
               b4 == b[i + 3]
    <3>1. n = 256 * (256 * (256 * b1 + b2) + b3) + b4
      BY ONLY DEF n, LengthAt
    <3>2. b1 \in Nat /\ b2 \in Nat /\ b3 \in Nat /\ b4 \in Nat
      BY ONLY <2>5
    <3> HIDE DEF b1, b2, b3, b4
    <3> QED
      BY ONLY <3>1, <3>2
  <2>7. i + 4 + n \in i..l + 1
    BY ONLY <1>1, <2>3, <2>6, i \in 1..l + 1
  <2> QED
    BY ONLY <2>4, <2>7 DEF F
<1> QED
  BY <1>1, <1>2, <1>3, <1>4 DEF Forward

\* Some bytes are there.
Has(b, at, bytes) ==
  /\ at + Len(bytes) <= Len(b)
  /\ \A x \in 1..Len(bytes) : b[at + x] = bytes[x]

\* Behind a length that fits, it finds the unit.
LongFits(b, at, v, bytes) == LongFound(b)[at + 1] = Goes(Code(4) \o v, at + Len(bytes) + 1)

\* It does, as it was written there.
LEMMA LongAt ==
  ASSUME NEW b \in Seq(Nat), NEW at \in Nat, NEW v \in Seq(Nat), v # <<>>,
         NEW bytes, bytes = Big(Len(v)) \o v, Has(b, at, bytes)
  PROVE  LongFits(b, at, v, bytes)
<1> DEFINE l == Len(v)
           h == Big(l)
           i == at + 1
           L == Len(b)
           z == Len(bytes)
<1>1. l \in Nat \ {0} /\ L \in Nat
  BY EmptySeq
<1> HIDE DEF l
<1>2. h \in Seq(Nat) /\ Len(h) = 4 /\ h[1] = 0 /\ h[2] = 0 /\ h[3] = 0 /\ h[4] = l
  <2>1. h = <<0, 0, 0, l>>
    BY ONLY DEF Big
  <2> QED
    BY ONLY <1>1, <2>1
<1> HIDE DEF h
<1>3. /\ h \o v \in Seq(Nat) /\ Len(h \o v) = Len(h) + Len(v)
      /\ \A x \in 1..Len(h) : (h \o v)[x] = h[x]
      /\ \A x \in 1..Len(v) : (h \o v)[Len(h) + x] = v[x]
  <2>1. h \in Seq(Nat) /\ v \in Seq(Nat)
    BY ONLY <1>2, v \in Seq(Nat)
  <2> QED
    BY ONLY <2>1, JoinIs
<1>4. bytes = h \o v
  BY DEF h, l
<1>5. z = 4 + l /\ bytes[1] = 0 /\ bytes[2] = 0 /\ bytes[3] = 0 /\ bytes[4] = l /\ \A x \in 1..l : bytes[4 + x] = v[x]
  <2>1. 1 \in 1..4 /\ 2 \in 1..4 /\ 3 \in 1..4 /\ 4 \in 1..4
    OBVIOUS
  <2> QED
    BY ONLY <1>2, <1>3, <1>4, <2>1 DEF l
<1>6. at + z <= L /\ \A x \in 1..z : b[at + x] = bytes[x]
  BY DEF Has
<1> HIDE DEF L, z, i
<1>7. b[i] = 0 /\ b[i + 1] = 0 /\ b[i + 2] = 0 /\ b[i + 3] = l
  <2>1. 1 \in 1..z /\ 2 \in 1..z /\ 3 \in 1..z /\ 4 \in 1..z
    BY ONLY <1>1, <1>5
  <2>2. i = at + 1 /\ i + 1 = at + 2 /\ i + 2 = at + 3 /\ i + 3 = at + 4
    BY DEF i
  <2>3. b[at + 1] = 0 /\ b[at + 2] = 0 /\ b[at + 3] = 0 /\ b[at + 4] = l
    BY ONLY <1>5, <1>6, <2>1
  <2> QED
    BY ONLY <2>2, <2>3
<1>8. LengthAt(b, i) = l
  BY ONLY <1>1, <1>7 DEF LengthAt
<1>9. i \in 1..L + 1 /\ ~(L < i + 3) /\ l # 0 /\ ~(l > L - i - 3)
  <2>1. i = at + 1 /\ at \in Nat
    BY DEF i
  <2> QED
    BY ONLY <1>1, <1>5, <1>6, <2>1
<1>10. LongFound(b)[i] = Goes(Code(4) \o SubSeq(b, i + 4, i + 3 + l), i + 4 + l)
  <2>1. \A x \in 1..Len(b) + 1 : LongFound(b)[x] =
              IF Len(b) < x + 3 \/ LengthAt(b, x) = 0 \/ LengthAt(b, x) > Len(b) - x - 3 THEN Stops(x)
              ELSE Goes(Code(4) \o SubSeq(b, x + 4, x + 3 + LengthAt(b, x)), x + 4 + LengthAt(b, x))
    BY LongForward
  <2> QED
    BY ONLY <1>8, <1>9, <2>1 DEF L
<1> DEFINE a == at + 4
           g == a + l
           r == SubSeq(b, a + 1, g)
<1>11. a \in Nat /\ g \in a..L /\ g - a = l /\ a + 1 = i + 4 /\ g = i + 3 + l /\ i + 4 + l = at + z + 1
  <2>1. i = at + 1 /\ at \in Nat
    BY DEF i
  <2> QED
    BY ONLY <1>1, <1>5, <1>6, <2>1
<1>12. \A x \in 1..l : b[a + x] = v[x]
  <2> TAKE x \in 1..l
  <2> DEFINE y == 4 + x
  <2>1. y \in 1..z /\ at + y = a + x
    BY ONLY <1>1, <1>5, at \in Nat, x \in 1..l
  <2>2. bytes[y] = v[x]
    BY ONLY <1>5, x \in 1..l
  <2> HIDE DEF y, a
  <2>3. b[at + y] = bytes[y]
    BY ONLY <1>6, <2>1
  <2> QED
    BY ONLY <2>1, <2>2, <2>3
<1> HIDE DEF a, g
<1>13. r \in Seq(Nat) /\ Len(r) = g - a /\ \A x \in 1..g - a : r[x] = b[a + x]
  BY ONLY <1>11, WindowOf, b \in Seq(Nat) DEF L
<1> HIDE DEF r
<1>14. r = v
  <2>1. Len(r) = l /\ Len(v) = l /\ \A x \in 1..l : r[x] = v[x]
    BY ONLY <1>11, <1>12, <1>13 DEF l
  <2> QED
    BY ONLY <1>13, <2>1, SeqEqual, v \in Seq(Nat)
<1>15. SubSeq(b, i + 4, i + 3 + l) = v
  BY ONLY <1>11, <1>14 DEF r
<1> QED
  BY ONLY <1>10, <1>11, <1>15 DEF i, z, LongFits

\* Units with long start codes in front.
Coded4(u, N) == FlattenSeq([y \in 1..N |-> Code(4) \o u[y]])

\* Of units with their lengths, avcc_to_annex_b makes units with start codes.
LEMMA SizedToCodes ==
  ASSUME NEW N \in Nat \ {0}, NEW u \in [1..N -> Seq(Nat)], \A y \in 1..N : u[y] # <<>>
  PROVE  AvccToAnnexB(Sized(u, N)) = Coded4(u, N)
<1> DEFINE ss == [y \in 1..N |-> Big(Len(u[y])) \o u[y]]
           tt == [y \in 1..N |-> Code(4) \o u[y]]
           b == Sized(u, N)
           found == LongFound(b)
           p == [k \in 0..N |-> Len(Flat(ss, k)) + 1]
           out == [k \in 0..N |-> Rest(tt, k, N)]
<1>1. \A y \in 1..N : u[y] \in Seq(Nat) /\ Len(u[y]) \in Nat \ {0}
  <2> TAKE y \in 1..N
  <2> DEFINE v == u[y]
  <2>1. v \in Seq(Nat) /\ v # <<>>
    OBVIOUS
  <2> HIDE DEF v
  <2>2. Len(v) \in Nat \ {0}
    BY ONLY <2>1, EmptySeq
  <2> QED
    BY <2>1, <2>2 DEF v
<1>2. \A y \in 1..N : /\ Big(Len(u[y])) \o u[y] \in Seq(Nat) /\ Len(Big(Len(u[y])) \o u[y]) = 4 + Len(u[y])
                      /\ Code(4) \o u[y] \in Seq(Nat) /\ Len(Code(4) \o u[y]) = 4 + Len(u[y])
  <2> TAKE y \in 1..N
  <2> DEFINE v == u[y]
             l == Len(v)
             h == Big(l)
             c == Code(4)
  <2>1. v \in Seq(Nat) /\ l \in Nat
    BY <1>1
  <2> HIDE DEF v, l
  <2>2. h \in Seq(Nat) /\ Len(h) = 4
    <3>1. h = <<0, 0, 0, l>>
      BY ONLY DEF Big
    <3> QED
      BY ONLY <3>1, <2>1
  <2>3. c \in Seq(Nat) /\ Len(c) = 4
    <3>1. c = <<0, 0, 0, 1>>
      BY ONLY DEF Code
    <3>2. <<0, 0, 0, 1>> \in Seq(Nat) /\ Len(<<0, 0, 0, 1>>) = 4
      BY ONLY TRUE
    <3> HIDE DEF c
    <3> QED
      BY ONLY <3>1, <3>2
  <2> HIDE DEF h, c
  <2>4. h \o v \in Seq(Nat) /\ Len(h \o v) = Len(h) + Len(v)
    BY ONLY <2>1, <2>2, JoinIs
  <2>5. c \o v \in Seq(Nat) /\ Len(c \o v) = Len(c) + Len(v)
    BY ONLY <2>1, <2>3, JoinIs
  <2> QED
    BY ONLY <2>2, <2>3, <2>4, <2>5 DEF h, c, l, v
<1>3. /\ ss \in Seq(Seq(Nat)) /\ Len(ss) = N /\ \A y \in 1..N : ss[y] = Big(Len(u[y])) \o u[y] /\ Len(ss[y]) > 0 /\ Len(ss[y]) \in Nat
      /\ tt \in Seq(Seq(Nat)) /\ Len(tt) = N /\ \A y \in 1..N : tt[y] = Code(4) \o u[y] /\ Len(tt[y]) > 0 /\ Len(tt[y]) \in Nat
  <2> DEFINE T == Seq(Nat)
             F(y) == Big(Len(u[y])) \o u[y]
             G(y) == Code(4) \o u[y]
  <2>1. \A y \in 1..N : F(y) \in T /\ G(y) \in T /\ Len(F(y)) > 0 /\ Len(G(y)) > 0 /\ Len(F(y)) \in Nat /\ Len(G(y)) \in Nat
    <3>1. \A y \in 1..N : F(y) \in T /\ G(y) \in T /\ Len(F(y)) = 4 + Len(u[y]) /\ Len(G(y)) = 4 + Len(u[y]) /\ Len(u[y]) \in Nat
      BY ONLY <1>1, <1>2
    <3> HIDE DEF T, F, G
    <3> TAKE y \in 1..N
    <3> DEFINE f == Len(F(y))
               g == Len(G(y))
               l == Len(u[y])
    <3>2. F(y) \in T /\ G(y) \in T /\ f = 4 + l /\ g = 4 + l /\ l \in Nat
      BY ONLY <3>1, y \in 1..N
    <3> HIDE DEF f, g, l
    <3>3. f > 0 /\ g > 0 /\ f \in Nat /\ g \in Nat
      BY ONLY <3>2
    <3> QED
      BY ONLY <3>2, <3>3 DEF f, g
  <2> HIDE DEF T, F, G
  <2>2. /\ [y \in 1..N |-> F(y)] \in Seq(T) /\ Len([y \in 1..N |-> F(y)]) = N
        /\ [y \in 1..N |-> G(y)] \in Seq(T) /\ Len([y \in 1..N |-> G(y)]) = N
    BY ONLY <2>1, N \in Nat \ {0}
  <2>3. ss = [y \in 1..N |-> F(y)] /\ tt = [y \in 1..N |-> G(y)]
    BY ONLY DEF F, G
  <2> HIDE DEF ss, tt
  <2>4. \A y \in 1..N : ss[y] = F(y) /\ tt[y] = G(y)
    BY ONLY <2>3
  <2> QED
    BY ONLY <2>1, <2>2, <2>3, <2>4 DEF T, F, G
<1>4. b = FlattenSeq(ss) /\ Coded4(u, N) = FlattenSeq(tt)
  BY ONLY DEF Sized, Coded4
<1> HIDE DEF ss, tt, b
<1>5. /\ Flat(ss, 0) = <<>>
      /\ \A k \in 0..N - 1 : Flat(ss, k + 1) = Flat(ss, k) \o ss[k + 1]
      /\ \A k \in 0..N : Flat(ss, k) \in Seq(Nat)
      /\ b = Flat(ss, N)
  BY ONLY <1>3, <1>4, FlatSteps
<1>6. /\ \A k \in 0..N : Len(Flat(ss, k)) \in Nat
      /\ \A k \in 1..N : Len(Flat(ss, k)) = Len(Flat(ss, k - 1)) + Len(ss[k])
      /\ \A j, k \in 0..N : j <= k => Len(Flat(ss, j)) <= Len(Flat(ss, k))
      /\ \A k \in 1..N : \A x \in 1..Len(ss[k]) : b[Len(Flat(ss, k - 1)) + x] = ss[k][x]
  <2>1. \A j, k \in 0..Len(ss) : j <= k =>
              /\ Len(Flat(ss, j)) <= Len(Flat(ss, k))
              /\ \A x \in 1..Len(Flat(ss, j)) : Flat(ss, k)[x] = Flat(ss, j)[x]
    BY ONLY <1>3, FlatHolds
  <2>2. /\ \A k \in 0..Len(ss) : Len(Flat(ss, k)) \in Nat
        /\ \A k \in 1..Len(ss) : Len(Flat(ss, k)) = Len(Flat(ss, k - 1)) + Len(ss[k])
        /\ \A k \in 1..Len(ss) : \A x \in 1..Len(ss[k]) : FlattenSeq(ss)[Len(Flat(ss, k - 1)) + x] = ss[k][x]
    BY ONLY <1>3, FlatHolds
  <2> QED
    BY ONLY <1>3, <1>4, <2>1, <2>2
<1>7. b \in Seq(Nat) /\ N \in 0..N /\ 0 \in 0..N /\ Len(b) = Len(Flat(ss, N)) /\ Len(Flat(ss, 0)) = 0
  <2>1. N \in 0..N /\ 0 \in 0..N
    OBVIOUS
  <2> QED
    BY ONLY <1>5, <2>1, EmptySeq
<1>8. /\ Forward(b, found) /\ LongCodes(b) = Taken(b, found)
  BY ONLY <1>7, LongForward
<1>9. found[Len(b) + 1] = Stops(Len(b) + 1)
  <2>1. \A i \in 1..Len(b) + 1 : LongFound(b)[i] =
              IF Len(b) < i + 3 \/ LengthAt(b, i) = 0 \/ LengthAt(b, i) > Len(b) - i - 3 THEN Stops(i)
              ELSE Goes(Code(4) \o SubSeq(b, i + 4, i + 3 + LengthAt(b, i)), i + 4 + LengthAt(b, i))
    BY ONLY <1>7, LongForward
  <2>2. Len(b) \in Nat
    BY ONLY <1>7
  <2>3. Len(b) + 1 \in 1..Len(b) + 1 /\ Len(b) < Len(b) + 1 + 3
    BY ONLY <2>2
  <2> QED
    BY ONLY <2>1, <2>3
<1>10. ASSUME NEW k \in 0..N - 1
       PROVE  found[p[k]] = Goes(tt[k + 1], p[k + 1]) /\ p[k + 1] # p[k] /\ k \in 0..N /\ k + 1 \in 0..N
  <2> DEFINE at == Len(Flat(ss, k))
             v == u[k + 1]
             bytes == ss[k + 1]
             z == Len(bytes)
             L == Len(b)
  <2>1. k + 1 \in 1..N /\ k \in 0..N /\ k + 1 \in 0..N /\ (k + 1) - 1 = k /\ k + 1 <= N
    BY ONLY <1>10, N \in Nat \ {0}
  <2>2. at \in Nat /\ v \in Seq(Nat) /\ v # <<>> /\ bytes = Big(Len(v)) \o v /\ z \in Nat /\ z > 0 /\ tt[k + 1] = Code(4) \o v
    <3>1. v \in Seq(Nat) /\ v # <<>>
      BY <2>1
    <3> QED
      BY ONLY <1>3, <1>6, <2>1, <3>1
  <2>3. Len(Flat(ss, k + 1)) = at + z /\ at + z <= L
    <3> DEFINE K == k + 1
    <3>1. K \in 1..N /\ K - 1 = k /\ K <= N /\ K \in 0..N /\ N \in 0..N
      BY ONLY <1>7, <2>1
    <3> HIDE DEF K
    <3>2. Len(Flat(ss, K)) = Len(Flat(ss, K - 1)) + Len(ss[K]) /\ Len(Flat(ss, K)) <= Len(b)
      BY ONLY <1>6, <1>7, <3>1
    <3>3. Len(Flat(ss, K)) = at + Len(ss[K]) /\ Len(Flat(ss, K)) <= Len(b)
      BY ONLY <3>1, <3>2
    <3>4. Len(Flat(ss, k + 1)) = at + z /\ Len(Flat(ss, k + 1)) <= Len(b)
      BY ONLY <3>3 DEF K
    <3> QED
      BY ONLY <3>4
  <2>4. \A x \in 1..z : b[at + x] = bytes[x]
    <3> DEFINE K == k + 1
    <3>1. K \in 1..N /\ K - 1 = k
      BY ONLY <2>1
    <3> HIDE DEF K
    <3>2. \A x \in 1..Len(ss[K]) : b[Len(Flat(ss, K - 1)) + x] = ss[K][x]
      BY ONLY <1>6, <3>1
    <3>3. \A x \in 1..Len(ss[K]) : b[Len(Flat(ss, k)) + x] = ss[K][x]
      BY ONLY <3>1, <3>2
    <3> QED
      BY ONLY <3>3 DEF K
  <2>5. p[k] = at + 1 /\ p[k + 1] = at + z + 1
    BY ONLY <2>1, <2>3
  <2> HIDE DEF at, v, bytes, z, L, p
  <2>9. Has(b, at, bytes)
    BY ONLY <2>3, <2>4 DEF Has, z, L
  <2>6. LongFound(b)[at + 1] = Goes(Code(4) \o v, at + Len(bytes) + 1)
    <3>1. LongFits(b, at, v, bytes)
      BY ONLY <1>7, <2>2, <2>9, LongAt
    <3> QED
      BY ONLY <3>1 DEF LongFits
  <2>7. found[p[k]] = Goes(tt[k + 1], p[k + 1])
    BY ONLY <2>2, <2>5, <2>6 DEF z
  <2>8. p[k + 1] # p[k]
    BY ONLY <2>2, <2>5
  <2> QED
    BY ONLY <2>1, <2>7, <2>8
<1>11. p \in [0..N -> 1..Len(b) + 1] /\ p[0] = 1 /\ p[N] = Len(b) + 1
  <2>1. \A k \in 0..N : Len(Flat(ss, k)) + 1 \in 1..Len(b) + 1
    <3> TAKE k \in 0..N
    <3> DEFINE l == Len(Flat(ss, k))
               L == Len(b)
    <3>1. l \in Nat /\ L \in Nat /\ l <= L
      <4>1. k <= N
        BY ONLY k \in 0..N, N \in Nat \ {0}
      <4> QED
        BY ONLY <1>6, <1>7, <4>1, k \in 0..N
    <3> HIDE DEF l, L
    <3>2. l + 1 \in 1..L + 1
      BY ONLY <3>1
    <3> QED
      BY ONLY <3>2 DEF l, L
  <2> QED
    BY ONLY <1>7, <2>1
<1>12. /\ Rest(tt, N, N) = <<>>
       /\ \A k \in 0..N - 1 : Rest(tt, k, N) = tt[k + 1] \o Rest(tt, k + 1, N)
  <2> DEFINE T == Nat
  <2>1. Len(tt) = N /\ tt \in Seq(Seq(T))
    BY ONLY <1>3
  <2> HIDE DEF T
  <2>2. ASSUME NEW k \in 0..N
        PROVE  /\ Rest(tt, N, N) = <<>>
               /\ k < N => Rest(tt, k, N) = tt[k + 1] \o Rest(tt, k + 1, N)
    <3>1. k \in 0..Len(tt) /\ N \in k..Len(tt) /\ N \in 0..Len(tt) /\ N \in N..Len(tt)
      BY ONLY <2>1, k \in 0..N, N \in Nat \ {0}
    <3>2. Rest(tt, N, N) = <<>>
      BY ONLY <2>1, <3>1, RestGoesOn
    <3>3. ASSUME k < N PROVE Rest(tt, k, N) = tt[k + 1] \o Rest(tt, k + 1, N)
      BY ONLY <2>1, <3>1, <3>3, RestGoesOn
    <3> QED
      BY ONLY <3>2, <3>3
  <2>3. \A k \in 0..N - 1 : k \in 0..N /\ k < N
    BY ONLY N \in Nat \ {0}
  <2> QED
    BY ONLY <1>7, <2>2, <2>3
<1>13. Rest(tt, 0, N) = FlattenSeq(tt) /\ FlattenSeq(tt) # <<>>
  <2>1. Run(tt, 0, N) = Rest(tt, 0, N)
    <3>1. 0 \in 0..Len(tt) /\ N \in 0..Len(tt)
      BY ONLY <1>3, N \in Nat \ {0}
    <3> QED
      BY ONLY <1>3, <3>1, RunIs
  <2>2. [x \in 1..N - 0 |-> tt[0 + x]] = tt
    <3>1. N - 0 = N /\ \A x \in 1..N : 0 + x = x
      BY ONLY N \in Nat \ {0}
    <3>2. tt = [x \in 1..N |-> tt[x]]
      BY ONLY DEF tt
    <3> QED
      BY ONLY <3>1, <3>2
  <2>3. Rest(tt, 0, N) = FlattenSeq(tt)
    BY ONLY <2>1, <2>2 DEF Run
  <2>4. FlattenSeq(tt) # <<>>
    <3>1. /\ \A k \in 0..N : Len(Flat(tt, k)) \in Nat
          /\ \A k \in 1..N : Len(Flat(tt, k)) = Len(Flat(tt, k - 1)) + Len(tt[k])
      BY ONLY <1>3, FlatHolds
    <3>2. FlattenSeq(tt) = Flat(tt, N)
      BY ONLY <1>3, FlatSteps
    <3> DEFINE x == Len(Flat(tt, N))
               y == Len(Flat(tt, N - 1))
               w == Len(tt[N])
    <3>3. x \in Nat /\ y \in Nat /\ w \in Nat /\ w > 0 /\ x = y + w
      <4>1. N \in 0..N /\ N \in 1..N /\ N - 1 \in 0..N
        BY ONLY N \in Nat \ {0}
      <4> QED
        BY ONLY <1>3, <3>1, <4>1
    <3> HIDE DEF x, y, w
    <3>4. x # 0
      BY ONLY <3>3
    <3> QED
      BY ONLY <3>2, <3>4, EmptySeq DEF x
  <2> QED
    BY ONLY <2>3, <2>4
<1> HIDE DEF found, p
<1>14. Along(b, found, N, p, out)
  <2>1. N \in Nat
    OBVIOUS
  <2>2. ASSUME NEW k \in 0..N - 1
        PROVE  /\ found[p[k]].more /\ found[p[k]].next = p[k + 1] /\ p[k + 1] # p[k]
               /\ out[k] = found[p[k]].out \o out[k + 1]
    <3>1. out[k] = Rest(tt, k, N) /\ out[k + 1] = Rest(tt, k + 1, N)
      BY ONLY <1>10, <2>2
    <3>3. found[p[k]] = Goes(tt[k + 1], p[k + 1]) /\ p[k + 1] # p[k]
      BY ONLY <1>10, <2>2
    <3> DEFINE F == found[p[k]]
    <3>4. F = [out |-> tt[k + 1], next |-> p[k + 1], more |-> TRUE]
      BY ONLY <3>3 DEF Goes
    <3> HIDE DEF F
    <3>5. F.more /\ F.next = p[k + 1] /\ F.out = tt[k + 1]
      BY ONLY <3>4
    <3>2. found[p[k]].more /\ found[p[k]].next = p[k + 1] /\ found[p[k]].out = tt[k + 1] /\ p[k + 1] # p[k]
      BY ONLY <3>3, <3>5 DEF F
    <3> QED
      BY ONLY <1>12, <2>2, <3>1, <3>2
  <2>3. found[p[N]].more = FALSE
    BY ONLY <1>9, <1>11 DEF Stops
  <2>4. out[N] = <<>>
    BY ONLY <1>7, <1>12
  <2> HIDE DEF out
  <2> QED
    BY ONLY <2>1, <1>11, <2>2, <2>3, <2>4 DEF Along
<1>15. out[0] = FlattenSeq(tt)
  BY ONLY <1>7, <1>13
<1> HIDE DEF out
<1>16. Taken(b, found) = [rest |-> From(b, found[p[N]].next), out |-> out[0], hung |-> FALSE]
  BY ONLY <1>8, <1>14, TakenAlong
<1>17. From(b, found[p[N]].next) = <<>>
  <2>1. found[p[N]].next = Len(b) + 1
    BY ONLY <1>9, <1>11 DEF Stops
  <2>2. Len(b) + 1 \in Nat \ {0} /\ Len(b) + 1 > Len(b)
    BY ONLY <1>7
  <2> QED
    BY ONLY <1>7, <2>1, <2>2, FromIs
<1> QED
  BY ONLY <1>4, <1>8, <1>13, <1>15, <1>16, <1>17 DEF AvccToAnnexB, b

\* The units of an access unit.
UnitsIn(s, i, m) == [y \in 1..m - i |-> s.parts[i - 1 + y].unit]

\* What is meant, with lengths and with start codes, is made of them.
LEMMA UnitsInAre ==
  ASSUME NEW s \in Streams, s.format \in H26x, NEW i, NEW m, IsAccess(s, i, m)
  PROVE  /\ m - i \in Nat \ {0} /\ UnitsIn(s, i, m) \in [1..m - i -> Seq(Nat)]
         /\ \A y \in 1..m - i : UnitsIn(s, i, m)[y] # <<>>
         /\ Written(s, i, Sizes(s)) = Sized(UnitsIn(s, i, m), m - i)
         /\ Written(s, i, Long(s)) = Coded4(UnitsIn(s, i, m), m - i)
<1> DEFINE n == Len(s.parts)
           N == m - i
           u == UnitsIn(s, i, m)
<1>1. n \in Nat /\ DOMAIN s.parts = 1..n /\ \A x \in 1..n : s.parts[x].unit \in Units /\ Len(s.parts[x].unit) \in Nat \ {0}
  BY NalGrows DEF Grows
<1>2. i \in 1..n /\ m \in 1..n /\ i < m
  BY DEF IsAccess
<1> HIDE DEF n
<1>3. N \in Nat \ {0} /\ \A y \in 1..N : i - 1 + y \in 1..n /\ i + y - 1 \in 1..n /\ i - 1 + y = i + y - 1
  BY ONLY <1>1, <1>2
<1>4. \A y \in 1..N : u[y] = s.parts[i - 1 + y].unit
  BY ONLY DEF UnitsIn
<1> HIDE DEF N
<1>5. \A y \in 1..N : u[y] \in Seq(Nat) /\ u[y] # <<>>
  <2> TAKE y \in 1..N
  <2> DEFINE v == s.parts[i - 1 + y].unit
  <2>1. v \in Units /\ u[y] = v
    BY ONLY <1>1, <1>3, <1>4
  <2> HIDE DEF v
  <2>2. v \in Seq(Nat) /\ v # <<>>
    BY ONLY <2>1 DEF Units
  <2> QED
    BY ONLY <2>1, <2>2
<1>6. u \in [1..N -> Seq(Nat)]
  <2>1. u = [y \in 1..N |-> u[y]]
    BY ONLY DEF UnitsIn, N
  <2> HIDE DEF u
  <2> QED
    BY ONLY <1>5, <2>1
<1>8. Written(s, i, Sizes(s)) = Sized(u, N)
  <2>1. \A x \in 1..n : Big(Len(s.parts[x].unit)) \in Seq(Nat)
    <3> TAKE x \in 1..n
    <3> DEFINE l == Len(s.parts[x].unit)
    <3>1. l \in Nat
      BY <1>1
    <3> HIDE DEF l
    <3>2. <<0, 0, 0, l>> \in Seq(Nat)
      BY <3>1
    <3> QED
      BY ONLY <3>2 DEF Big, l
  <2>2. Sizes(s) = [x \in 1..n |-> Big(Len(s.parts[x].unit))]
    BY ONLY <1>1 DEF Sizes
  <2>3. Sizes(s) \in [1..n -> Seq(Nat)] /\ \A x \in 1..n : Sizes(s)[x] = Big(Len(s.parts[x].unit))
    BY ONLY <2>1, <2>2
  <2>4. Written(s, i, Sizes(s)) = FlattenSeq([x \in 1..m - i |-> Sizes(s)[i + x - 1] \o s.parts[i + x - 1].unit])
    <3>1. Sizes(s) \in [1..Len(s.parts) -> Seq(Nat)]
      BY ONLY <2>3 DEF n
    <3> QED
      BY <3>1, WrittenIs
  <2>5. \A y \in 1..N : Sizes(s)[i + y - 1] \o s.parts[i + y - 1].unit = Big(Len(u[y])) \o u[y]
    BY ONLY <1>3, <1>4, <2>3
  <2>6. [x \in 1..N |-> Sizes(s)[i + x - 1] \o s.parts[i + x - 1].unit] = [y \in 1..N |-> Big(Len(u[y])) \o u[y]]
    BY ONLY <2>5
  <2> QED
    BY ONLY <2>4, <2>6 DEF Sized, N
<1>9. Written(s, i, Long(s)) = Coded4(u, N)
  <2>1. Code(4) \in Seq(Nat)
    <3>1. <<0, 0, 0, 1>> \in Seq(Nat)
      OBVIOUS
    <3> QED
      BY ONLY <3>1 DEF Code
  <2>2. Long(s) = [x \in 1..n |-> Code(4)]
    BY ONLY <1>1 DEF Long
  <2>3. Long(s) \in [1..n -> Seq(Nat)] /\ \A x \in 1..n : Long(s)[x] = Code(4)
    BY ONLY <2>1, <2>2
  <2>4. Written(s, i, Long(s)) = FlattenSeq([x \in 1..m - i |-> Long(s)[i + x - 1] \o s.parts[i + x - 1].unit])
    <3>1. Long(s) \in [1..Len(s.parts) -> Seq(Nat)]
      BY ONLY <2>3 DEF n
    <3> QED
      BY <3>1, WrittenIs
  <2>5. \A y \in 1..N : Long(s)[i + y - 1] \o s.parts[i + y - 1].unit = Code(4) \o u[y]
    BY ONLY <1>3, <1>4, <2>3
  <2>6. [x \in 1..N |-> Long(s)[i + x - 1] \o s.parts[i + x - 1].unit] = [y \in 1..N |-> Code(4) \o u[y]]
    BY ONLY <2>5
  <2> QED
    BY ONLY <2>4, <2>6 DEF Coded4, N
<1> QED
  BY ONLY <1>3, <1>5, <1>6, <1>8, <1>9 DEF N

\* media_video_payload gives a media track what is meant for it of an H.264 picture.
LEMMA MediaOfH264 ==
  ASSUME NEW s \in Streams, s.format \in H26x, NEW i, NEW m, IsAccess(s, i, m)
  PROVE  AvccToAnnexB(Written(s, i, Sizes(s))) = Written(s, i, Long(s))
<1> DEFINE N == m - i
           u == UnitsIn(s, i, m)
<1>1. /\ N \in Nat \ {0} /\ u \in [1..N -> Seq(Nat)]
      /\ \A y \in 1..N : u[y] # <<>>
      /\ Written(s, i, Sizes(s)) = Sized(u, N)
      /\ Written(s, i, Long(s)) = Coded4(u, N)
  BY UnitsInAre
<1> HIDE DEF N, u
<1>2. AvccToAnnexB(Sized(u, N)) = Coded4(u, N)
  BY ONLY <1>1, SizedToCodes
<1> QED
  BY ONLY <1>1, <1>2

\* What begins with a start code and a header is not taken for lengths.
LEMMA CodeIsNoLength ==
  ASSUME NEW b \in Seq(Nat), Len(b) >= 6, Len(b) < 256 * 256 * 256,
         b[1] = 0, b[2] = 0, b[3] = 0, b[4] = 1, b[6] > 0
  PROVE  AvccToAnnexB(b) = b
<1> DEFINE L == Len(b)
           found == LongFound(b)
           p == [k \in 0..1 |-> IF k = 0 THEN 1 ELSE 6]
           out == [k \in 0..1 |-> IF k = 0 THEN found[1].out ELSE <<>>]
<1>1. L \in Nat /\ L >= 6 /\ L < 16777216 /\ 1 \in 1..L + 1 /\ 6 \in 1..L + 1
  OBVIOUS
<1>2. /\ Forward(b, found) /\ LongCodes(b) = Taken(b, found)
      /\ \A i \in 1..L + 1 : found[i] =
              IF L < i + 3 \/ LengthAt(b, i) = 0 \/ LengthAt(b, i) > L - i - 3 THEN Stops(i)
              ELSE Goes(Code(4) \o SubSeq(b, i + 4, i + 3 + LengthAt(b, i)), i + 4 + LengthAt(b, i))
  BY LongForward
<1>3. LengthAt(b, 1) = 1
  <2>1. LengthAt(b, 1) = 256 * (256 * (256 * b[1] + b[2]) + b[3]) + b[4]
    <3>1. 1 + 1 = 2 /\ 1 + 2 = 3 /\ 1 + 3 = 4
      OBVIOUS
    <3>2. LengthAt(b, 1) = 256 * (256 * (256 * b[1] + b[1 + 1]) + b[1 + 2]) + b[1 + 3]
      BY ONLY DEF LengthAt
    <3> QED
      BY ONLY <3>1, <3>2
  <2>2. b[1] = 0 /\ b[2] = 0 /\ b[3] = 0 /\ b[4] = 1
    OBVIOUS
  <2>3. 256 * (256 * (256 * 0 + 0) + 0) + 1 = 1
    OBVIOUS
  <2> QED
    BY ONLY <2>1, <2>2, <2>3
<1>4. L < 9 \/ (LengthAt(b, 6) \in Nat /\ LengthAt(b, 6) >= 16777216)
  <2>1. CASE L < 9
    BY <2>1
  <2>2. CASE ~(L < 9)
    <3> DEFINE b1 == b[6]
               b2 == b[7]
               b3 == b[8]
               b4 == b[9]
    <3>1. b1 \in Nat /\ b2 \in Nat /\ b3 \in Nat /\ b4 \in Nat /\ b1 > 0
      <4>1. 6 \in 1..L /\ 7 \in 1..L /\ 8 \in 1..L /\ 9 \in 1..L
        BY ONLY <1>1, <2>2
      <4> QED
        BY ONLY <4>1, b \in Seq(Nat), b[6] > 0 DEF L
    <3>2. LengthAt(b, 6) = 256 * (256 * (256 * b1 + b2) + b3) + b4
      BY DEF LengthAt
    <3> HIDE DEF b1, b2, b3, b4
    <3>3. 256 * (256 * (256 * b1 + b2) + b3) + b4 >= 16777216 /\ 256 * (256 * (256 * b1 + b2) + b3) + b4 \in Nat
      BY ONLY <3>1
    <3> QED
      BY ONLY <3>2, <3>3
  <2> QED
    BY <2>1, <2>2
<1> HIDE DEF L, found
<1>5. found[1].more /\ found[1].next = 6
  <2> DEFINE o == Code(4) \o SubSeq(b, 1 + 4, 1 + 3 + LengthAt(b, 1))
  <2>1. found[1] = Goes(o, 1 + 4 + LengthAt(b, 1))
    BY ONLY <1>1, <1>2, <1>3
  <2> HIDE DEF o
  <2>2. found[1] = Goes(o, 6)
    BY ONLY <1>3, <2>1
  <2> QED
    BY ONLY <2>2 DEF Goes
<1>6. found[6] = Stops(6)
  <2>1. L < 6 + 3 \/ LengthAt(b, 6) > L - 6 - 3
    <3> DEFINE x == LengthAt(b, 6)
    <3>1. L < 9 \/ (x \in Nat /\ x >= 16777216)
      BY ONLY <1>4
    <3> HIDE DEF x
    <3>2. L < 6 + 3 \/ x > L - 6 - 3
      <4>1. CASE L < 9
        BY ONLY <1>1, <4>1
      <4>2. CASE x \in Nat /\ x >= 16777216
        BY ONLY <1>1, <4>2
      <4> QED
        BY ONLY <3>1, <4>1, <4>2
    <3> QED
      BY ONLY <3>2 DEF x
  <2> QED
    BY ONLY <1>1, <1>2, <2>1
<1>7. Along(b, found, 1, p, out)
  <2>1. p \in [0..1 -> 1..L + 1] /\ p[0] = 1 /\ p[1] = 6
    BY ONLY <1>1
  <2>2. out[0] = found[1].out /\ out[1] = <<>>
    OBVIOUS
  <2>3. found[1].out = found[1].out \o <<>>
    <3>1. found[1].out \in Seq(Nat)
      <4>1. found[1] = Goes(Code(4) \o SubSeq(b, 5, 5), 6)
        <5>1. 1 + 4 = 5 /\ 1 + 3 + 1 = 5 /\ 1 + 4 + 1 = 6 /\ ~(L < 1 + 3 \/ 1 = 0 \/ 1 > L - 1 - 3)
          BY ONLY <1>1
        <5> QED
          BY ONLY <1>1, <1>2, <1>3, <5>1
      <4>2. Code(4) \o SubSeq(b, 5, 5) \in Seq(Nat)
        <5> DEFINE v == SubSeq(b, 5, 5)
        <5>1. v \in Seq(Nat)
          BY <1>1 DEF L
        <5>2. <<0, 0, 0, 1>> \in Seq(Nat)
          OBVIOUS
        <5> HIDE DEF v
        <5>3. <<0, 0, 0, 1>> \o v \in Seq(Nat)
          BY ONLY <5>1, <5>2
        <5> QED
          BY ONLY <5>3 DEF Code, v
      <4> DEFINE o == Code(4) \o SubSeq(b, 5, 5)
      <4> HIDE DEF o
      <4>3. found[1].out = o
        BY ONLY <4>1 DEF Goes, o
      <4> QED
        BY ONLY <4>2, <4>3 DEF o
    <3> DEFINE o == found[1].out
    <3> HIDE DEF o
    <3>2. o \in Seq(Nat)
      BY ONLY <3>1 DEF o
    <3>3. o = o \o <<>>
      BY ONLY <3>2, ConcatEmptySeq
    <3> QED
      BY ONLY <3>3 DEF o
  <2>4. found[6].more = FALSE
    BY ONLY <1>6 DEF Stops
  <2> HIDE DEF p, out
  <2>5. ASSUME NEW k \in 0..1 - 1
        PROVE  /\ found[p[k]].more /\ found[p[k]].next = p[k + 1] /\ p[k + 1] # p[k]
               /\ out[k] = found[p[k]].out \o out[k + 1]
    <3>1. k = 0 /\ k + 1 = 1
      BY ONLY <2>5
    <3>2. found[p[0]].more /\ found[p[0]].next = p[1] /\ p[1] # p[0]
      BY ONLY <1>5, <2>1
    <3>3. out[0] = found[p[0]].out \o out[1]
      BY ONLY <2>1, <2>2, <2>3
    <3>4. \A x, y : x = 0 /\ y = 1 => found[p[x]].more /\ found[p[x]].next = p[y] /\ p[y] # p[x] /\ out[x] = found[p[x]].out \o out[y]
      BY ONLY <3>2, <3>3
    <3> QED
      BY ONLY <3>1, <3>4
  <2> QED
    BY ONLY <2>1, <2>2, <2>4, <2>5 DEF Along, L
<1> HIDE DEF out
<1>8. Taken(b, found) = [rest |-> From(b, found[p[1]].next), out |-> out[0], hung |-> FALSE]
  <2> HIDE DEF p
  <2>1. 1 \in Nat
    OBVIOUS
  <2> QED
    BY ONLY <1>2, <1>7, TakenAlong
<1>9. found[p[1]].next = 6
  BY ONLY <1>6 DEF Stops
<1>10. From(b, 6) # <<>>
  <2>1. Len(From(b, 6)) = L + 1 - 6
    BY ONLY <1>1, FromIs, b \in Seq(Nat) DEF L
  <2>2. L + 1 - 6 # 0
    BY ONLY <1>1
  <2> QED
    BY ONLY <2>1, <2>2, EmptySeq
<1>11. LongCodes(b).rest = From(b, 6)
  <2> DEFINE x == out[0]
             y == From(b, 6)
  <2> HIDE DEF x, y
  <2>1. LongCodes(b) = [rest |-> y, out |-> x, hung |-> FALSE]
    BY ONLY <1>2, <1>8, <1>9 DEF x, y
  <2> QED
    BY ONLY <2>1 DEF y
<1> QED
  BY ONLY <1>10, <1>11 DEF AvccToAnnexB

\* What is meant of the access unit of the i-th delimiter.
Picture(s, i) ==
  LET h264 == s.format = "h264"
  IN  [data  |-> Written(s, i, IF h264 THEN Sizes(s) ELSE Own(s)),
       key   |-> Holds(s, i, Keys(s.format)),
       track |-> Written(s, i, IF h264 THEN Long(s) ELSE Own(s))]

\* The pictures among the first k parts, and all that will be sent.
Shown(s, k) == {i \in Delimiters(s) : i <= k /\ Holds(s, i, Vcls(s.format))}
AllShown(s) == {i \in Delimiters(s) : i # Max(Delimiters(s)) /\ Holds(s, i, Vcls(s.format))}

\* What a stream means is these pictures.
LEMMA MeantPicturesAre ==
  ASSUME NEW s
  PROVE  MeantPictures(s) = [k \in DOMAIN InOrder(AllShown(s)) |-> Picture(s, InOrder(AllShown(s))[k])]
<1> DEFINE shown == InOrder(AllShown(s))
<1>1. shown = InOrder({i \in Delimiters(s) : i # Max(Delimiters(s)) /\ Holds(s, i, Vcls(s.format))})
  BY ONLY DEF AllShown
<1>2. MeantPictures(s) =
        [k \in DOMAIN shown |->
          [data  |-> Written(s, shown[k], IF s.format = "h264" THEN Sizes(s) ELSE Own(s)),
           key   |-> Holds(s, shown[k], Keys(s.format)),
           track |-> Written(s, shown[k], IF s.format = "h264" THEN Long(s) ELSE Own(s))]]
  BY ONLY DEF MeantPictures, AllShown, Sizes, Own, Long
<1> HIDE DEF shown
<1>3. \A k \in DOMAIN shown : Picture(s, shown[k]) =
          [data  |-> Written(s, shown[k], IF s.format = "h264" THEN Sizes(s) ELSE Own(s)),
           key   |-> Holds(s, shown[k], Keys(s.format)),
           track |-> Written(s, shown[k], IF s.format = "h264" THEN Long(s) ELSE Own(s))]
  BY ONLY DEF Picture
<1>4. MeantPictures(s) = [k \in DOMAIN shown |-> Picture(s, shown[k])]
  BY ONLY <1>2, <1>3
<1> QED
  BY ONLY <1>4 DEF shown

\* push makes of an access unit what the viewers are meant to get.
LEMMA SampleIs ==
  ASSUME NEW s \in Streams, s.format \in H26x, NEW i, NEW m, IsAccess(s, i, m)
  PROVE  Sample(s.format, Access(s, i)) = Picture(s, i).data
<1>1. Access(s, i) = Written(s, i, Own(s))
  BY AccessWritten
<1>2. Prefixed(Access(s, i)) = Written(s, i, Sizes(s))
  BY PrefixedIs
<1>3. Picture(s, i).data = Written(s, i, IF s.format = "h264" THEN Sizes(s) ELSE Own(s))
  BY ONLY DEF Picture
<1>4. CASE s.format = "h264"
  BY ONLY <1>2, <1>3, <1>4 DEF Sample
<1>5. CASE s.format # "h264"
  BY ONLY <1>1, <1>3, <1>5 DEF Sample
<1> QED
  BY ONLY <1>4, <1>5

\* An H.265 access unit does not look like a length and its unit.
LEMMA HeadersOf ==
  ASSUME NEW s \in Streams, s.format = "h265", NEW i \in Delimiters(s), NEW m, IsAccess(s, i, m)
  PROVE  LET b == Access(s, i)
         IN  b \in Seq(Nat) /\ Len(b) >= 6 /\ Len(b) < 256 * 256 * 256 /\ b[1] = 0 /\ b[2] = 0 /\ b[3] = 0 /\ b[4] = 1 /\ b[6] > 0
<1> DEFINE n == Len(s.parts)
           W == AllBytes(s)
           e == EndsOf(s)
           c == CodesOf(s)
           b == Access(s, i)
           k == i - 1
           a == Ends(s, k)
           z == Ends(s, m - 1)
           y == Ends(s, i)
           u == s.parts[i].unit
           d == s.parts[i].code
           l == Len(u)
<1>0. s.format \in H26x
  BY DEF H26x
<1>1. Grows(s)
  BY <1>0, NalGrows
<1>2. /\ Laid(W, n, e, c) /\ IsStream(s) /\ s \in [format : H26x, parts : Seq([code : {3, 4}, unit : Units])]
      /\ \A x \in 1..n : \A w \in 1..Len(s.parts[x].unit) : W[Ends(s, x - 1) + s.parts[x].code + w] = s.parts[x].unit[w]
  BY <1>0, NalStream
<1>3. n \in Nat /\ DOMAIN s.parts = 1..n /\ W \in Seq(Nat)
  BY <1>1 DEF Grows
<1>4. /\ i \in 1..n /\ m \in 1..n /\ i < m /\ m \in Delimiters(s) /\ b = Unused(s, k, z) /\ z \in a..Len(W)
      /\ \A x \in Delimiters(s) : x > i => m <= x
  BY DEF IsAccess
<1>5. HasHeaders(s)
  BY StreamsAssumption
<1>6. /\ d = 4 /\ l >= 2 /\ u[2] > 0
      /\ \A j \in i..n : Delimiters(s) \cap (i + 1..j) = {} => Begins(s, j + 1) - Begins(s, i) < 256 * 256 * 256
  BY ONLY <1>5, i \in Delimiters(s) DEF HasHeaders, n
<1> HIDE DEF n, W
<1>7. k \in 0..n /\ i \in 0..n /\ m - 1 \in 0..n /\ k + 1 = i /\ i <= m - 1 /\ m - 1 \in i..n /\ (m - 1) + 1 = m /\ m \in 1..n + 1 /\ i \in 1..n + 1
  BY ONLY <1>3, <1>4
<1>8. /\ a \in Nat /\ z \in Nat /\ y \in Nat /\ y <= z /\ y = a + d + l /\ l \in Nat \ {0}
  BY ONLY <1>1, <1>4, <1>7 DEF Grows, n
<1>9. Begins(s, m) - Begins(s, i) < 16777216
  <2>1. Delimiters(s) \cap (i + 1..m - 1) = {}
    <3>1. ASSUME NEW x \in Delimiters(s), x \in i + 1..m - 1 PROVE FALSE
      <4>1. x > i /\ ~(m <= x)
        BY ONLY <1>3, <1>4, <3>1
      <4> QED
        BY ONLY <1>4, <4>1, <3>1
    <3> QED
      BY ONLY <3>1
  <2>2. Begins(s, (m - 1) + 1) - Begins(s, i) < 256 * 256 * 256
    BY ONLY <1>6, <1>7, <2>1
  <2>3. 256 * 256 * 256 = 16777216
    OBVIOUS
  <2> QED
    BY ONLY <1>7, <2>2, <2>3
<1>10. Begins(s, m) = z + 1 /\ Begins(s, i) = a + 1
  <2> DEFINE T == [code : {3, 4}, unit : Units]
             F == H26x
  <2>1. s \in [format : F, parts : Seq(T)]
    BY ONLY <1>2
  <2> HIDE DEF T, F
  <2>2. m \in 1..Len(s.parts) + 1 /\ i \in 1..Len(s.parts) + 1
    BY ONLY <1>7 DEF n
  <2>3. Begins(s, m) = Ends(s, m - 1) + 1
    BY ONLY <1>2, <2>1, <2>2, BeginsIs
  <2>4. Begins(s, i) = Ends(s, i - 1) + 1
    BY ONLY <1>2, <2>1, <2>2, BeginsIs
  <2> QED
    BY ONLY <2>3, <2>4
<1>11. e[k] = a /\ c[i] = d
  BY ONLY <1>4, <1>7 DEF EndsOf, CodesOf, n
<1>12. W[a + 1] = 0 /\ W[a + 2] = 0 /\ W[a + 3] = 0 /\ W[a + 4] = 1
  <2>1. /\ W[e[i - 1] + 1] = 0 /\ W[e[i - 1] + 2] = 0
        /\ c[i] = 4 => W[e[i - 1] + 3] = 0 /\ W[e[i - 1] + 4] = 1
    BY ONLY <1>2, <1>4 DEF Laid
  <2> HIDE DEF e, c, a, d
  <2> QED
    BY ONLY <1>6, <1>11, <2>1
<1>13. W[a + 6] = u[2]
  <2> HIDE DEF a, d, u
  <2>1. \A w \in 1..Len(u) : W[a + d + w] = u[w]
    BY ONLY <1>2, <1>4 DEF a, d, u
  <2>2. 2 \in 1..l
    BY ONLY <1>6, <1>8
  <2>3. W[a + d + 2] = u[2]
    BY ONLY <2>1, <2>2
  <2>4. a + d + 2 = a + 6
    BY ONLY <1>6, <1>8
  <2> QED
    BY ONLY <2>3, <2>4
<1>14. b = SubSeq(W, a + 1, z)
  BY ONLY <1>4 DEF Unused, W
<1> HIDE DEF b, a, z, y, u, d, l
<1>15. b \in Seq(Nat) /\ Len(b) = z - a /\ \A x \in 1..z - a : b[x] = W[a + x]
  <2> DEFINE r == SubSeq(W, a + 1, z)
  <2>1. r \in Seq(Nat) /\ Len(r) = z - a /\ \A x \in 1..z - a : r[x] = W[a + x]
    <3>1. a \in Nat /\ z \in a..Len(W)
      BY ONLY <1>4, <1>8
    <3> QED
      BY ONLY <1>3, <3>1, WindowOf
  <2> HIDE DEF r
  <2>2. b = r
    BY ONLY <1>14 DEF r
  <2> QED
    BY ONLY <2>1, <2>2
<1>16. z - a >= 6 /\ z - a < 16777216
  BY ONLY <1>6, <1>8, <1>9, <1>10
<1>17. b[1] = W[a + 1] /\ b[2] = W[a + 2] /\ b[3] = W[a + 3] /\ b[4] = W[a + 4] /\ b[6] = W[a + 6]
  <2>1. 1 \in 1..z - a /\ 2 \in 1..z - a /\ 3 \in 1..z - a /\ 4 \in 1..z - a /\ 6 \in 1..z - a
    BY ONLY <1>8, <1>16
  <2> QED
    BY ONLY <1>15, <2>1
<1>18. Len(b) >= 6 /\ Len(b) < 16777216
  BY ONLY <1>15, <1>16
<1>19. 256 * 256 * 256 = 16777216
  OBVIOUS
<1> QED
  BY ONLY <1>6, <1>12, <1>13, <1>15, <1>17, <1>18, <1>19 DEF b

\* And media_video_payload what a media track is meant to get.
LEMMA TrackIs ==
  ASSUME NEW s \in Streams, s.format \in H26x, NEW i \in Delimiters(s), NEW m, IsAccess(s, i, m)
  PROVE  MediaPayload(s.format, Picture(s, i).data) = Picture(s, i).track
<1>1. /\ Picture(s, i).data = Written(s, i, IF s.format = "h264" THEN Sizes(s) ELSE Own(s))
      /\ Picture(s, i).track = Written(s, i, IF s.format = "h264" THEN Long(s) ELSE Own(s))
  BY ONLY DEF Picture
<1>2. MediaPayload(s.format, Picture(s, i).data) = AvccToAnnexB(Picture(s, i).data)
  BY DEF MediaPayload
<1>3. CASE s.format = "h264"
  <2>1. AvccToAnnexB(Written(s, i, Sizes(s))) = Written(s, i, Long(s))
    BY MediaOfH264
  <2> QED
    BY ONLY <1>1, <1>2, <1>3, <2>1
<1>4. CASE s.format # "h264"
  <2>1. s.format = "h265"
    BY <1>4 DEF H26x
  <2>2. Access(s, i) = Written(s, i, Own(s))
    BY AccessWritten
  <2> DEFINE b == Access(s, i)
  <2>3. b \in Seq(Nat) /\ Len(b) >= 6 /\ Len(b) < 256 * 256 * 256 /\ b[1] = 0 /\ b[2] = 0 /\ b[3] = 0 /\ b[4] = 1 /\ b[6] > 0
    BY <2>1, HeadersOf
  <2> HIDE DEF b
  <2>4. AvccToAnnexB(b) = b
    BY ONLY <2>3, CodeIsNoLength
  <2> QED
    BY ONLY <1>1, <1>2, <1>4, <2>2, <2>4 DEF b
<1> QED
  BY ONLY <1>3, <1>4

-----------------------------------------------------------------------------
(* Push by push.                                                           *)

\* One sequence of frames behind another.
Joined(a, b, p, q) ==
  /\ a \o b = FirstOf(a \o b, p + q)
  /\ \A i \in 1..p : (a \o b)[i] = a[i]
  /\ \A i \in 1..q : (a \o b)[p + i] = b[i]

\* They are joined so, whatever frames are.
LEMMA JoinAny ==
  ASSUME NEW p \in Nat, NEW q \in Nat, NEW a, NEW b, a = FirstOf(a, p), b = FirstOf(b, q)
  PROVE  Joined(a, b, p, q)
<1> DEFINE T == {a[i] : i \in 1..p} \cup {b[i] : i \in 1..q}
<1>1. a \in [1..p -> T] /\ b \in [1..q -> T]
  BY DEF FirstOf
<1> HIDE DEF T
<1>2. a \in Seq(T) /\ b \in Seq(T) /\ Len(a) = p /\ Len(b) = q
  BY ONLY <1>1, p \in Nat, q \in Nat
<1>3. /\ a \o b = [i \in 1..Len(a) + Len(b) |-> IF i <= Len(a) THEN a[i] ELSE b[i - Len(a)]]
      /\ \A i \in 1..Len(a) : (a \o b)[i] = a[i]
      /\ \A i \in 1..Len(b) : (a \o b)[Len(a) + i] = b[i]
  <2>1. a \o b = [i \in 1..Len(a) + Len(b) |-> IF i <= Len(a) THEN a[i] ELSE b[i - Len(a)]]
    <3>1. a \in Seq(T) /\ b \in Seq(T)
      BY ONLY <1>2
    <3> QED
      BY ONLY <3>1, JoinIs
  <2>2. \A i \in 1..Len(a) : (a \o b)[i] = a[i]
    BY ONLY <1>2
  <2>3. \A i \in 1..Len(b) : (a \o b)[Len(a) + i] = b[i]
    BY ONLY <1>2
  <2> QED
    BY ONLY <2>1, <2>2, <2>3
<1> DEFINE j == a \o b
<1> HIDE DEF j
<1>4. j = [i \in 1..p + q |-> IF i <= p THEN a[i] ELSE b[i - p]]
  BY ONLY <1>2, <1>3 DEF j
<1>5. j = [i \in 1..p + q |-> j[i]]
  BY ONLY <1>4
<1> QED
  BY ONLY <1>2, <1>3, <1>5 DEF Joined, FirstOf, j

\* All members of one set are before those of the other.
Meets(S, R) == InOrder(S \cup R) = InOrder(S) \o InOrder(R)

\* So it is when the one is up to k and the other above.
LEMMA InOrderMeets ==
  ASSUME NEW n \in Nat, NEW k \in 0..n, NEW S \in SUBSET (1..k), NEW R \in SUBSET (k + 1..n)
  PROVE  /\ InOrder(S) \in Seq(S) /\ InOrder(R) \in Seq(R)
         /\ Meets(S, R)
<1> DEFINE p == [i \in 1..n |-> i - k]
           Z == {p[i] : i \in R}
           c == Cardinality(R)
<1>1. k \in Nat /\ R \in SUBSET (1..n)
  <2>1. \A i \in k + 1..n : i \in 1..n
    OBVIOUS
  <2> QED
    BY <2>1
<1>2. p \in [1..n -> Int] /\ \A i, j \in 1..n : i < j => p[i] < p[j]
  <2>1. \A i \in 1..n : p[i] = i - k /\ p[i] \in Int
    BY <1>1
  <2>2. p \in [1..n -> Int]
    BY <1>1
  <2> HIDE DEF p
  <2> QED
    BY ONLY <1>1, <2>1, <2>2
<1>3. \A i \in 1..n : p[i] = i - k
  OBVIOUS
<1> HIDE DEF p
<1>4. /\ InOrder(R) \in Seq(R) /\ Len(InOrder(R)) = c /\ c \in Nat
      /\ IsFiniteSet(Z) /\ Cardinality(Z) = c
      /\ InOrder(Z) = [x \in 1..c |-> p[InOrder(R)[x]]]
  BY ONLY <1>1, <1>2, ImageIs, n \in Nat
<1>5. Z \in SUBSET (Nat \ {0})
  <2>1. \A i \in R : i - k \in Nat \ {0} /\ p[i] = i - k
    BY ONLY <1>1, <1>3, R \in SUBSET (k + 1..n), n \in Nat
  <2> QED
    BY ONLY <2>1
<1>6. {k + x : x \in Z} = R
  <2>1. \A i \in R : k + p[i] = i
    BY ONLY <1>1, <1>3, n \in Nat
  <2> QED
    BY ONLY <2>1
<1> HIDE DEF Z, c
<1>7. /\ InOrder(S) \in Seq(S)
      /\ InOrder(S \cup {k + x : x \in Z}) = InOrder(S) \o [x \in 1..Cardinality(Z) |-> k + InOrder(Z)[x]]
  BY ONLY <1>1, <1>4, <1>5, InOrderJoins, S \in SUBSET (1..k)
<1> DEFINE r == InOrder(R)
<1>8. r \in Seq(R) /\ Len(r) = c
  BY ONLY <1>4
<1> HIDE DEF r
<1>9. [x \in 1..c |-> k + InOrder(Z)[x]] = r
  <2>1. \A x \in 1..c : r[x] \in R
    BY ONLY <1>8
  <2>2. \A x \in 1..c : k + InOrder(Z)[x] = r[x]
    <3> TAKE x \in 1..c
    <3> DEFINE y == r[x]
    <3>1. y \in 1..n /\ InOrder(Z)[x] = p[y]
      BY ONLY <1>1, <1>4, <2>1 DEF r
    <3> HIDE DEF y
    <3>2. InOrder(Z)[x] = y - k /\ y \in Int
      BY ONLY <1>3, <3>1
    <3>3. k + InOrder(Z)[x] = y
      BY ONLY <1>1, <3>2
    <3> QED
      BY ONLY <3>3 DEF y
  <2>3. r = [x \in 1..c |-> r[x]]
    BY ONLY <1>8
  <2> QED
    BY ONLY <2>2, <2>3
<1> QED
  BY ONLY <1>4, <1>6, <1>7, <1>9 DEF r, Meets

\* Frames that are those pictures.
Are(s, q, o) ==
  /\ o = FirstOf(o, Len(q))
  /\ \A x \in 1..Len(q) : o[x].data = Picture(s, q[x]).data /\ o[x].key = Picture(s, q[x]).key
AllDescribed(o, n, d) == \A x \in 1..n : o[x].description = d

\* Frames behind frames are the pictures behind the pictures.
LEMMA TogetherAre ==
  ASSUME NEW s, NEW q \in Seq(Nat), NEW r \in Seq(Nat), NEW o, NEW t, Are(s, q, o), Are(s, r, t)
  PROVE  /\ Are(s, q \o r, o \o t)
         /\ Len(q \o r) = Len(q) + Len(r)
         /\ \A d : AllDescribed(o, Len(q), d) /\ AllDescribed(t, Len(r), d) => AllDescribed(o \o t, Len(q \o r), d)
<1> DEFINE a == Len(q)
           b == Len(r)
           w == o \o t
           v == q \o r
<1>1. a \in Nat /\ b \in Nat /\ o = FirstOf(o, a) /\ t = FirstOf(t, b)
  BY DEF Are
<1>2. /\ Len(v) = a + b
      /\ \A i \in 1..a : v[i] = q[i]
      /\ \A i \in 1..b : v[a + i] = r[i]
  BY ONLY JoinIs, q \in Seq(Nat), r \in Seq(Nat)
<1>3. /\ \A x \in 1..a : o[x].data = Picture(s, q[x]).data /\ o[x].key = Picture(s, q[x]).key
      /\ \A x \in 1..b : t[x].data = Picture(s, r[x]).data /\ t[x].key = Picture(s, r[x]).key
  BY DEF Are
<1> HIDE DEF a, b
<1>4. /\ w = FirstOf(w, a + b)
      /\ \A i \in 1..a : w[i] = o[i]
      /\ \A i \in 1..b : w[a + i] = t[i]
  <2>1. Joined(o, t, a, b)
    BY ONLY <1>1, JoinAny
  <2> QED
    BY ONLY <2>1 DEF Joined, w
<1> HIDE DEF v, w
<1>5. \A x \in 1..a + b : x \in 1..a \/ \E y \in 1..b : x = a + y
  <2> TAKE x \in 1..a + b
  <2> DEFINE y == x - a
  <2>1. x \in 1..a \/ (y \in 1..b /\ x = a + y)
    BY ONLY <1>1, x \in 1..a + b
  <2> QED
    BY ONLY <2>1
<1>6. \A x \in 1..a + b : w[x].data = Picture(s, v[x]).data /\ w[x].key = Picture(s, v[x]).key
  <2> TAKE x \in 1..a + b
  <2>1. CASE x \in 1..a
    <3>1. w[x] = o[x] /\ v[x] = q[x]
      BY ONLY <1>2, <1>4, <2>1
    <3> QED
      BY ONLY <1>3, <2>1, <3>1
  <2>2. CASE \E y \in 1..b : x = a + y
    <3>1. PICK y \in 1..b : x = a + y
      BY <2>2
    <3>2. w[x] = t[y] /\ v[x] = r[y]
      BY ONLY <1>2, <1>4, <3>1
    <3> QED
      BY ONLY <1>3, <3>1, <3>2
  <2> QED
    BY ONLY <1>5, <2>1, <2>2
<1>7. \A d : AllDescribed(o, a, d) /\ AllDescribed(t, b, d) => AllDescribed(w, a + b, d)
  <2> SUFFICES ASSUME NEW d, AllDescribed(o, a, d), AllDescribed(t, b, d), NEW x \in 1..a + b
               PROVE  w[x].description = d
    BY DEF AllDescribed
  <2>1. CASE x \in 1..a
    BY ONLY <1>4, <2>1, AllDescribed(o, a, d) DEF AllDescribed
  <2>2. CASE \E y \in 1..b : x = a + y
    BY ONLY <1>4, <2>2, AllDescribed(t, b, d) DEF AllDescribed
  <2> QED
    BY ONLY <1>5, <2>1, <2>2
<1> QED
  BY ONLY <1>2, <1>4, <1>6, <1>7 DEF Are, a, b, v, w

\* What push returns is the pictures that it has heard the end of.
LEMMA SampledIs ==
  ASSUME NEW s \in Streams, s.format \in H26x, NEW k \in 0..Len(s.parts), NEW g \in Ends(s, k)..Len(AllBytes(s)),
         NEW b, b = Unused(s, k, g), NEW auds, auds = Typed(s.format, b, Auds(s.format)),
         NEW q, q = InOrder(Shows(s, k, g))
  PROVE  /\ Are(s, q, Sampled(s.format, b, auds))
         /\ AllDescribed(Sampled(s.format, b, auds), Len(q), Described(s.format))
         /\ Len(q) \in Nat /\ q \in Seq(Shows(s, k, g))
<1> DEFINE f == s.format
           A == Heard(s, k, g)
           P == Shows(s, k, g)
           N == Len(q)
           o == Sampled(f, b, auds)
           p == BeginsAt(s, k)
           c == Pictures(f, b, auds)
           d == Described(f)
<1>1. IsPictured(s, k, g)
  BY PicturesAre
<1>2. /\ auds = {p[x] : x \in A} /\ P \in SUBSET A /\ q \in Seq(P) /\ N = Cardinality(P)
      /\ c = [x \in 1..Cardinality(P) |-> p[q[x]]]
  BY <1>1 DEF IsPictured
<1>3. N \in Nat /\ \A x \in 1..N : q[x] \in P
  BY ONLY <1>2
<1>4. \A i \in P : i \in A /\ i # Max(A)
  BY DEF Shows
<1>5. \A i \in A : i # Max(A) => IsSliced(s, k, g, i)
  BY SlicedIs
<1> HIDE DEF f, A, P, N, p, c, d
<1>6. o = [x \in DOMAIN c |-> [data |-> Sample(f, Slice(b, auds, c[x])), description |-> d,
                               key |-> Typed(f, Slice(b, auds, c[x]), Keys(f)) # {}]]
  BY ONLY DEF Sampled, c, d
<1>7. DOMAIN c = 1..N /\ \A x \in 1..N : c[x] = p[q[x]]
  BY ONLY <1>2
<1>8. ASSUME NEW x \in 1..N
      PROVE  /\ Sample(f, Slice(b, auds, c[x])) = Picture(s, q[x]).data
             /\ (Typed(f, Slice(b, auds, c[x]), Keys(f)) # {}) = Picture(s, q[x]).key
  <2> DEFINE i == q[x]
             m == NextOne(s, i)
  <2>1. i \in A /\ i # Max(A) /\ c[x] = p[i]
    BY ONLY <1>3, <1>4, <1>7, <1>8
  <2> HIDE DEF i, m
  <2>2. IsSliced(s, k, g, i)
    BY ONLY <1>5, <2>1
  <2>3. IsAccess(s, i, m) /\ Slice(b, auds, p[i]) = Access(s, i)
    BY ONLY <1>2, <2>2, b = Unused(s, k, g) DEF IsSliced, m, A, p
  <2>4. Sample(f, Access(s, i)) = Picture(s, i).data
    BY <2>3, SampleIs DEF f
  <2>5. Typed(f, Access(s, i), Keys(f)) # {} <=> Holds(s, i, Keys(f))
    BY ONLY <2>3 DEF IsAccess, f
  <2>6. Picture(s, i).key = Holds(s, i, Keys(f))
    BY ONLY DEF Picture, f
  <2>7. (Typed(f, Access(s, i), Keys(f)) # {}) = Holds(s, i, Keys(f))
    <3>1. Holds(s, i, Keys(f)) \in BOOLEAN
      BY ONLY DEF Holds
    <3> QED
      BY ONLY <2>5, <3>1
  <2>8. Slice(b, auds, c[x]) = Access(s, i)
    BY ONLY <2>1, <2>3
  <2> QED
    BY ONLY <2>4, <2>6, <2>7, <2>8 DEF i
<1>9. o = [x \in 1..N |-> [data |-> Picture(s, q[x]).data, description |-> d, key |-> Picture(s, q[x]).key]]
  BY ONLY <1>6, <1>7, <1>8
<1> HIDE DEF o
<1>10. o = FirstOf(o, N) /\ \A x \in 1..N : o[x].data = Picture(s, q[x]).data /\ o[x].key = Picture(s, q[x]).key /\ o[x].description = d
  BY ONLY <1>9 DEF FirstOf
<1>11. Are(s, q, o)
  BY ONLY <1>10 DEF Are, N
<1>12. AllDescribed(o, N, d)
  BY ONLY <1>10 DEF AllDescribed
<1> QED
  BY ONLY <1>2, <1>3, <1>11, <1>12 DEF f, o, N, d, P

\* A finite set with two members has two at least.
LEMMA TwoCount ==
  ASSUME NEW S, IsFiniteSet(S), NEW x \in S, NEW y \in S, x # y
  PROVE  Cardinality(S) \in Nat /\ Cardinality(S) >= 2
<1>1. Cardinality(S) \in Nat /\ IsFiniteSet(S \ {x}) /\ Cardinality(S \ {x}) = Cardinality(S) - 1
  BY FS_CardinalityType, FS_RemoveElement
<1>2. Cardinality(S \ {x}) \in Nat /\ Cardinality(S \ {x}) # 0
  <2>1. S \ {x} # {}
    OBVIOUS
  <2> QED
    BY <1>1, <2>1, FS_CardinalityType, FS_EmptySet
<1> QED
  BY ONLY <1>1, <1>2

\* Of the first n numbers, any set is finite.
LEMMA HeardIsFinite ==
  ASSUME NEW n \in Nat, NEW S \in SUBSET (1..n)
  PROVE  IsFiniteSet(S) /\ S \in SUBSET (0..n)
<1>1. IsFiniteSet(1..n)
  BY FS_Interval
<1>2. IsFiniteSet(S)
  BY <1>1, FS_Subset
<1>3. \A x \in 1..n : x \in 0..n
  OBVIOUS
<1> QED
  BY <1>2, <1>3

\* Of the first g bytes, those of k parts have been used, up to a delimiter; b is left of
\* them, and o was returned for them.
Keeps(s, k, g, b, o) ==
  /\ k \in 0..Len(s.parts) /\ g \in Ends(s, k)..Len(AllBytes(s))
  /\ k = 0 \/ k + 1 \in Delimiters(s)
  /\ b = Unused(s, k, g)
  /\ Cardinality(Heard(s, k, g)) < 2
  /\ Are(s, InOrder(Shown(s, k)), o)

\* What is still unused after a push.
UsedUp(s, k, g) == IF Cardinality(Heard(s, k, g)) < 2 THEN k ELSE Max(Heard(s, k, g)) - 1

\* One delimiter at most is heard from there on, ...
IsFollowed(s, k, g) ==
  /\ UsedUp(s, k, g) \in k..Len(s.parts) /\ g \in Ends(s, UsedUp(s, k, g))..Len(AllBytes(s))
  /\ UsedUp(s, k, g) = k \/ UsedUp(s, k, g) + 1 \in Delimiters(s)
  /\ Cardinality(Heard(s, UsedUp(s, k, g), g)) < 2
  /\ Shown(s, UsedUp(s, k, g)) = Shown(s, k) \cup Shows(s, k, g)

\* push uses up what is before the last delimiter that it hears.
LEMMA FollowedIs ==
  ASSUME NEW s \in Streams, s.format \in H26x, NEW k \in 0..Len(s.parts), NEW g \in Ends(s, k)..Len(AllBytes(s))
  PROVE  IsFollowed(s, k, g)
<1> DEFINE N == Len(s.parts)
           A == Heard(s, k, g)
           D == Delimiters(s)
           m == Max(A)
           L == Len(AllBytes(s))
           V == {i \in D : Holds(s, i, Vcls(s.format))}
           e(i) == Ends(s, i)
<1>1. Grows(s)
  BY NalGrows
<1>2. N \in Nat
  BY <1>1 DEF Grows
<1>3. /\ A \in SUBSET (1..N) /\ A \in SUBSET D
      /\ \A i \in A : i > k /\ e(i - 1) \in e(k)..g
      /\ \A j \in A : \A i \in D : i > k /\ i <= j => i \in A
  BY HeardHolds
<1>4. IsFiniteSet(A) /\ A \in SUBSET (0..N)
  BY <1>2, <1>3, HeardIsFinite
<1>5. Cardinality(A) \in Nat
  BY <1>4, FS_CardinalityType
<1>6. A # {} => m \in A /\ \A x \in A : x <= m
  BY <1>2, <1>4, MaxIs
<1>7. /\ Shows(s, k, g) = {i \in A : i # m /\ i \in V}
      /\ \A j : Shown(s, j) = {i \in V : i <= j}
      /\ V \in SUBSET D
  <2>1. Shows(s, k, g) = {i \in A : i # m /\ i \in V}
    BY <1>3 DEF Shows
  <2> QED
    BY <2>1 DEF Shown
<1>8. D \in SUBSET (1..N)
  BY <1>1 DEF Grows, Delimiters
<1> DEFINE z == UsedUp(s, k, g)
           P == Shows(s, k, g)
<1>9. CASE Cardinality(A) < 2
  <2>1. z = k
    BY <1>9 DEF UsedUp
  <2>2. P = {}
    <3>1. ASSUME NEW i \in A, i # m
          PROVE  FALSE
      <4>1. m \in A
        BY ONLY <1>6, <3>1
      <4>2. Cardinality(A) >= 2
        BY ONLY <1>4, <3>1, <4>1, TwoCount
      <4> QED
        BY ONLY <1>5, <1>9, <4>2
    <3> HIDE DEF P, A, m, V
    <3> QED
      BY ONLY <1>7, <3>1 DEF P
  <2>3. z \in k..N
    BY <1>2, <2>1
  <2>4. Shown(s, z) = Shown(s, k) \cup P
    BY <2>1, <2>2
  <2>5. g \in Ends(s, z)..L /\ Cardinality(Heard(s, z, g)) < 2
    BY <1>9, <2>1
  <2> QED
    BY ONLY <2>1, <2>3, <2>4, <2>5 DEF IsFollowed, z, N, L, P
<1>10. CASE ~(Cardinality(A) < 2)
  <2>1. z = m - 1
    BY <1>10 DEF UsedUp
  <2>2. A # {}
    BY <1>10, FS_EmptySet
  <2>3. m \in A /\ m \in 1..N /\ m \in D /\ m > k
    BY ONLY <1>3, <1>6, <2>2
  <2>4. z \in k..N /\ z + 1 = m /\ z \in Nat
    BY ONLY <1>2, <2>1, <2>3, k \in 0..N
  <2>5. g \in e(z)..L
    <3>1. e(z) \in e(k)..g
      BY ONLY <1>3, <2>1, <2>3
    <3>2. e(k) \in Nat /\ L \in Nat
      BY <1>1 DEF Grows
    <3>3. g \in e(k)..L
      OBVIOUS
    <3> DEFINE x == e(z)
               y == e(k)
    <3>4. g \in x..L
      <4>1. x \in y..g /\ y \in Nat /\ L \in Nat /\ g \in y..L
        BY ONLY <3>1, <3>2, <3>3
      <4> HIDE DEF x, y, L
      <4> QED
        BY ONLY <4>1
    <3> QED
      BY ONLY <3>4 DEF x
  <2>6. Cardinality(Heard(s, z, g)) < 2
    <3> DEFINE B == Heard(s, z, g)
    <3>1. ASSUME NEW i \in B
          PROVE  i = m
      <4>1. i \in z + 1..N /\ i \in A
        BY <2>4 DEF Heard, HeardOf
      <4>2. i <= m
        BY ONLY <1>6, <2>2, <4>1
      <4> QED
        BY ONLY <1>2, <2>3, <2>4, <4>1, <4>2
    <3> HIDE DEF B
    <3>2. B \in SUBSET {m}
      BY ONLY <3>1
    <3>3. IsFiniteSet({m}) /\ Cardinality({m}) = 1
      BY FS_Singleton
    <3>4. Cardinality(B) <= 1 /\ IsFiniteSet(B)
      BY ONLY <3>2, <3>3, FS_Subset
    <3>5. Cardinality(B) \in Nat
      BY ONLY <3>4, FS_CardinalityType
    <3> QED
      BY ONLY <3>4, <3>5 DEF B
  <2>7. Shown(s, z) = Shown(s, k) \cup P
    <3> HIDE DEF V, A, D, N, z, P, m
    <3>1. ASSUME NEW i \in V
          PROVE  i <= z <=> i <= k \/ (i \in A /\ i # m)
      <4>1. i \in D /\ i \in 1..N
        BY ONLY <1>7, <1>8
      <4>2. i > k /\ i <= m => i \in A
        BY ONLY <1>3, <2>3, <4>1
      <4>3. i \in A => i <= m
        BY ONLY <1>6, <2>2
      <4> QED
        BY ONLY <1>2, <2>3, <2>4, <4>1, <4>2, <4>3, k \in 0..N
    <3>2. P = {i \in A : i # m /\ i \in V}
      BY ONLY <1>7 DEF P
    <3> QED
      BY ONLY <1>7, <3>1, <3>2
  <2> QED
    BY ONLY <2>3, <2>4, <2>5, <2>6, <2>7 DEF IsFollowed, z, N, L, P, D
<1> QED
  BY ONLY <1>9, <1>10

\* What was kept is again, with more returned.
Pushes(s, k, g, c, auds, o) ==
  LET z == UsedUp(s, k, g)
      t == Sampled(s.format, c, auds)
  IN  /\ Keeps(s, z, g, IF Cardinality(auds) < 2 THEN c ELSE From(c, Max(auds)), o \o t)
      /\ c = Unused(s, k, g)
      /\ \A d : AllDescribed(o, Len(InOrder(Shown(s, k))), d) /\ (Described(s.format) = d \/ Shows(s, k, g) = {})
                => AllDescribed(o \o t, Len(InOrder(Shown(s, z))), d)
      /\ Shows(s, k, g) = {} => t = <<>>

\* A read keeps AnnexBParser so, and returns what it uses up.
LEMMA PushKeeps ==
  ASSUME NEW s \in Streams, s.format \in H26x, NEW k, NEW g, NEW b, NEW o, Keeps(s, k, g, b, o),
         NEW n \in Nat, g + n <= Len(AllBytes(s)),
         NEW c, c = b \o SubSeq(AllBytes(s), g + 1, g + n),
         NEW auds, auds = Typed(s.format, c, Auds(s.format))
  PROVE  Pushes(s, k, g + n, c, auds, o)
<1> DEFINE z == UsedUp(s, k, g + n)
           N == Len(s.parts)
           h == g + n
           P == Shows(s, k, h)
           S == Shown(s, k)
           q == InOrder(S)
           r == InOrder(P)
           t == Sampled(s.format, c, auds)
           A == Heard(s, k, h)
           w == IF Cardinality(auds) < 2 THEN c ELSE From(c, Max(auds))
<1>1. /\ k \in 0..N /\ g \in Ends(s, k)..Len(AllBytes(s))
      /\ k = 0 \/ k + 1 \in Delimiters(s)
      /\ b = Unused(s, k, g)
      /\ Are(s, q, o)
  BY DEF Keeps
<1>2. Grows(s) /\ IsStream(s)
  BY NalGrows, NalStream
<1>3. N \in Nat
  BY <1>2 DEF Grows
<1>4. c = Unused(s, k, h) /\ h \in Ends(s, k)..Len(AllBytes(s))
  BY <1>1, <1>2, ReadsOn
<1> HIDE DEF h
<1>5. IsFollowed(s, k, h)
  BY <1>1, <1>4, FollowedIs
<1>6. /\ A \in SUBSET (1..N) /\ \A i \in A : i > k
  BY <1>1, <1>4, HeardHolds
<1>7. P \in SUBSET A /\ P \in SUBSET (k + 1..N) /\ S \in SUBSET (1..k)
  <2>1. P \in SUBSET A
    BY DEF Shows
  <2>2. \A i \in A : i \in k + 1..N
    BY ONLY <1>1, <1>3, <1>6
  <2>3. \A i \in S : i \in 1..N /\ i <= k
    BY <1>2 DEF Shown, Delimiters, Grows
  <2>4. \A i \in S : i \in 1..k
    BY ONLY <1>1, <1>3, <2>3
  <2> HIDE DEF P, A, S
  <2> QED
    BY ONLY <2>1, <2>2, <2>4
<1>8. /\ q \in Seq(S) /\ r \in Seq(P) /\ InOrder(S \cup P) = q \o r
  <2> HIDE DEF S, P, N
  <2>1. InOrder(S) \in Seq(S) /\ InOrder(P) \in Seq(P)
    BY ONLY <1>1, <1>3, <1>7, InOrderMeets
  <2>2. Meets(S, P)
    BY ONLY <1>1, <1>3, <1>7, InOrderMeets
  <2> QED
    BY ONLY <2>1, <2>2 DEF q, r, Meets
<1>9. S \cup P = Shown(s, z)
  BY <1>5 DEF IsFollowed, h
<1>10. Are(s, r, t) /\ AllDescribed(t, Len(r), Described(s.format)) /\ Len(r) \in Nat
  BY <1>1, <1>4, SampledIs
<1>11. q \in Seq(Nat) /\ r \in Seq(Nat)
  <2>1. S \in SUBSET Nat /\ P \in SUBSET Nat
    <3>1. \A i \in 1..k : i \in Nat
      BY ONLY <1>1
    <3>2. \A i \in k + 1..N : i \in Nat
      BY ONLY <1>1, <1>3
    <3> HIDE DEF S, P
    <3> QED
      BY ONLY <1>7, <3>1, <3>2
  <2> HIDE DEF S, P, q, r
  <2> QED
    <3>1. q \in [1..Len(q) -> S] /\ r \in [1..Len(r) -> P] /\ Len(q) \in Nat /\ Len(r) \in Nat
      BY ONLY <1>8
    <3>2. q \in [1..Len(q) -> Nat] /\ r \in [1..Len(r) -> Nat]
      BY ONLY <2>1, <3>1
    <3> QED
      BY ONLY <3>1, <3>2
<1> HIDE DEF S, P, q, r, t
<1>12. /\ Are(s, q \o r, o \o t)
       /\ \A d : AllDescribed(o, Len(q), d) /\ AllDescribed(t, Len(r), d) => AllDescribed(o \o t, Len(q \o r), d)
  BY ONLY <1>1, <1>10, <1>11, TogetherAre
<1>13. q \o r = InOrder(Shown(s, z))
  BY ONLY <1>8, <1>9
<1>14. P = {} => Len(r) = 0 /\ t = <<>> /\ \A d : AllDescribed(t, Len(r), d)
  <2> SUFFICES ASSUME P = {}
               PROVE  Len(r) = 0 /\ t = <<>> /\ \A d : AllDescribed(t, Len(r), d)
    OBVIOUS
  <2>1. \A i \in 1..Len(r) : r[i] \in P
    BY ONLY <1>8
  <2>2. Len(r) = 0
    BY ONLY <1>10, <2>1, P = {}
  <2>3. t = FirstOf(t, 0)
    BY ONLY <1>10, <2>2 DEF Are
  <2>4. FirstOf(t, 0) = <<>>
    BY ONLY DEF FirstOf
  <2>5. \A d : AllDescribed(t, 0, d)
    BY ONLY DEF AllDescribed
  <2> QED
    BY ONLY <2>2, <2>3, <2>4, <2>5
<1>15. ASSUME NEW d, AllDescribed(o, Len(q), d), Described(s.format) = d \/ P = {}
       PROVE  AllDescribed(o \o t, Len(q \o r), d)
  <2>1. AllDescribed(t, Len(r), d)
    BY ONLY <1>10, <1>14, <1>15
  <2> QED
    BY ONLY <1>12, <1>15, <2>1
<1>16. w = Unused(s, z, h)
  <2>1. IsPictured(s, k, h)
    BY ONLY <1>1, <1>4, PicturesAre, s \in Streams, s.format \in H26x
  <2>2. Cardinality(auds) = Cardinality(A) /\ (A # {} => From(c, Max(auds)) = Unused(s, Max(A) - 1, h))
    BY <1>4, <2>1 DEF IsPictured
  <2>3. z = IF Cardinality(A) < 2 THEN k ELSE Max(A) - 1
    BY DEF UsedUp, h
  <2>4. A = {} => Cardinality(A) < 2
    BY FS_EmptySet
  <2> HIDE DEF A
  <2> QED
    BY ONLY <1>4, <2>2, <2>3, <2>4
<1>17. /\ z \in k..N /\ h \in Ends(s, z)..Len(AllBytes(s))
       /\ z = k \/ z + 1 \in Delimiters(s)
       /\ Cardinality(Heard(s, z, h)) < 2
  BY ONLY <1>5 DEF IsFollowed, h, N
<1>18. z \in 0..N
  BY ONLY <1>1, <1>3, <1>17
<1> HIDE DEF w, N
<1>19. Keeps(s, z, h, w, o \o t)
  <2>1. z = 0 \/ z + 1 \in Delimiters(s)
    BY ONLY <1>1, <1>17
  <2>2. Are(s, InOrder(Shown(s, z)), o \o t)
    BY ONLY <1>12, <1>13
  <2> QED
    BY ONLY <1>16, <1>17, <1>18, <2>1, <2>2 DEF Keeps, N
<1> QED
  BY ONLY <1>4, <1>13, <1>14, <1>15, <1>19 DEF Pushes, P, S, q, t, h, w

-----------------------------------------------------------------------------
(* The parameter sets.                                                     *)

\* A parameter set whose end is not torn off ends where the next unit begins.
LEMMA SetAt ==
  ASSUME NEW s \in Streams, s.format \in H26x, NEW k \in 0..Len(s.parts), NEW g \in Ends(s, k)..Len(AllBytes(s)),
         NEW i \in k + 1..Len(s.parts) - 1, Ends(s, i) + 4 <= g
  PROVE  /\ UnitAt(Unused(s, k, g), BeginsAt(s, k)[i]) = s.parts[i].unit
         /\ i \in SeenIn(s, k, g) /\ i + 1 \in SeenIn(s, k, g)
<1> DEFINE N == Len(s.parts)
           W == AllBytes(s)
           c == Unused(s, k, g)
           p == BeginsAt(s, k)
           e(j) == Ends(s, j)
           I == SeenIn(s, k, g)
<1>1. Grows(s) /\ Laid(W, N, EndsOf(s), CodesOf(s)) /\ IsStream(s)
  BY NalGrows, NalStream
<1>2. /\ N \in Nat /\ W \in Seq(Nat)
      /\ \A j \in 0..N : e(j) \in Nat
      /\ \A x, y \in 0..N : x <= y => e(x) <= e(y)
      /\ \A x, y \in 0..N : x < y => e(x) + 4 <= e(y)
  BY <1>1 DEF Grows
<1>3. IsHeard(s, k, g)
  BY HeardAre
<1>4. StartCodes(c) = {p[j] : j \in I}
  BY <1>3 DEF IsHeard
<1>5. \A j \in 1..N : p[j] = e(j - 1) + 1 - e(k)
  BY DEF BeginsAt
<1>6. c = Cut(W, e(k), g)
  BY DEF Unused, Cut
<1>7. EndsOf(s) = [j \in 0..N |-> e(j)]
  BY DEF EndsOf
<1>8. c \in Seq(Nat) /\ Len(c) = g - e(k)
  BY <1>1, UnusedIs
<1>9. \A j \in k + 1..N : e(j - 1) + 4 <= g => j \in I
  BY DEF SeenIn
<1>10. /\ k \in 0..N /\ i \in k + 1..N - 1 /\ g \in e(k)..Len(W) /\ e(i) + 4 <= g
  OBVIOUS
<1>11. Payload(SubSeq(c, e(i - 1) - e(k) + 1, e(i) - e(k))) = s.parts[i].unit
  <2>1. i \in k + 1..N /\ e(i) <= g
    <3>1. i \in 0..N
      BY ONLY <1>2, <1>10
    <3>2. e(i) \in Nat /\ e(k) \in Nat
      BY ONLY <1>2, <1>10, <3>1
    <3> DEFINE x == e(i)
    <3>3. x <= g
      <4> DEFINE y == e(k)
                 l == Len(W)
      <4>1. x + 4 <= g /\ x \in Nat /\ g \in y..l /\ y \in Nat /\ l \in Nat
        BY ONLY <1>2, <1>10, <3>2
      <4> HIDE DEF x, y, l
      <4> QED
        BY ONLY <4>1
    <3> QED
      BY ONLY <1>2, <1>10, <3>3
  <2> QED
    BY <2>1, UnitIn
<1> HIDE DEF N, W, c, p, e, I
<1> DEFINE K  == e(k)
           a  == e(i - 1)
           z  == e(i)
           l  == Len(W)
           x0 == p[i]
           x1 == p[i + 1]
<1>12. /\ i \in 1..N /\ i + 1 \in 1..N /\ i + 1 \in k + 1..N /\ i \in k + 1..N /\ i \in 0..N /\ i - 1 \in 0..N
       /\ k <= i - 1 /\ (i + 1) - 1 = i
  BY ONLY <1>2, <1>10
<1>13. /\ K \in Nat /\ a \in Nat /\ z \in Nat /\ l \in Nat /\ g \in K..l /\ z + 4 <= g
       /\ K <= a /\ a + 4 <= z
  <2>1. i - 1 < i
    BY ONLY <1>12
  <2>2. e(k) \in Nat /\ e(i - 1) \in Nat /\ e(i) \in Nat /\ e(k) <= e(i - 1)
    BY ONLY <1>2, <1>10, <1>12
  <2>3. e(i - 1) + 4 <= e(i)
    BY ONLY <1>2, <1>12, <2>1
  <2>4. l \in Nat /\ g \in e(k)..l /\ e(i) + 4 <= g
    BY ONLY <1>2, <1>10
  <2> QED
    BY ONLY <2>2, <2>3, <2>4
<1>14. x0 = a + 1 - K /\ x1 = z + 1 - K
  <2>1. p[i + 1] = e((i + 1) - 1) + 1 - e(k)
    BY ONLY <1>5, <1>12
  <2> QED
    BY ONLY <1>5, <1>12, <2>1
<1>15. e(i - 1) + 4 <= g /\ e((i + 1) - 1) + 4 <= g
  <2>1. a + 4 <= g
    <3> HIDE DEF a, z, K, l
    <3> QED
      BY ONLY <1>13
  <2> QED
    BY ONLY <1>12, <1>13, <2>1
<1>16. i \in I /\ i + 1 \in I
  BY ONLY <1>9, <1>12, <1>15
<1> DEFINE after == {y \in x0 + 3..Len(c) : Is4(c, y) \/ Is3(c, y)}
<1>17. x1 \in after
  <2>1. x1 \in StartCodes(c)
    BY ONLY <1>4, <1>16
  <2>2. Is4(c, x1) \/ Is3(c, x1)
    BY ONLY <2>1 DEF StartCodes
  <2>3. x1 \in DOMAIN c
    BY ONLY <2>1 DEF StartCodes
  <2>4. x1 \in 1..Len(c)
    BY ONLY <2>3, <1>8
  <2> HIDE DEF x0, x1, K, a, z, l
  <2>5. x1 \in x0 + 3..Len(c)
    BY ONLY <2>4, <1>8, <1>13, <1>14
  <2> QED
    BY ONLY <2>2, <2>5
<1>18. ASSUME NEW y \in after
       PROVE  x1 <= y
  <2>1. y \in x0 + 3..Len(c) /\ (Is4(c, y) \/ Is3(c, y))
    BY ONLY <1>18
  <2>2. y \in Nat \ {0} /\ y \in Int /\ y >= x0 + 3
    <3> HIDE DEF x0, K, a, z, l
    <3> QED
      BY ONLY <1>8, <1>13, <1>14, <2>1
  <2>3. K + y + 3 <= g /\ (Four(W, K + y) \/ Three(W, K + y))
    <3>1. K \in Nat /\ g \in K..Len(W)
      BY ONLY <1>13
    <3> HIDE DEF K
    <3>2. /\ Is4(Cut(W, K, g), y) <=> K + y + 3 <= g /\ Four(W, K + y)
          /\ Is3(Cut(W, K, g), y) <=> K + y + 3 <= g /\ Three(W, K + y)
      BY ONLY <1>2, <2>2, <3>1, CodesInCut
    <3>3. Cut(W, K, g) = c
      BY ONLY <1>6 DEF K
    <3> QED
      BY ONLY <2>1, <3>2, <3>3
  <2> DEFINE t == K + y
  <2>4. t \in 1..Len(W) - 3
    <3> HIDE DEF K, a, z, x0
    <3> QED
      BY ONLY <1>13, <2>2, <2>3 DEF l
  <2>5. PICK j \in 1..N : t = EndsOf(s)[j - 1] + 1 \/ t = EndsOf(s)[j - 1] + 2
    <3> HIDE DEF t
    <3>1. /\ Four(W, t) <=> \E j \in 1..N : t = EndsOf(s)[j - 1] + 1 /\ CodesOf(s)[j] = 4
          /\ Three(W, t) <=> \E j \in 1..N : (t = EndsOf(s)[j - 1] + 1 /\ CodesOf(s)[j] = 3)
                                             \/ (t = EndsOf(s)[j - 1] + 2 /\ CodesOf(s)[j] = 4)
      BY ONLY <1>1, <2>4, CodesAre
    <3> QED
      BY ONLY <2>3, <3>1 DEF t
  <2> DEFINE d == e(j - 1)
  <2>6. j - 1 \in 0..N
    BY ONLY <1>2, <2>5
  <2>7. t = d + 1 \/ t = d + 2
    BY ONLY <1>7, <2>5, <2>6
  <2>8. d \in Nat
    BY ONLY <1>2, <2>6
  <2>9. d <= a \/ z <= d
    <3>1. j - 1 <= i - 1 \/ i <= j - 1
      BY ONLY <1>12, <1>2, <2>5
    <3> QED
      BY ONLY <1>2, <1>12, <2>6, <3>1
  <2> HIDE DEF d, a, z, K, x0, x1, l
  <2> QED
    BY ONLY <1>13, <1>14, <2>2, <2>7, <2>8, <2>9
<1>19. NextStart(c, x0 + 3) = x1
  <2>1. after \in SUBSET Nat
    <3>1. x0 + 3 \in Nat /\ Len(c) \in Nat
      <4> HIDE DEF x0, K, a, z, l
      <4> QED
        BY ONLY <1>8, <1>13, <1>14
    <3> DEFINE v == x0 + 3
    <3> HIDE DEF v
    <3>2. \A y \in v..Len(c) : y \in Nat
      BY ONLY <3>1 DEF v
    <3> QED
      BY ONLY <3>2 DEF v
  <2> HIDE DEF after, x1
  <2>2. Min(after) = x1
    BY ONLY <1>17, <1>18, <2>1, LeastIs
  <2>3. after # {}
    BY ONLY <1>17
  <2> QED
    BY ONLY <2>2, <2>3 DEF NextStart, after
<1>20. /\ a - K + 1 = x0 /\ z - K = x1 - 1
  <2> HIDE DEF x0, x1, K, a, z, l
  <2> QED
    BY ONLY <1>13, <1>14
<1>21. Payload(SubSeq(c, x0, x1 - 1)) = s.parts[i].unit
  BY ONLY <1>11, <1>20
<1>22. UnitAt(c, x0) = s.parts[i].unit
  BY ONLY <1>19, <1>21 DEF UnitAt
<1> QED
  BY ONLY <1>16, <1>22 DEF c, p, I

\* The types of parameter sets.
SetTypes == SpsTypes("h264") \cup PpsTypes("h264")

\* Every such unit is that one, and is not the last of all.
IsSetOf(s, types, u) ==
  \A i \in 1..Len(s.parts) : TypeOf(s, i) \in types => s.parts[i].unit = u /\ i # Len(s.parts)

\* Where no parameter set is torn, one that is heard is read up to the start code behind it.
LEMMA NotTorn ==
  ASSUME NEW s \in Streams, s.format = "h264", NEW g \in Nat, g \notin Tears(s),
         NEW i \in 1..Len(s.parts) - 1, TypeOf(s, i) \in SetTypes,
         Ends(s, i - 1) + s.parts[i].code + 1 <= g
  PROVE  Ends(s, i) + 4 <= g
<1> DEFINE N == Len(s.parts)
           R == Begins(s, i) + s.parts[i].code..Begins(s, i + 1) + 2
           J == {j \in 1..N - 1 : TypeOf(s, j) \in SetTypes}
<1>1. Grows(s) /\ IsStream(s) /\ s \in [format : H26x, parts : Seq([code : {3, 4}, unit : Units])]
  <2>1. s.format \in H26x
    BY DEF H26x
  <2> QED
    BY <2>1, NalGrows, NalStream
<1>2. N \in Nat
  BY <1>1 DEF Grows
<1>3. i \in 1..N + 1 /\ i + 1 \in 1..N + 1 /\ i \in 1..N /\ i \in 0..N /\ i - 1 \in 0..N /\ (i + 1) - 1 = i
  <2> HIDE DEF N
  <2>1. i \in 1..N - 1
    BY DEF N
  <2> QED
    BY ONLY <1>2, <2>1
<1>4. Begins(s, i) = Ends(s, i - 1) + 1 /\ Begins(s, i + 1) = Ends(s, i) + 1
  <2> DEFINE F == H26x
             T == [code : {3, 4}, unit : Units]
  <2>1. s \in [format : F, parts : Seq(T)]
    BY <1>1
  <2> HIDE DEF F, T
  <2>2. Begins(s, i) = Ends(s, i - 1) + 1
    BY ONLY <1>1, <1>3, <2>1, BeginsIs
  <2>3. Begins(s, i + 1) = Ends(s, (i + 1) - 1) + 1
    BY ONLY <1>1, <1>3, <2>1, BeginsIs
  <2> QED
    BY ONLY <1>3, <2>2, <2>3
<1>5. Tears(s) = UNION {Begins(s, j) + s.parts[j].code..Begins(s, j + 1) + 2 : j \in J}
  BY DEF Tears, SetTypes
<1>6. i \in J
  OBVIOUS
<1>7. g \notin R
  BY ONLY <1>5, <1>6, g \notin Tears(s)
<1> DEFINE a == Ends(s, i - 1)
           z == Ends(s, i)
           d == s.parts[i].code
<1>8. a \in Nat /\ z \in Nat /\ d \in {3, 4}
  BY ONLY <1>1, <1>3 DEF Grows, N
<1>9. g \notin (a + 1) + d..(z + 1) + 2
  BY ONLY <1>4, <1>7
<1>10. a + d + 1 <= g
  OBVIOUS
<1> HIDE DEF a, z, d
<1>11. z + 4 <= g
  BY ONLY <1>8, <1>9, <1>10, g \in Nat
<1> QED
  BY ONLY <1>11 DEF z

\* The last one is seen whole, if one is seen.
SeesSet(s, k, g, types, u, else) ==
  LastUnit("h264", Unused(s, k, g), types, else) = IF HeardOf(s, k, g, types) = {} THEN else ELSE u

\* So capture_headers sees it whole.
LEMMA SetSeen ==
  ASSUME NEW s \in Streams, s.format = "h264", NEW k \in 0..Len(s.parts), NEW g \in Ends(s, k)..Len(AllBytes(s)),
         g \notin Tears(s), NEW types \in SUBSET SetTypes, NEW u, IsSetOf(s, types, u), NEW else
  PROVE  SeesSet(s, k, g, types, u, else)
<1> DEFINE N == Len(s.parts)
           c == Unused(s, k, g)
           H == HeardOf(s, k, g, types)
           p == BeginsAt(s, k)
           m == Max(H)
           found == Typed("h264", c, types)
<1>1. s.format \in H26x
  BY DEF H26x
<1>2. Grows(s) /\ IsStream(s)
  BY <1>1, NalGrows, NalStream
<1>3. N \in Nat /\ Ends(s, k) \in Nat
  BY <1>2 DEF Grows
<1>4. IsHeard(s, k, g)
  BY <1>1, HeardAre
<1>5. /\ p \in [1..N -> Int]
      /\ \A i, j \in 1..N : i < j => p[i] < p[j]
      /\ StartCodes(c) = {p[i] : i \in SeenIn(s, k, g)}
      /\ SeenIn(s, k, g) \in SUBSET (1..N)
      /\ found = {p[i] : i \in H}
      /\ H \in SUBSET (1..N)
  BY <1>4 DEF IsHeard
<1>6. IsFiniteSet(StartCodes(c))
  <2>1. c \in Seq(Nat)
    BY <1>2, UnusedIs
  <2>2. StartCodes(c) \in SUBSET (1..Len(c)) /\ Len(c) \in Nat
    BY <2>1 DEF StartCodes
  <2> HIDE DEF c
  <2> QED
    BY ONLY <2>2, HeardIsFinite
<1>7. CASE H = {}
  <2>1. found = {}
    BY <1>5, <1>7
  <2> QED
    BY <1>7, <2>1 DEF LastUnit, SeesSet
<1>8. CASE H # {}
  <2>1. m \in H /\ Max(found) = p[m]
    <3> HIDE DEF H, p, found, m, N
    <3>1. m \in H /\ Max({p[i] : i \in H}) = p[m]
      BY ONLY <1>3, <1>5, <1>8, ImageIs DEF m
    <3> QED
      BY ONLY <1>5, <3>1
  <2>2. m \in k + 1..N /\ Ends(s, m - 1) + s.parts[m].code + 1 <= g /\ TypeOf(s, m) \in types
    BY <2>1 DEF HeardOf
  <2>3. m \in 1..N
    BY <1>5, <2>1
  <2>4. s.parts[m].unit = u /\ m # N
    BY <2>2, <2>3 DEF IsSetOf
  <2> HIDE DEF m
  <2>5. m \in 1..N - 1 /\ m \in k + 1..N - 1
    <3> HIDE DEF N
    <3>1. k \in 0..N
      BY DEF N
    <3> QED
      BY ONLY <1>3, <2>2, <2>3, <2>4, <3>1
  <2>6. g \in Nat
    <3> DEFINE x == Ends(s, k)
               y == Len(AllBytes(s))
    <3>1. g \in x..y /\ x \in Nat /\ y \in Nat
      BY <1>2, <1>3 DEF Grows
    <3> HIDE DEF x, y
    <3> QED
      BY ONLY <3>1
  <2>7. TypeOf(s, m) \in SetTypes
    BY <2>2
  <2>8. Ends(s, m) + 4 <= g
    BY <2>2, <2>5, <2>6, <2>7, NotTorn
  <2>9. /\ UnitAt(c, p[m]) = s.parts[m].unit
        /\ m \in SeenIn(s, k, g) /\ m + 1 \in SeenIn(s, k, g)
    BY <1>1, <2>5, <2>8, SetAt
  <2>10. p[m] \in StartCodes(c) /\ p[m + 1] \in StartCodes(c) /\ p[m] # p[m + 1]
    <3>1. m + 1 \in 1..N /\ m < m + 1
      BY ONLY <1>3, <2>5
    <3>2. p[m] \in Int /\ p[m + 1] \in Int /\ p[m] < p[m + 1]
      BY ONLY <1>5, <2>3, <3>1
    <3>3. p[m] # p[m + 1]
      BY ONLY <3>2
    <3> QED
      BY ONLY <1>5, <2>9, <3>3
  <2>11. Cardinality(StartCodes(c)) \in Nat /\ Cardinality(StartCodes(c)) >= 2
    BY ONLY <1>6, <2>10, TwoCount
  <2>12. ~(Cardinality(StartCodes(c)) < 2)
    BY ONLY <2>11
  <2>13. found # {}
    <3> HIDE DEF found
    <3> QED
      BY ONLY <1>5, <2>1
  <2>14. LastUnit("h264", c, types, else) = UnitAt(c, Max(found))
    BY ONLY <2>12, <2>13 DEF LastUnit
  <2> QED
    BY ONLY <1>8, <2>1, <2>4, <2>9, <2>14 DEF SeesSet
<1> QED
  BY ONLY <1>7, <1>8

\* The parameter sets of an H.264 stream.
LEMMA SetsOf ==
  ASSUME NEW s \in Streams, s.format = "h264"
  PROVE  /\ Len(s.parts) \in Nat /\ Len(s.parts) > 3 /\ Len(s.parts[2].unit) >= 4
         /\ s.parts[2].unit # <<>> /\ s.parts[3].unit # <<>>
         /\ TypeOf(s, 2) \in SpsTypes("h264") /\ TypeOf(s, 3) \in PpsTypes("h264")
         /\ IsSetOf(s, SpsTypes("h264"), s.parts[2].unit) /\ IsSetOf(s, PpsTypes("h264"), s.parts[3].unit)
         /\ 2 \notin Delimiters(s) /\ 3 \notin Delimiters(s)
<1> DEFINE N == Len(s.parts)
<1>1. s.format \in H26x
  BY DEF H26x
<1>2. Grows(s)
  BY <1>1, NalGrows
<1>3. N \in Nat /\ DOMAIN s.parts = 1..N
  BY <1>2 DEF Grows
<1>4. HasSets(s)
  BY StreamsAssumption
<1>5. N > 3 /\ Len(s.parts[2].unit) >= 4 /\ TypeOf(s, 2) \in SpsTypes("h264") /\ TypeOf(s, 3) \in PpsTypes("h264")
  BY <1>4 DEF HasSets
<1>6. IsSetOf(s, SpsTypes("h264"), s.parts[2].unit) /\ IsSetOf(s, PpsTypes("h264"), s.parts[3].unit)
  BY <1>3, <1>4 DEF HasSets, IsSetOf
<1>7. 2 \notin Delimiters(s) /\ 3 \notin Delimiters(s)
  BY <1>5 DEF Delimiters, SpsTypes, PpsTypes, Auds
<1>8. s.parts[2].unit # <<>> /\ s.parts[3].unit # <<>>
  <2>1. 2 \in 1..N /\ 3 \in 1..N
    <3> HIDE DEF N
    <3> QED
      BY ONLY <1>3, <1>5
  <2>2. s.parts[2].unit \in Units /\ s.parts[3].unit \in Units
    BY ONLY <1>2, <2>1 DEF Grows, N
  <2> QED
    BY ONLY <2>2 DEF Units
<1> QED
  BY ONLY <1>3, <1>5, <1>6, <1>7, <1>8 DEF N

\* Before anything is used up, both parameter sets have been seen.
LEMMA BothHeard ==
  ASSUME NEW s \in Streams, s.format = "h264", NEW g \in Ends(s, 0)..Len(AllBytes(s)), UsedUp(s, 0, g) > 0
  PROVE  /\ 2 \in HeardOf(s, 0, g, SpsTypes("h264"))
         /\ 3 \in HeardOf(s, 0, g, PpsTypes("h264"))
<1> DEFINE N == Len(s.parts)
           A == Heard(s, 0, g)
           m == Max(A)
           e(i) == Ends(s, i)
<1>1. s.format \in H26x
  BY DEF H26x
<1>2. Grows(s)
  BY <1>1, NalGrows
<1>3. N \in Nat /\ N > 3
  BY SetsOf
<1>4. 0 \in 0..N
  BY ONLY <1>3
<1>5. /\ A \in SUBSET (1..N) /\ A \in SUBSET Delimiters(s)
      /\ \A i \in A : i > 0 /\ e(i - 1) \in e(0)..g
  BY <1>1, <1>4, HeardHolds
<1>6. ~(Cardinality(A) < 2) /\ m - 1 > 0
  BY DEF UsedUp
<1>7. A # {}
  BY <1>6, FS_EmptySet
<1>8. m \in A
  <2>1. A \in SUBSET (0..N)
    BY <1>3, <1>5, HeardIsFinite
  <2> HIDE DEF A
  <2> QED
    BY ONLY <1>3, <1>7, <2>1, MaxIs DEF m
<1>9. m \in 1..N /\ m # 2 /\ m # 3
  <2>1. 2 \notin Delimiters(s) /\ 3 \notin Delimiters(s)
    BY SetsOf
  <2> HIDE DEF m
  <2> QED
    BY ONLY <1>5, <1>8, <2>1
<1>10. /\ \A i \in 0..N : e(i) \in Nat
       /\ \A i, j \in 0..N : i <= j => e(i) <= e(j)
       /\ \A i \in 1..N : /\ s.parts[i].code \in {3, 4} /\ Len(s.parts[i].unit) \in Nat \ {0}
                          /\ e(i) = e(i - 1) + s.parts[i].code + Len(s.parts[i].unit)
  BY <1>2 DEF Grows
<1>11. ASSUME NEW i \in {2, 3}
       PROVE  i \in 0 + 1..N /\ e(i - 1) + s.parts[i].code + 1 <= g
  <2> DEFINE y == e(m - 1)
             x == e(i)
             w == e(i - 1)
             d == s.parts[i].code
             u == Len(s.parts[i].unit)
             o == e(0)
  <2>1. i \in 1..N /\ i \in 0..N /\ i - 1 \in 0..N /\ 0 \in 0..N
    <3> HIDE DEF N
    <3> QED
      BY ONLY <1>3, <1>11
  <2>2. m - 1 \in 0..N /\ i <= m - 1
    <3> HIDE DEF m, N
    <3> QED
      BY ONLY <1>3, <1>6, <1>9, <1>11
  <2>3. x <= y /\ x \in Nat /\ y \in Nat /\ w \in Nat /\ o \in Nat
    BY ONLY <1>10, <2>1, <2>2
  <2>4. y \in o..g
    BY ONLY <1>5, <1>8
  <2>5. d \in {3, 4} /\ u \in Nat \ {0} /\ x = w + d + u
    BY ONLY <1>10, <2>1
  <2>6. w + d + 1 <= g
    <3>1. g \in Int
      <4> DEFINE l == Len(AllBytes(s))
      <4>1. g \in o..l /\ o \in Nat /\ l \in Nat
        BY <1>2, <2>3 DEF Grows
      <4> HIDE DEF o, l
      <4> QED
        BY ONLY <4>1
    <3> HIDE DEF x, y, w, d, u, o
    <3> QED
      BY ONLY <2>3, <2>4, <2>5, <3>1
  <2>7. 0 + 1..N = 1..N
    <3> HIDE DEF N
    <3> QED
      BY ONLY <1>3
  <2> QED
    BY ONLY <2>1, <2>6, <2>7
<1>12. TypeOf(s, 2) \in SpsTypes("h264") /\ TypeOf(s, 3) \in PpsTypes("h264")
  BY SetsOf
<1>13. 2 \in 0 + 1..N /\ e(2 - 1) + s.parts[2].code + 1 <= g
  BY ONLY <1>11
<1>14. 3 \in 0 + 1..N /\ e(3 - 1) + s.parts[3].code + 1 <= g
  BY ONLY <1>11
<1> QED
  BY ONLY <1>12, <1>13, <1>14 DEF HeardOf, N, e

\* The parameter sets that are known, and those that frames are described by, are whole.
SetsKept(s, k, v, w, o) ==
  /\ v \in {<<>>, s.parts[2].unit} /\ w \in {<<>>, s.parts[3].unit}
  /\ k # 0 => v = s.parts[2].unit /\ w = s.parts[3].unit
  /\ AllDescribed(o, Len(InOrder(Shown(s, k))), <<s.parts[2].unit, s.parts[3].unit>>)

\* What is returned is described by them, and their first bytes are there to be read.
Describes(s, z, c, auds, o) ==
  /\ SetsKept(s, z, sps', pps', o \o Sampled("h264", c, auds))
  /\ Sampled("h264", c, auds) # <<>> => Len(sps') >= 4

\* A read keeps the parameter sets whole, and the frames described by them.
LEMMA SetsKeep ==
  ASSUME NEW s \in Streams, s.format = "h264", NEW k, NEW g, NEW b, NEW o, Keeps(s, k, g, b, o),
         NEW v, NEW w, SetsKept(s, k, v, w, o),
         NEW n \in Nat, g + n <= Len(AllBytes(s)), g + n \notin Tears(s),
         NEW c, c = b \o SubSeq(AllBytes(s), g + 1, g + n),
         NEW auds, auds = Typed("h264", c, Auds("h264")), NEW z, z = UsedUp(s, k, g + n),
         sps' = LastUnit("h264", c, SpsTypes("h264"), v), pps' = LastUnit("h264", c, PpsTypes("h264"), w)
  PROVE  Describes(s, z, c, auds, o)
<1> DEFINE h == g + n
           N == Len(s.parts)
           P2 == s.parts[2].unit
           P3 == s.parts[3].unit
           P == Shows(s, k, h)
           t == Sampled("h264", c, auds)
           H2 == HeardOf(s, k, h, SpsTypes("h264"))
           H3 == HeardOf(s, k, h, PpsTypes("h264"))
<1>1. s.format \in H26x
  BY DEF H26x
<1>2. /\ Keeps(s, z, h, IF Cardinality(auds) < 2 THEN c ELSE From(c, Max(auds)), o \o t)
      /\ c = Unused(s, k, h)
      /\ \A d : AllDescribed(o, Len(InOrder(Shown(s, k))), d) /\ (Described("h264") = d \/ P = {})
                => AllDescribed(o \o t, Len(InOrder(Shown(s, z))), d)
      /\ P = {} => t = <<>>
  <2>1. auds = Typed(s.format, c, Auds(s.format))
    OBVIOUS
  <2>2. Pushes(s, k, h, c, auds, o)
    BY <1>1, <2>1, PushKeeps
  <2>3. s.format = "h264" /\ z = UsedUp(s, k, h)
    OBVIOUS
  <2> HIDE DEF h
  <2> QED
    BY ONLY <2>2, <2>3 DEF Pushes
<1>3. Grows(s) /\ IsStream(s)
  BY <1>1, NalGrows, NalStream
<1>4. k \in 0..N /\ g \in Ends(s, k)..Len(AllBytes(s)) /\ b = Unused(s, k, g)
  BY DEF Keeps
<1>5. h \in Ends(s, k)..Len(AllBytes(s))
  BY <1>3, <1>4, ReadsOn
<1>6. /\ N \in Nat /\ Len(P2) >= 4 /\ P2 # <<>> /\ P3 # <<>>
      /\ IsSetOf(s, SpsTypes("h264"), P2) /\ IsSetOf(s, PpsTypes("h264"), P3)
  BY SetsOf
<1>7. /\ sps' = IF H2 = {} THEN v ELSE P2
      /\ pps' = IF H3 = {} THEN w ELSE P3
  <2>1. SpsTypes("h264") \in SUBSET SetTypes /\ PpsTypes("h264") \in SUBSET SetTypes
    BY DEF SetTypes
  <2>2. h \notin Tears(s)
    OBVIOUS
  <2> HIDE DEF h, N
  <2>3. k \in 0..Len(s.parts) /\ s \in Streams /\ s.format = "h264"
    BY <1>4 DEF N
  <2> HIDE DEF H2, H3, P2, P3
  <2>4. SeesSet(s, k, h, SpsTypes("h264"), P2, v)
    BY ONLY <1>5, <1>6, <2>1, <2>2, <2>3, SetSeen
  <2>5. SeesSet(s, k, h, PpsTypes("h264"), P3, w)
    BY ONLY <1>5, <1>6, <2>1, <2>2, <2>3, SetSeen
  <2>6. /\ sps' = LastUnit("h264", c, SpsTypes("h264"), v)
        /\ pps' = LastUnit("h264", c, PpsTypes("h264"), w)
    OBVIOUS
  <2> QED
    BY ONLY <1>2, <2>4, <2>5, <2>6 DEF SeesSet, H2, H3
<1>8. /\ v \in {<<>>, P2} /\ w \in {<<>>, P3} /\ (k # 0 => v = P2 /\ w = P3)
      /\ AllDescribed(o, Len(InOrder(Shown(s, k))), <<P2, P3>>)
  BY DEF SetsKept
<1>9. IsFollowed(s, k, h)
  BY <1>1, <1>4, <1>5, FollowedIs
<1>10. z \in k..N /\ Shown(s, z) = Shown(s, k) \cup P
  BY <1>9 DEF IsFollowed
<1>11. P # {} => z # 0
  <2> SUFFICES ASSUME P # {}, z = 0
               PROVE  FALSE
    OBVIOUS
  <2>1. k = 0
    <3> HIDE DEF N
    <3> QED
      BY ONLY <1>4, <1>6, <1>10, z = 0
  <2>2. PICK i \in P : TRUE
    OBVIOUS
  <2>3. i \in Heard(s, k, h)
    BY DEF Shows
  <2>4. i > k /\ i \in 1..N
    BY <1>1, <1>4, <1>5, <2>3, HeardHolds
  <2>5. i \in Shown(s, k)
    BY ONLY <1>10, <2>1, <2>2, z = 0
  <2>6. i <= k
    BY <2>5 DEF Shown
  <2> HIDE DEF N
  <2> QED
    BY ONLY <2>1, <2>4, <2>6, <1>6
<1>12. z # 0 => sps' = P2 /\ pps' = P3
  <2> SUFFICES ASSUME z # 0
               PROVE  sps' = P2 /\ pps' = P3
    OBVIOUS
  <2>1. CASE k # 0
    BY ONLY <1>7, <1>8, <2>1
  <2>2. CASE k = 0
    <3>1. UsedUp(s, 0, h) > 0
      <4>1. z > 0
        <5> HIDE DEF N
        <5> QED
          BY ONLY <1>4, <1>6, <1>10, z # 0
      <4> QED
        BY <2>2, <4>1
    <3>2. 2 \in H2 /\ 3 \in H3
      BY <1>5, <2>2, <3>1, BothHeard
    <3> HIDE DEF H2, H3
    <3> QED
      BY ONLY <1>7, <3>2
  <2> QED
    BY ONLY <2>1, <2>2
<1>13. P = {} \/ Described("h264") = <<P2, P3>>
  <2> SUFFICES ASSUME P # {}
               PROVE  Described("h264") = <<P2, P3>>
    OBVIOUS
  <2>1. sps' = P2 /\ pps' = P3
    BY ONLY <1>11, <1>12, P # {}
  <2> HIDE DEF P2, P3
  <2> QED
    BY ONLY <1>6, <2>1 DEF Described
<1>14. AllDescribed(o \o t, Len(InOrder(Shown(s, z))), <<P2, P3>>)
  BY ONLY <1>2, <1>8, <1>13
<1>15. sps' \in {<<>>, P2} /\ pps' \in {<<>>, P3}
  BY ONLY <1>7, <1>8
<1>16. SetsKept(s, z, sps', pps', o \o t)
  BY ONLY <1>12, <1>14, <1>15 DEF SetsKept
<1>17. t # <<>> => Len(sps') >= 4
  BY ONLY <1>2, <1>6, <1>11, <1>12
<1> QED
  BY ONLY <1>16, <1>17 DEF t, Describes

-----------------------------------------------------------------------------
(* The parser, read by read.                                               *)

\* What is kept of H.264 and H.265.
AnnexKept ==
  \E k \in 0..Len(stream.parts) :
    /\ Keeps(stream, k, given, buffer, frames)
    /\ stream.format = "h264" /\ torn = FALSE => SetsKept(stream, k, sps, pps, frames)

\* AnnexBParser has kept up, and has not failed unless a parameter set was torn.
AnnexInv ==
  stream.format \in H26x =>
    /\ given \in 0..Len(AllBytes(stream)) /\ torn \in BOOLEAN
    /\ torn = FALSE => lost = FALSE
    /\ AnnexKept

\* A read keeps AnnexBParser so.
LEMMA AnnexStep ==
  ASSUME stream \in Streams, AnnexInv, [ParserNext]_parserVars
  PROVE  AnnexInv'
<1> SUFFICES ASSUME stream'.format \in H26x PROVE AnnexInv'
  BY DEF AnnexInv
<1>1. stream' = stream
  BY DEF ParserNext, ReadPipe, parserVars
<1> DEFINE s == stream
           W == AllBytes(s)
           f == s.format
           N == Len(s.parts)
<1>2. f \in H26x /\ s \in Streams
  BY <1>1
<1>3. Grows(s) /\ IsStream(s)
  BY <1>2, NalGrows, NalStream
<1>4. N \in Nat /\ Len(W) \in Nat
  BY <1>3 DEF Grows
<1>5. CASE UNCHANGED parserVars
  BY <1>5 DEF AnnexInv, AnnexKept, parserVars
<1>6. ASSUME NEW n \in 1..Len(AllBytes(stream)), ReadPipe(n) PROVE AnnexInv'
  <2> DEFINE g == given
             c == buffer \o SubSeq(AllBytes(stream), given + 1, given + n)
             auds == Typed(f, c, Auds(f))
             t == Sampled(f, c, auds)
  <2>1. g \in 0..Len(W) /\ torn \in BOOLEAN /\ (torn = FALSE => lost = FALSE) /\ AnnexKept
    BY <1>2 DEF AnnexInv
  <2>2. n \in Nat /\ g + n <= Len(W) /\ given' = g + n /\ g + n \in 0..Len(W)
    BY <1>6, <1>4, <2>1 DEF ReadPipe
  <2>3. torn' = (torn \/ g + n \in Tears(s))
    BY <1>6 DEF ReadPipe
  <2>4. PushAnnexB(f, c)
    BY <1>2, <1>6 DEF ReadPipe, H26x
  <2>5. /\ sps' = LastUnit(f, c, SpsTypes(f), sps) /\ pps' = LastUnit(f, c, PpsTypes(f), pps)
        /\ frames' = frames \o t
        /\ buffer' = IF Cardinality(auds) < 2 THEN c ELSE From(c, Max(auds))
        /\ lost' = (t # <<>> /\ Described(f) # <<>> /\ Len(sps') < 4)
    <3> HIDE DEF c
    <3> QED
      BY ONLY <2>4 DEF PushAnnexB, auds, t
  <2>6. PICK k \in 0..N : /\ Keeps(s, k, g, buffer, frames)
                          /\ f = "h264" /\ torn = FALSE => SetsKept(s, k, sps, pps, frames)
    BY <2>1 DEF AnnexKept
  <2> DEFINE h == g + n
             z == UsedUp(s, k, h)
  <2>7. Pushes(s, k, h, c, auds, frames)
    BY <1>2, <2>2, <2>6, PushKeeps
  <2>8. Keeps(s, z, h, buffer', frames')
    <3> HIDE DEF h, c, auds
    <3>1. Keeps(s, z, h, IF Cardinality(auds) < 2 THEN c ELSE From(c, Max(auds)), frames \o t)
      BY ONLY <2>7 DEF Pushes, f
    <3> QED
      BY ONLY <2>5, <3>1
  <2>9. z \in 0..N
    BY ONLY <2>8 DEF Keeps
  <2>10. ASSUME f = "h264", torn' = FALSE
         PROVE  SetsKept(s, z, sps', pps', frames') /\ lost' = FALSE
    <3>1. torn = FALSE /\ h \notin Tears(s)
      BY ONLY <2>1, <2>3, <2>10
    <3>2. SetsKept(s, k, sps, pps, frames)
      BY ONLY <2>6, <2>10, <3>1
    <3>3. /\ auds = Typed("h264", c, Auds("h264")) /\ t = Sampled("h264", c, auds)
          /\ sps' = LastUnit("h264", c, SpsTypes("h264"), sps) /\ pps' = LastUnit("h264", c, PpsTypes("h264"), pps)
      BY <2>5, <2>10
    <3>4. s.format = "h264"
      BY <2>10
    <3>5. c = buffer \o SubSeq(AllBytes(s), g + 1, g + n)
      OBVIOUS
    <3> HIDE DEF c, auds, t
    <3>6. /\ SetsKept(s, z, sps', pps', frames \o Sampled("h264", c, auds))
          /\ Sampled("h264", c, auds) # <<>> => Len(sps') >= 4
      <4>1. Describes(s, z, c, auds, frames)
        BY ONLY <1>2, <2>2, <2>6, <3>1, <3>2, <3>3, <3>4, <3>5, SetsKeep
      <4> QED
        BY ONLY <4>1 DEF Describes
    <3>7. t # <<>> => ~(Len(sps') < 4)
      <4>1. Len(sps') \in Nat \/ t = <<>>
        <5>1. t # <<>> => Len(sps') >= 4
          BY ONLY <3>3, <3>6
        <5>2. sps' \in {<<>>, s.parts[2].unit}
          BY ONLY <3>6 DEF SetsKept
        <5>3. Len(s.parts[2].unit) \in Nat
          <6>1. 2 \in 1..N
            <7>1. N > 3 /\ N \in Nat
              BY <1>2, <3>4, SetsOf
            <7> HIDE DEF N
            <7> QED
              BY ONLY <7>1
          <6> QED
            BY ONLY <1>3, <6>1 DEF Grows, N
        <5> HIDE DEF s
        <5> QED
          BY ONLY <5>2, <5>3
      <4>2. t # <<>> => Len(sps') >= 4
        BY ONLY <3>3, <3>6
      <4> QED
        BY ONLY <4>1, <4>2
    <3>8. lost' = FALSE
      BY ONLY <2>5, <3>7
    <3> QED
      BY ONLY <2>5, <3>3, <3>6, <3>8
  <2>11. f # "h264" => lost' = FALSE
    <3>1. f # "h264" => Described(f) = <<>>
      BY ONLY DEF Described
    <3> QED
      BY ONLY <2>5, <3>1
  <2>12. torn' \in BOOLEAN
    BY ONLY <2>1, <2>3
  <2>13. /\ Keeps(stream', z, given', buffer', frames')
         /\ stream'.format = "h264" /\ torn' = FALSE => SetsKept(stream', z, sps', pps', frames')
         /\ z \in 0..Len(stream'.parts)
    BY ONLY <1>1, <2>2, <2>8, <2>9, <2>10
  <2>14. AnnexKept'
    <3> HIDE DEF z
    <3> QED
      BY ONLY <2>13 DEF AnnexKept
  <2>15. given' \in 0..Len(AllBytes(stream'))
    BY ONLY <1>1, <2>2
  <2>16. torn' = FALSE => lost' = FALSE
    BY ONLY <2>10, <2>11
  <2> QED
    BY ONLY <2>12, <2>14, <2>15, <2>16 DEF AnnexInv
<1> QED
  BY <1>5, <1>6 DEF ParserNext

\* It begins so.
LEMMA AnnexStart ==
  ASSUME ParserInit
  PROVE  AnnexInv
<1> SUFFICES ASSUME stream.format \in H26x PROVE AnnexInv
  BY DEF AnnexInv
<1> DEFINE s == stream
           N == Len(s.parts)
           A == Heard(s, 0, 0)
           S == Shown(s, 0)
<1>1. /\ s \in Streams /\ s.format \in H26x /\ given = 0 /\ torn = FALSE /\ lost = FALSE /\ buffer = <<>>
      /\ sps = <<>> /\ pps = <<>> /\ frames = <<>>
  BY DEF ParserInit
<1>2. Grows(s) /\ IsStream(s)
  BY <1>1, NalGrows, NalStream
<1>3. N \in Nat /\ Ends(s, 0) = 0 /\ Len(AllBytes(s)) \in Nat /\ DOMAIN s.parts = 1..N
  BY <1>2 DEF Grows
<1>4. 0 \in 0..N /\ 0 \in 0..Len(AllBytes(s)) /\ 0 \in Ends(s, 0)..Len(AllBytes(s))
  BY <1>3
<1>5. Unused(s, 0, 0) = <<>>
  <2>1. Unused(s, 0, 0) \in Seq(Nat) /\ Len(Unused(s, 0, 0)) = 0 - Ends(s, 0)
    BY ONLY <1>2, <1>4, UnusedIs
  <2> QED
    BY ONLY <1>3, <2>1
<1>6. A = {}
  <2>1. \A i \in A : i > 0 /\ Ends(s, i - 1) + s.parts[i].code + 1 <= 0 /\ i \in 0 + 1..N
    BY <1>1, <1>4, HeardHolds DEF Heard, HeardOf
  <2>2. ASSUME NEW i \in A
        PROVE  FALSE
    <3>1. i \in 1..N /\ i - 1 \in 0..N
      <4>1. i \in 0 + 1..N
        BY ONLY <2>1
      <4> HIDE DEF N
      <4> QED
        BY ONLY <1>3, <4>1
    <3> DEFINE x == Ends(s, i - 1)
               d == s.parts[i].code
    <3>2. x \in Nat /\ d \in {3, 4} /\ x + d + 1 <= 0
      <4>1. x \in Nat /\ d \in {3, 4}
        BY ONLY <1>2, <3>1 DEF Grows, N
      <4> QED
        BY ONLY <2>1, <4>1
    <3> HIDE DEF x, d
    <3> QED
      BY ONLY <3>2
  <2> QED
    BY ONLY <2>2
<1>7. Cardinality(A) < 2
  BY ONLY <1>6, FS_EmptySet
<1>8. S = {}
  <2>1. \A i \in S : i \in 1..N /\ i <= 0
    BY ONLY <1>3 DEF Shown, Delimiters
  <2> HIDE DEF S, N
  <2>2. \A i \in 1..N : ~(i <= 0)
    BY ONLY <1>3
  <2> QED
    BY ONLY <2>1, <2>2
<1>9. InOrder(S) = <<>>
  <2>1. Cardinality(S) = 0
    BY ONLY <1>8, FS_EmptySet
  <2> HIDE DEF S
  <2> QED
    BY ONLY <2>1 DEF InOrder
<1>10. Are(s, InOrder(S), <<>>) /\ \A d : AllDescribed(<<>>, Len(InOrder(S)), d)
  <2> HIDE DEF S
  <2>1. Len(InOrder(S)) = 0
    BY ONLY <1>9
  <2> QED
    BY ONLY <2>1 DEF Are, AllDescribed, FirstOf
<1>11. Keeps(s, 0, given, buffer, frames)
  BY ONLY <1>1, <1>4, <1>5, <1>7, <1>10 DEF Keeps, N, A, S
<1>12. SetsKept(s, 0, sps, pps, frames)
  BY ONLY <1>1, <1>10 DEF SetsKept, S
<1>13. AnnexKept
  BY ONLY <1>4, <1>11, <1>12 DEF AnnexKept, N
<1> QED
  BY ONLY <1>1, <1>4, <1>13 DEF AnnexInv

\* What is kept is the first of the pictures, and at the end all of them.
LEMMA ShownAre ==
  ASSUME NEW s \in Streams, s.format \in H26x, NEW k, NEW g, NEW b, NEW o, Keeps(s, k, g, b, o)
  PROVE  /\ Shown(s, k) \in SUBSET AllShown(s) /\ Shown(s, k) \in SUBSET (1..k)
         /\ AllShown(s) \ Shown(s, k) \in SUBSET (k + 1..Len(s.parts))
         /\ \A i \in Shown(s, k) : i \in Delimiters(s) /\ \E m : IsAccess(s, i, m)
         /\ g = Len(AllBytes(s)) => AllShown(s) \ Shown(s, k) = {}
<1> DEFINE N == Len(s.parts)
           D == Delimiters(s)
           m == Max(D)
           V == {i \in D : Holds(s, i, Vcls(s.format))}
           S == Shown(s, k)
           T == AllShown(s)
           e(i) == Ends(s, i)
<1>1. Grows(s)
  BY NalGrows
<1>2. N \in Nat /\ DOMAIN s.parts = 1..N
  BY <1>1 DEF Grows
<1>3. D \in SUBSET (1..N) /\ D \in SUBSET (0..N) /\ IsFiniteSet(D)
  <2>1. D \in SUBSET (1..N)
    BY <1>2 DEF Delimiters
  <2> QED
    BY <1>2, <2>1, HeardIsFinite
<1>4. D # {} => m \in D /\ \A x \in D : x <= m
  <2> HIDE DEF D, N
  <2> QED
    BY ONLY <1>2, <1>3, MaxIs DEF m
<1>5. k \in 0..N /\ (k = 0 \/ k + 1 \in D) /\ Cardinality(Heard(s, k, g)) < 2
  BY DEF Keeps
<1>6. /\ S = {i \in V : i <= k} /\ T = {i \in V : i # m} /\ V \in SUBSET D
  BY DEF Shown, AllShown
<1> HIDE DEF V, S, T, m
<1>7. ASSUME NEW i \in S
      PROVE  i \in T /\ i \in 1..k /\ k + 1 \in D /\ i < k + 1 /\ i \in D
  <2>1. i \in V /\ i \in D /\ i \in 1..N /\ i <= k
    BY ONLY <1>3, <1>6, <1>7
  <2> HIDE DEF D, N
  <2>2. k + 1 \in D /\ i < k + 1 /\ i \in 1..k
    BY ONLY <1>2, <1>5, <2>1
  <2>3. k + 1 <= m /\ m \in D
    BY ONLY <1>4, <2>2
  <2>4. i # m
    BY ONLY <1>2, <1>3, <1>5, <2>1, <2>2, <2>3
  <2> QED
    BY ONLY <1>6, <2>1, <2>2, <2>4
<1>8. ASSUME NEW i \in T \ S
      PROVE  i \in k + 1..N /\ i \in D /\ i # m
  <2>1. i \in V /\ i # m /\ ~(i <= k) /\ i \in D /\ i \in 1..N
    BY ONLY <1>3, <1>6, <1>8
  <2> HIDE DEF D, N
  <2> QED
    BY ONLY <1>2, <1>5, <2>1
<1>9. ASSUME NEW i \in S
      PROVE  i \in D /\ \E x : IsAccess(s, i, x)
  <2>1. k + 1 \in D /\ i < k + 1 /\ i \in D
    BY ONLY <1>7, <1>9
  <2>2. IsAccess(s, i, NextOne(s, i))
    BY <2>1, AccessIs
  <2> QED
    BY ONLY <2>1, <2>2
<1>10. ASSUME g = Len(AllBytes(s)), NEW i \in T \ S
       PROVE  FALSE
  <2> DEFINE A == Heard(s, k, g)
  <2>1. i \in k + 1..N /\ i \in D /\ i # m
    BY ONLY <1>8, <1>10
  <2>2. m \in D /\ i <= m
    BY ONLY <1>4, <2>1
  <2>3. m \in k + 1..N
    <3> HIDE DEF D, N
    <3> QED
      BY ONLY <1>2, <1>3, <1>5, <2>1, <2>2
  <2>4. ASSUME NEW x \in k + 1..N, x \in D
        PROVE  x \in A
    <3>1. x \in 1..N /\ x \in 0..N /\ N \in 0..N /\ x <= N
      <4> HIDE DEF D, N
      <4> QED
        BY ONLY <1>2, <1>3, <2>4
    <3> DEFINE a == e(x - 1)
               d == s.parts[x].code
               l == Len(s.parts[x].unit)
               z == e(x)
               w == Len(AllBytes(s))
    <3>2. a + d + 1 <= g
      <4>1. z <= e(N)
        BY ONLY <1>1, <3>1 DEF Grows, N
      <4>2. e(N) = w /\ w \in Nat
        BY ONLY <1>1, <3>1 DEF Grows, N
      <4>3. d \in {3, 4} /\ l \in Nat \ {0} /\ z = a + d + l
        BY ONLY <1>1, <3>1 DEF Grows, N
      <4>4. a \in Nat
        <5>1. x - 1 \in 0..N
          <6> HIDE DEF N
          <6> QED
            BY ONLY <1>2, <3>1
        <5> QED
          BY ONLY <1>1, <5>1 DEF Grows, N
      <4>5. z <= w /\ g = w
        BY ONLY <1>10, <4>1, <4>2
      <4> HIDE DEF a, d, l, z, w
      <4> QED
        BY ONLY <4>2, <4>3, <4>4, <4>5
    <3>3. TypeOf(s, x) \in Auds(s.format)
      BY ONLY <2>4 DEF Delimiters
    <3> QED
      BY ONLY <2>4, <3>2, <3>3 DEF Heard, HeardOf, N
  <2>5. i \in A /\ m \in A
    BY ONLY <2>1, <2>2, <2>3, <2>4
  <2>6. IsFiniteSet(A)
    <3>1. A \in SUBSET D
      BY HeardHolds DEF Keeps
    <3> HIDE DEF A, D
    <3> QED
      BY ONLY <1>3, <3>1, FS_Subset
  <2> HIDE DEF A
  <2>7. Cardinality(A) \in Nat /\ Cardinality(A) >= 2
    BY ONLY <2>1, <2>5, <2>6, TwoCount
  <2> QED
    BY ONLY <1>5, <2>7 DEF A
<1>11. S \in SUBSET T /\ S \in SUBSET (1..k)
  <2> HIDE DEF D
  <2> QED
    BY ONLY <1>7
<1>12. T \ S \in SUBSET (k + 1..N)
  <2> HIDE DEF D, N
  <2> QED
    BY ONLY <1>8
<1>13. g = Len(AllBytes(s)) => T \ S = {}
  BY ONLY <1>10
<1> QED
  BY ONLY <1>9, <1>11, <1>12, <1>13 DEF S, T, N, D

\* Of H.264 and H.265, what is returned is what was meant.
LEMMA AnnexCuts ==
  ASSUME stream \in Streams, stream.format \in H26x, AnnexInv
  PROVE  CutsDoNotMatter
<1> DEFINE s == stream
           f == s.format
           N == Len(s.parts)
           got == [k \in DOMAIN frames |->
                    [data |-> frames[k].data, key |-> frames[k].key, track |-> MediaPayload(stream.format, frames[k].data)]]
<1>1. (torn = FALSE => lost = FALSE) /\ torn \in BOOLEAN /\ AnnexKept
  BY DEF AnnexInv
<1>2. lost => torn
  BY ONLY <1>1
<1>3. PICK k \in 0..N : Keeps(s, k, given, buffer, frames)
  BY <1>1 DEF AnnexKept
<1> DEFINE S == Shown(s, k)
           T == AllShown(s)
           R == T \ S
           q == InOrder(S)
           r == InOrder(R)
           v == InOrder(T)
           a == Len(q)
           b == Len(r)
           M == Meant(s)
           P(i) == Picture(s, i)
<1>4. /\ S \in SUBSET T /\ S \in SUBSET (1..k) /\ R \in SUBSET (k + 1..N)
      /\ \A i \in S : i \in Delimiters(s) /\ \E m : IsAccess(s, i, m)
      /\ given = Len(AllBytes(s)) => R = {}
  BY <1>3, ShownAre
<1>5. N \in Nat
  BY NalGrows DEF Grows
<1>6. q \in Seq(S) /\ r \in Seq(R) /\ Meets(S, R)
  <2> HIDE DEF S, R, T, N
  <2> QED
    BY ONLY <1>3, <1>4, <1>5, InOrderMeets DEF q, r
<1>7. v = q \o r
  <2>1. S \cup R = T
    <3> HIDE DEF S, T
    <3> QED
      BY ONLY <1>4
  <2> QED
    BY ONLY <1>6, <2>1 DEF Meets
<1>8. M = [x \in DOMAIN v |-> P(v[x])]
  <2>1. M = MeantPictures(s)
    BY DEF Meant, H26x
  <2> QED
    BY ONLY <2>1, MeantPicturesAre
<1>9. frames = FirstOf(frames, a) /\ \A x \in 1..a : frames[x].data = P(q[x]).data /\ frames[x].key = P(q[x]).key
  BY <1>3 DEF Keeps, Are
<1>10. \A x \in 1..a : q[x] \in S
  BY ONLY <1>6
<1>11. \A i \in S : MediaPayload(f, P(i).data) = P(i).track
  <2> TAKE i \in S
  <2>1. i \in Delimiters(s) /\ \E m : IsAccess(s, i, m)
    BY ONLY <1>4
  <2>2. PICK m : IsAccess(s, i, m)
    BY ONLY <2>1
  <2> QED
    BY <2>1, <2>2, TrackIs
<1>12. a \in Nat /\ b \in Nat
  BY ONLY <1>6
<1>13. \A i : P(i) = [data |-> P(i).data, key |-> P(i).key, track |-> P(i).track]
  BY DEF Picture
<1> HIDE DEF P, S, R, T, q, r, v, f, M
<1>14. got = [x \in 1..a |-> P(q[x])]
  <2>1. DOMAIN frames = 1..a
    BY ONLY <1>9 DEF FirstOf
  <2>2. ASSUME NEW x \in 1..a
        PROVE  [data |-> frames[x].data, key |-> frames[x].key, track |-> MediaPayload(f, frames[x].data)] = P(q[x])
    <3> DEFINE i == q[x]
    <3>1. i \in S /\ frames[x].data = P(i).data /\ frames[x].key = P(i).key
      BY ONLY <1>9, <1>10, <2>2
    <3> HIDE DEF i
    <3>2. MediaPayload(f, frames[x].data) = P(i).track
      BY ONLY <1>11, <3>1
    <3>3. [data |-> frames[x].data, key |-> frames[x].key, track |-> MediaPayload(f, frames[x].data)]
            = [data |-> P(i).data, key |-> P(i).key, track |-> P(i).track]
      BY ONLY <3>1, <3>2
    <3> QED
      BY ONLY <1>13, <3>3 DEF i
  <2> QED
    BY ONLY <2>1, <2>2 DEF f
<1>15. DOMAIN v = 1..a + b /\ \A x \in 1..a : v[x] = q[x]
  <2>1. q = FirstOf(q, a) /\ r = FirstOf(r, b)
    BY ONLY <1>6 DEF FirstOf
  <2> HIDE DEF a, b
  <2>2. Joined(q, r, a, b)
    BY ONLY <1>12, <2>1, JoinAny
  <2> QED
    BY ONLY <1>7, <2>2 DEF Joined, FirstOf
<1> HIDE DEF a, b, got
<1>16. M = [x \in 1..a + b |-> P(v[x])]
  BY ONLY <1>8, <1>15
<1>17. M = FirstOf(M, a + b)
  BY ONLY <1>16 DEF FirstOf
<1>18. got = FirstOf(M, a)
  <2>1. \A x \in 1..a : x \in 1..a + b
    BY ONLY <1>12
  <2>2. \A x \in 1..a : M[x] = P(q[x])
    BY ONLY <1>15, <1>16, <2>1
  <2> QED
    BY ONLY <1>14, <2>2 DEF FirstOf
<1>19. IsPrefix(got, M)
  <2>1. a + b \in Nat /\ a \in 0..a + b
    BY ONLY <1>12
  <2> QED
    BY ONLY <1>17, <1>18, <2>1, PrefixOf
<1>20. given = Len(AllBytes(s)) => got = M
  <2> SUFFICES ASSUME given = Len(AllBytes(s))
               PROVE  got = M
    OBVIOUS
  <2>1. R = {}
    BY ONLY <1>4, given = Len(AllBytes(s))
  <2>2. b = 0
    <3>1. Cardinality(R) = 0
      BY ONLY <2>1, FS_EmptySet
    <3>2. r = <<>>
      BY ONLY <3>1 DEF r, InOrder
    <3> QED
      BY ONLY <3>2 DEF b
  <2>3. a + b = a
    BY ONLY <1>12, <2>2
  <2> QED
    BY ONLY <1>17, <1>18, <2>3
<1> QED
  BY ONLY <1>2, <1>19, <1>20 DEF CutsDoNotMatter, got, M

\* Of H.264, it is described by whole parameter sets.
LEMMA AnnexSets ==
  ASSUME stream \in Streams, stream.format \in H26x, AnnexInv
  PROVE  SetsAreWhole
<1> SUFFICES ASSUME stream.format = "h264", torn = FALSE
             PROVE  SetsAreWhole
  BY DEF SetsAreWhole, AnnexInv
<1> DEFINE s == stream
           N == Len(s.parts)
           d == <<s.parts[2].unit, s.parts[3].unit>>
<1>1. PICK k \in 0..N : Keeps(s, k, given, buffer, frames) /\ SetsKept(s, k, sps, pps, frames)
  BY DEF AnnexInv, AnnexKept
<1> DEFINE q == InOrder(Shown(s, k))
<1>2. frames = FirstOf(frames, Len(q))
  BY <1>1 DEF Keeps, Are
<1>3. \A x \in 1..Len(q) : frames[x].description = d
  BY <1>1 DEF SetsKept, AllDescribed
<1>4. DOMAIN frames = 1..Len(q)
  BY ONLY <1>2 DEF FirstOf
<1> QED
  BY ONLY <1>3, <1>4 DEF SetsAreWhole

-----------------------------------------------------------------------------
(* All parsers.                                                            *)

\* What is known of the parsers, whichever of them reads.
ParserInv == stream \in Streams /\ IvfInv /\ AdtsInv /\ OggInv /\ AnnexInv

\* It holds before the first read.
LEMMA ParserInitIsGood == ParserInit => ParserInv
BY FramedStart, AnnexStart DEF ParserInv, ParserInit

\* And after each read, whichever of the formats the stream is of.
LEMMA ParserStepIsGood == ParserInv /\ [ParserNext]_parserVars => ParserInv'
<1> SUFFICES ASSUME ParserInv, [ParserNext]_parserVars
             PROVE  ParserInv'
  OBVIOUS
<1>1. stream' \in Streams
  BY DEF ParserInv, ParserNext, ReadPipe, parserVars
<1>2. stream \in Streams /\ IvfInv /\ AdtsInv /\ OggInv /\ AnnexInv
  BY DEF ParserInv
<1>3. IvfInv' /\ AdtsInv'
  BY <1>2, IvfStep, AdtsStep
<1>4. OggInv' /\ AnnexInv'
  BY <1>2, OggStep, AnnexStep
<1> QED
  BY <1>1, <1>3, <1>4 DEF ParserInv

\* However a pipe is cut into reads, they have kept up with it.
THEOREM ParserInvHolds == ParserSpec => []ParserInv
BY ParserInitIsGood, ParserStepIsGood, PTL DEF ParserSpec

\* A stream is of one of five formats.
LEMMA FormatIs ==
  ASSUME NEW s \in Streams
  PROVE  s.format \in H26x \cup {"ivf", "adts", "ogg"}
BY StreamsAssumption

\* It says that what was returned is what was meant.
LEMMA ParserInvSays == ParserInv => CutsDoNotMatter /\ SetsAreWhole
<1> SUFFICES ASSUME ParserInv
             PROVE  CutsDoNotMatter /\ SetsAreWhole
  OBVIOUS
<1>1. stream \in Streams /\ IvfInv /\ AdtsInv /\ OggInv /\ AnnexInv
  BY DEF ParserInv
<1>2. stream.format \in H26x \cup {"ivf", "adts", "ogg"}
  BY <1>1, FormatIs
<1>3. CutsDoNotMatter
  BY <1>1, <1>2, IvfCuts, AdtsCuts, OggCuts, AnnexCuts
<1>4. CASE stream.format \in H26x
  BY <1>1, <1>3, <1>4, AnnexSets
<1>5. CASE stream.format \notin H26x
  BY <1>3, <1>5 DEF SetsAreWhole, H26x
<1> QED
  BY <1>4, <1>5

\* However the pipe is cut into reads, what the parsers return is what the program means,
\* frame by frame and all of it in the end, for the viewers and for a media track; and a
\* parser fails or hangs only after a read that has torn a parameter set or a sync word.
THEOREM CutsDoNotMatterHolds == ParserSpec => []CutsDoNotMatter
BY ParserInvHolds, ParserInvSays, PTL

\* Where no read has ended in a parameter set, each frame of H.264 is described by the two
\* sets of its stream, whole (capture_headers, avcc_from_sps_pps).
THEOREM SetsAreWholeHolds == ParserSpec => []SetsAreWhole
BY ParserInvHolds, ParserInvSays, PTL
=============================================================================
