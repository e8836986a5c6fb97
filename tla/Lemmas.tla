------------------------------- MODULE Lemmas -------------------------------
(***************************************************************************)
(* What the proofs need to know of numbers: induction over the natural      *)
(* numbers in a form without operators (a set is closed), functions defined *)
(* by recursion, powers of two, quotients and remainders, and numbers that  *)
(* are congruent; and of sequences: what FlattenSeq makes of a sequence of  *)
(* sequences, and what is left of one without its first elements.           *)
(***************************************************************************)
EXTENDS Binary, SequencesExt, WellFoundedInduction, SequenceTheorems, TLAPS

(* A set of natural numbers that is not empty has a least element.          *)
LEMMA LeastNumber ==
  ASSUME NEW T \in SUBSET Nat, T # {}
  PROVE  \E n \in T : \A k \in T : n <= k
<1> DEFINE R == {ss \in Nat \X Nat : ss[1] < ss[2]}
<1>1. IsWellFoundedOn(R, Nat)
  BY NatLessThanWellFounded DEF OpToRel
<1>2. \A a, b \in Nat : a < b => <<a, b>> \in R
  OBVIOUS
<1> HIDE DEF R
<1>3. PICK n \in T : \A k \in T : ~(<<k, n>> \in R)
  BY <1>1, WFMin
<1>4. \A k \in T : ~(k < n)
  BY <1>2, <1>3
<1> QED
  BY <1>4

(* Induction: a set that has zero and every successor has them all.         *)
LEMMA SetInduction ==
  ASSUME NEW S, 0 \in S, \A n \in Nat : n \in S => n + 1 \in S
  PROVE  Nat \subseteq S
<1> SUFFICES ASSUME Nat \ S # {}
             PROVE  FALSE
  OBVIOUS
<1>1. PICK n \in Nat \ S : \A k \in Nat \ S : n <= k
  BY LeastNumber
<1>2. n - 1 \in Nat /\ n - 1 \notin Nat \ S
  BY <1>1
<1> QED
  BY <1>1, <1>2

(* The same up to a bound.                                                  *)
LEMMA BoundedInduction ==
  ASSUME NEW m \in Nat, NEW S, 0 \in S,
         \A n \in 0..(m - 1) : n \in S => n + 1 \in S
  PROVE  0..m \subseteq S
<1> DEFINE T == S \cup {n \in Nat : n > m}
<1>1. 0 \in T
  OBVIOUS
<1>2. ASSUME NEW n \in Nat, n \in T
      PROVE  n + 1 \in T
  BY <1>2
<1>3. Nat \subseteq T
  <2> HIDE DEF T
  <2> QED
    BY <1>1, <1>2, SetInduction
<1> QED
  BY <1>3

-----------------------------------------------------------------------------
(* Functions defined by recursion. *)

(* The beginning, up to n, of a function that starts at first and goes on   *)
(* by step.                                                                 *)
Beginning(g, n, first, step) ==
  /\ g[0] = first
  /\ \A k \in 0..(n - 1) : g[k + 1] = step[<<k, g[k]>>]

LEMMA BeginningUnique ==
  ASSUME NEW first, NEW step, NEW n \in Nat, NEW m \in Nat, NEW g, NEW h,
         Beginning(g, n, first, step), Beginning(h, m, first, step)
  PROVE  \A k \in Nat : k <= n /\ k <= m => g[k] = h[k]
<1> DEFINE S == {k \in Nat : k <= n /\ k <= m => g[k] = h[k]}
<1>1. 0 \in S
  BY DEF Beginning
<1>2. ASSUME NEW k \in Nat, k \in S
      PROVE  k + 1 \in S
  <2> SUFFICES ASSUME k + 1 <= n, k + 1 <= m
               PROVE  g[k + 1] = h[k + 1]
    OBVIOUS
  <2>1. g[k] = h[k] /\ k \in 0..(n - 1) /\ k \in 0..(m - 1)
    BY <1>2
  <2> QED
    BY <2>1 DEF Beginning
<1>3. Nat \subseteq S
  <2> HIDE DEF S
  <2> QED
    BY <1>1, <1>2, SetInduction
<1> QED
  BY <1>3

LEMMA BeginningExists ==
  ASSUME NEW V, NEW first \in V, NEW step \in [Nat \X V -> V]
  PROVE  \A n \in Nat : \E g \in [0..n -> V] : Beginning(g, n, first, step)
<1> DEFINE S == {n \in Nat : \E g \in [0..n -> V] : Beginning(g, n, first, step)}
<1>1. 0 \in S
  <2>1. [k \in 0..0 |-> first] \in [0..0 -> V]
    OBVIOUS
  <2>2. Beginning([k \in 0..0 |-> first], 0, first, step)
    BY DEF Beginning
  <2> QED
    BY <2>1, <2>2
<1>2. ASSUME NEW n \in Nat, n \in S
      PROVE  n + 1 \in S
  <2>1. PICK g \in [0..n -> V] : Beginning(g, n, first, step)
    BY <1>2
  <2> DEFINE h == [k \in 0..(n + 1) |-> IF k <= n THEN g[k] ELSE step[<<n, g[n]>>]]
  <2>2. g[n] \in V /\ step[<<n, g[n]>>] \in V
    BY <2>1
  <2>3. h \in [0..(n + 1) -> V]
    BY <2>1, <2>2
  <2>4. h[0] = first
    BY <2>1 DEF Beginning
  <2>5. ASSUME NEW k \in 0..n
        PROVE  h[k + 1] = step[<<k, h[k]>>]
    <3>1. CASE k < n
      BY <2>1, <3>1 DEF Beginning
    <3>2. CASE k = n
      BY <2>1, <3>2
    <3> QED
      BY <3>1, <3>2
  <2>6. 0..((n + 1) - 1) = 0..n
    OBVIOUS
  <2>7. Beginning(h, n + 1, first, step)
    <3> HIDE DEF h
    <3> QED
      BY <2>4, <2>5, <2>6 DEF Beginning
  <2> QED
    BY <2>3, <2>7
<1>3. Nat \subseteq S
  <2> HIDE DEF S
  <2> QED
    BY <1>1, <1>2, SetInduction
<1> QED
  BY <1>3

(* A first value and a step determine a function on the natural numbers.    *)
IsStep(step, V) == step \in [Nat \X V -> V]
Follows(f, V, first, step) ==
  /\ f \in [Nat -> V]
  /\ f[0] = first
  /\ \A n \in Nat : f[n + 1] = step[<<n, f[n]>>]

LEMMA Recursion ==
  ASSUME NEW V, NEW first, NEW step, first \in V, IsStep(step, V)
  PROVE  \E f : Follows(f, V, first, step)
<1> USE DEF IsStep
<1> DEFINE Begins(n, g) == g \in [0..n -> V] /\ Beginning(g, n, first, step)
           f == [n \in Nat |-> (CHOOSE g : Begins(n, g))[n]]
<1>1. ASSUME NEW n \in Nat
      PROVE  Begins(n, CHOOSE g : Begins(n, g))
  <2>1. \E g : Begins(n, g)
    BY BeginningExists
  <2> HIDE DEF Begins
  <2> QED
    BY <2>1
<1>2. ASSUME NEW n \in Nat, NEW g, Begins(n, g)
      PROVE  f[n] = g[n]
  <2>1. Begins(n, CHOOSE h : Begins(n, h))
    BY <1>1
  <2> DEFINE c == CHOOSE h : Begins(n, h)
  <2>2. f[n] = c[n]
    OBVIOUS
  <2> HIDE DEF c
  <2>3. Begins(n, c)
    BY <2>1 DEF c
  <2> QED
    BY <1>2, <2>2, <2>3, BeginningUnique
<1>3. ASSUME NEW n \in Nat
      PROVE  f[n] \in V /\ f[n + 1] = step[<<n, f[n]>>]
  <2> DEFINE h == CHOOSE g : Begins(n + 1, g)
  <2>1. Begins(n + 1, h)
    <3>1. n + 1 \in Nat
      OBVIOUS
    <3> HIDE DEF Begins
    <3> QED
      BY <1>1, <3>1
  <2> HIDE DEF h
  <2>2. [k \in 0..n |-> h[k]] \in [0..n -> V]
    BY <2>1
  <2>3. Beginning([k \in 0..n |-> h[k]], n, first, step)
    BY <2>1 DEF Beginning
  <2>4. f[n] = h[n]
    BY <1>2, <2>2, <2>3
  <2>5. f[n + 1] = h[n + 1]
    BY <1>2, <2>1
  <2>6. h[n + 1] = step[<<n, h[n]>>] /\ h[n] \in V
    BY <2>1 DEF Beginning
  <2> QED
    BY <2>4, <2>5, <2>6
<1>4. f[0] = first
  <2> DEFINE h == CHOOSE g : Begins(0, g)
  <2>1. Begins(0, h)
    BY <1>1
  <2>2. f[0] = h[0]
    OBVIOUS
  <2> HIDE DEF h
  <2> QED
    BY <2>1, <2>2 DEF Beginning
<1>5. f \in [Nat -> V]
  BY <1>3
<1> HIDE DEF f
<1> QED
  BY <1>3, <1>4, <1>5 DEF Follows

-----------------------------------------------------------------------------
(* Powers of two. *)

LEMMA PowersOfTwo ==
  /\ Pow2 \in [Nat -> Nat \ {0}]
  /\ Pow2[0] = 1
  /\ \A n \in Nat : Pow2[n + 1] = 2 * Pow2[n]
<1> DEFINE V == Nat \ {0}
           step == [q \in Nat \X V |-> 2 * q[2]]
           Recurs(f) == f = [n \in Nat |-> IF n = 0 THEN 1 ELSE 2 * f[n - 1]]
<1>1. IsStep(step, V) /\ 1 \in V
  BY DEF IsStep
<1>2. PICK f : Follows(f, V, 1, step)
  <2> HIDE DEF step, V
  <2> QED
    BY <1>1, Recursion
<1>3. /\ f \in [Nat -> V]
      /\ f[0] = 1
      /\ \A n \in Nat : f[n + 1] = 2 * f[n]
  BY <1>2 DEF Follows
<1>4. Recurs(f)
  <2>1. ASSUME NEW n \in Nat, n # 0
        PROVE  f[n] = 2 * f[n - 1]
    <3>1. n - 1 \in Nat /\ (n - 1) + 1 = n
      BY <2>1
    <3> QED
      BY <1>3, <3>1
  <2> QED
    BY <1>3, <2>1
<1>5. Recurs(Pow2)
  <2> HIDE DEF Recurs
  <2>1. Recurs(CHOOSE g : Recurs(g))
    BY <1>4
  <2>2. Pow2 = CHOOSE g : Recurs(g)
    BY DEF Pow2, Recurs
  <2> QED
    BY <2>1, <2>2
<1>6. /\ Pow2[0] = 1
      /\ \A n \in Nat : Pow2[n + 1] = 2 * Pow2[n]
  <2> HIDE DEF Recurs
  <2>1. \A n \in Nat : Pow2[n] = IF n = 0 THEN 1 ELSE 2 * Pow2[n - 1]
    BY <1>5 DEF Recurs
  <2>2. ASSUME NEW n \in Nat
        PROVE  Pow2[n + 1] = 2 * Pow2[n]
    <3>1. n + 1 \in Nat /\ n + 1 # 0 /\ (n + 1) - 1 = n
      OBVIOUS
    <3> QED
      BY <2>1, <3>1
  <2> QED
    BY <2>1, <2>2
<1>7. \A n \in Nat : Pow2[n] \in Nat \ {0}
  <2> DEFINE S == {n \in Nat : Pow2[n] \in Nat \ {0}}
  <2>1. 0 \in S
    BY <1>6
  <2>2. ASSUME NEW n \in Nat, n \in S
        PROVE  n + 1 \in S
    BY <1>6, <2>2
  <2>3. Nat \subseteq S
    <3> HIDE DEF S
    <3> QED
      BY <2>1, <2>2, SetInduction
  <2> QED
    BY <2>3
<1>8. Pow2 = [n \in Nat |-> Pow2[n]]
  BY <1>5
<1> HIDE DEF Recurs
<1> QED
  BY <1>6, <1>7, <1>8

(* The product of two powers. *)
LEMMA PowerSum ==
  ASSUME NEW i \in Nat
  PROVE  \A j \in Nat : Pow2[i + j] = Pow2[i] * Pow2[j]
<1> DEFINE S == {j \in Nat : Pow2[i + j] = Pow2[i] * Pow2[j]}
<1>1. 0 \in S
  <2>1. i + 0 = i /\ Pow2[i] \in Nat /\ Pow2[0] = 1
    BY PowersOfTwo
  <2> QED
    BY <2>1
<1>2. ASSUME NEW j \in Nat, j \in S
      PROVE  j + 1 \in S
  <2>1. i + j \in Nat /\ i + (j + 1) = (i + j) + 1
    OBVIOUS
  <2>2. Pow2[i + (j + 1)] = 2 * Pow2[i + j] /\ Pow2[j + 1] = 2 * Pow2[j]
    BY <2>1, PowersOfTwo
  <2>3. Pow2[i] \in Nat /\ Pow2[j] \in Nat /\ Pow2[i + j] = Pow2[i] * Pow2[j]
    BY <1>2, PowersOfTwo
  <2>4. Pow2[i + (j + 1)] = Pow2[i] * (2 * Pow2[j])
    BY <2>2, <2>3
  <2> QED
    BY <2>2, <2>4
<1>3. Nat \subseteq S
  <2> HIDE DEF S
  <2> QED
    BY <1>1, <1>2, SetInduction
<1> QED
  BY <1>3

(* A smaller power divides a greater one. *)
LEMMA PowerDivides ==
  ASSUME NEW m \in Nat, NEW i \in 0..m
  PROVE  Pow2[m] = Pow2[i] * Pow2[m - i] /\ Pow2[i] \in Nat \ {0} /\ Pow2[m - i] \in Nat \ {0}
<1>1. m - i \in Nat /\ i + (m - i) = m /\ i \in Nat
  OBVIOUS
<1>2. Pow2[i + (m - i)] = Pow2[i] * Pow2[m - i]
  BY <1>1, PowerSum
<1> QED
  BY <1>1, <1>2, PowersOfTwo

-----------------------------------------------------------------------------
(* Quotients and remainders. *)

LEMMA DivisionUnique ==
  ASSUME NEW a \in Int, NEW n \in Nat \ {0}, NEW q \in Int, NEW r \in 0..(n - 1),
         a = q * n + r
  PROVE  a \div n = q /\ a % n = r
  BY SMT

LEMMA Division ==
  ASSUME NEW a \in Int, NEW n \in Nat \ {0}
  PROVE  /\ a \div n \in Int
         /\ a % n \in 0..(n - 1)
         /\ a = (a \div n) * n + (a % n)
  BY SMT

(* Numbers a multiple of n apart.                                           *)
Congruent(a, b, n) == \E k \in Int : a = b + k * n

LEMMA CongruentRefl ==
  ASSUME NEW a \in Int, NEW n \in Int
  PROVE  Congruent(a, a, n)
<1>1. a = a + 0 * n
  OBVIOUS
<1> QED
  BY <1>1 DEF Congruent

LEMMA CongruentSym ==
  ASSUME NEW a \in Int, NEW b \in Int, NEW n \in Int, Congruent(a, b, n)
  PROVE  Congruent(b, a, n)
<1>1. PICK k \in Int : a = b + k * n
  BY DEF Congruent
<1>2. b = a + (-k) * n
  BY <1>1
<1> QED
  BY <1>2 DEF Congruent

LEMMA CongruentTrans ==
  ASSUME NEW a \in Int, NEW b \in Int, NEW c \in Int, NEW n \in Int,
         Congruent(a, b, n), Congruent(b, c, n)
  PROVE  Congruent(a, c, n)
<1>1. PICK k \in Int : a = b + k * n
  BY DEF Congruent
<1>2. PICK m \in Int : b = c + m * n
  BY DEF Congruent
<1>3. a = c + (k + m) * n /\ k + m \in Int
  BY <1>1, <1>2
<1> QED
  BY <1>3 DEF Congruent

LEMMA CongruentSum ==
  ASSUME NEW a \in Int, NEW b \in Int, NEW c \in Int, NEW d \in Int, NEW n \in Int,
         Congruent(a, b, n), Congruent(c, d, n)
  PROVE  Congruent(a + c, b + d, n) /\ Congruent(a - c, b - d, n)
<1>1. PICK k \in Int : a = b + k * n
  BY DEF Congruent
<1>2. PICK m \in Int : c = d + m * n
  BY DEF Congruent
<1>3. a + c = (b + d) + (k + m) * n /\ k + m \in Int
  BY <1>1, <1>2
<1>4. a - c = (b - d) + (k - m) * n /\ k - m \in Int
  BY <1>1, <1>2
<1> QED
  BY <1>3, <1>4 DEF Congruent

LEMMA CongruentProduct ==
  ASSUME NEW a \in Int, NEW b \in Int, NEW c \in Int, NEW d \in Int, NEW n \in Int,
         Congruent(a, b, n), Congruent(c, d, n)
  PROVE  Congruent(a * c, b * d, n)
<1>1. PICK k \in Int : a = b + k * n
  BY DEF Congruent
<1>2. PICK m \in Int : c = d + m * n
  BY DEF Congruent
<1>3. a * c = b * d + (b * m + k * d + k * m * n) * n
  BY <1>1, <1>2
<1>4. b * m + k * d + k * m * n \in Int
  OBVIOUS
<1> QED
  BY <1>3, <1>4 DEF Congruent

LEMMA CongruentMod ==
  ASSUME NEW a \in Int, NEW n \in Nat \ {0}
  PROVE  Congruent(a % n, a, n) /\ Congruent(a, a % n, n)
<1>1. a = (a \div n) * n + (a % n) /\ a \div n \in Int /\ a % n \in Int
  BY Division
<1>2. a = (a % n) + (a \div n) * n
  BY <1>1
<1>3. Congruent(a, a % n, n)
  BY <1>1, <1>2 DEF Congruent
<1> QED
  BY <1>1, <1>3, CongruentSym

(* Congruent numbers have one remainder.                                    *)
LEMMA CongruentEqual ==
  ASSUME NEW a \in Int, NEW b \in Int, NEW n \in Nat \ {0}, Congruent(a, b, n)
  PROVE  a % n = b % n
<1>1. PICK k \in Int : a = b + k * n
  BY DEF Congruent
<1>2. b = (b \div n) * n + (b % n) /\ b \div n \in Int /\ b % n \in 0..(n - 1)
  BY Division
<1>3. a = (k + (b \div n)) * n + (b % n) /\ k + (b \div n) \in Int
  BY <1>1, <1>2
<1> QED
  BY <1>2, <1>3, DivisionUnique

LEMMA SmallRemainder ==
  ASSUME NEW n \in Nat \ {0}, NEW a \in 0..(n - 1)
  PROVE  a % n = a /\ a \div n = 0
  BY SMT

-----------------------------------------------------------------------------
(* Sequences. *)

(* Sequences laid end to end: the beginnings of the result.                 *)
Ends(g, s, S) ==
  /\ g \in [0..Len(s) -> Seq(S)]
  /\ g[0] = <<>>
  /\ \A i \in 0..(Len(s) - 1) : g[i + 1] = g[i] \o s[i + 1]

LEMMA EndsSteps ==
  ASSUME NEW S, NEW s \in Seq(Seq(S)), NEW g, Ends(g, s, S)
  PROVE  /\ Len(s) \in Nat
         /\ g[0] = <<>>
         /\ \A i \in Nat : i <= Len(s) => g[i] \in Seq(S)
         /\ \A i \in Nat : i < Len(s) => s[i + 1] \in Seq(S) /\ g[i + 1] = g[i] \o s[i + 1]
<1>1. Len(s) \in Nat
  OBVIOUS
<1>2. \A i \in Nat : i <= Len(s) => i \in 0..Len(s)
  BY <1>1
<1>3. \A i \in Nat : i < Len(s) => i \in 0..(Len(s) - 1) /\ i + 1 \in 1..Len(s)
  BY <1>1
<1>4. \A i \in 1..Len(s) : s[i] \in Seq(S)
  OBVIOUS
<1> QED
  BY <1>1, <1>2, <1>3, <1>4 DEF Ends

LEMMA EndsExist ==
  ASSUME NEW S, NEW s \in Seq(Seq(S))
  PROVE  \E g : Ends(g, s, S)
<1> DEFINE V == Seq(S)
           n == Len(s)
           first == <<>>
           step == [x \in Nat \X V |-> IF x[1] < n THEN x[2] \o s[x[1] + 1] ELSE x[2]]
<1>1. n \in Nat /\ first \in V
  OBVIOUS
<1>2. step \in [Nat \X V -> V]
  <2>1. ASSUME NEW x \in Nat \X V
        PROVE  (IF x[1] < n THEN x[2] \o s[x[1] + 1] ELSE x[2]) \in V
    <3>1. CASE x[1] < n
      <4>1. s[x[1] + 1] \in V
        BY <3>1
      <4> QED
        BY <3>1, <4>1
    <3>2. CASE ~(x[1] < n)
      BY <3>2
    <3> QED
      BY <3>1, <3>2
  <2> HIDE DEF V, n
  <2> QED
    BY <2>1
<1>3. PICK g \in [0..n -> V] : Beginning(g, n, first, step)
  <2> HIDE DEF V, step, first, n
  <2> QED
    BY <1>1, <1>2, BeginningExists
<1>4. ASSUME NEW i \in 0..(n - 1)
      PROVE  g[i + 1] = g[i] \o s[i + 1]
  <2>1. g[i] \in V /\ <<i, g[i]>> \in Nat \X V /\ i < n
    BY <1>3
  <2>2. g[i + 1] = step[<<i, g[i]>>]
    BY <1>3 DEF Beginning
  <2> HIDE DEF V, n
  <2> QED
    BY <2>1, <2>2
<1>5. g[0] = <<>>
  BY <1>3 DEF Beginning
<1> QED
  BY <1>3, <1>4, <1>5 DEF Ends

LEMMA FlattenEnds ==
  ASSUME NEW S, NEW s \in Seq(Seq(S)), NEW g, Ends(g, s, S)
  PROVE  FlattenSeq(s) = g[Len(s)]
<1>1. CASE Len(s) = 0
  BY <1>1 DEF Ends, FlattenSeq
<1>2. CASE Len(s) # 0
  <2> DEFINE n == Len(s)
             Goes(f) == f = [i \in 1..n |-> IF i = 1 THEN s[i] ELSE f[i - 1] \o s[i]]
             h == [i \in 1..n |-> g[i]]
             f == CHOOSE f : Goes(f)
  <2>1. n \in Nat \ {0}
    BY <1>2
  <2>2. Goes(h)
    <3>1. ASSUME NEW i \in 1..n
          PROVE  g[i] = IF i = 1 THEN s[i] ELSE h[i - 1] \o s[i]
      <4>1. CASE i = 1
        <5>1. 0 < Len(s) /\ 0 \in Nat /\ 0 + 1 = 1
          BY <2>1
        <5>2. g[1] = g[0] \o s[1] /\ g[0] = <<>> /\ s[1] \in Seq(S)
          BY <5>1, EndsSteps
        <5>3. g[1] = s[1]
          BY <5>2
        <5> QED
          BY <4>1, <5>3
      <4>2. CASE i # 1
        <5>1. i - 1 \in 0..(n - 1) /\ i - 1 \in 1..n /\ (i - 1) + 1 = i
          BY <4>2
        <5>2. g[(i - 1) + 1] = g[i - 1] \o s[(i - 1) + 1]
          BY <5>1 DEF Ends
        <5>3. h[i - 1] = g[i - 1]
          BY <5>1
        <5> QED
          BY <4>2, <5>1, <5>2, <5>3
      <4> QED
        BY <4>1, <4>2
    <3> QED
      BY <3>1
  <2>3. Goes(f)
    <3> HIDE DEF Goes, h
    <3> QED
      BY <2>2
  <2>4. FlattenSeq(s) = f[n]
    BY <1>2 DEF FlattenSeq
  <2> DEFINE T == {i \in Nat : i + 1 <= n => f[i + 1] = g[i + 1]}
  <2> HIDE DEF f
  <2>5. 0 \in T
    <3>1. f[1] = s[1]
      BY <2>1, <2>3
    <3>2. 1 \in 1..n
      BY <2>1
    <3>3. h[1] = g[1]
      BY <3>2
    <3>4. h[1] = s[1]
      <4> HIDE DEF h
      <4> QED
        BY <2>2, <3>2
    <3> QED
      BY <3>1, <3>3, <3>4
  <2>6. ASSUME NEW i \in Nat, i \in T
        PROVE  i + 1 \in T
    <3> SUFFICES ASSUME (i + 1) + 1 <= n
                 PROVE  f[(i + 1) + 1] = g[(i + 1) + 1]
      OBVIOUS
    <3>1. i + 1 \in 1..n /\ (i + 1) + 1 \in 1..n /\ i + 1 \in 0..(n - 1)
      BY <2>1
    <3>2. f[i + 1] = g[i + 1]
      BY <2>6, <3>1
    <3>3. f[(i + 1) + 1] = f[i + 1] \o s[(i + 1) + 1]
      <4>1. (i + 1) + 1 # 1 /\ ((i + 1) + 1) - 1 = i + 1
        OBVIOUS
      <4> QED
        BY <2>3, <3>1, <4>1
    <3>4. g[(i + 1) + 1] = g[i + 1] \o s[(i + 1) + 1]
      BY <3>1 DEF Ends
    <3> QED
      BY <3>2, <3>3, <3>4
  <2>7. Nat \subseteq T
    <3> HIDE DEF T
    <3> QED
      BY <2>5, <2>6, SetInduction
  <2>8. n - 1 \in Nat /\ (n - 1) + 1 = n /\ n <= n
    <3> HIDE DEF n
    <3> QED
      BY <2>1
  <2>9. n - 1 \in T
    BY <2>7, <2>8
  <2> QED
    BY <2>4, <2>8, <2>9
<1> QED
  BY <1>1, <1>2

LEMMA FlattenTyped ==
  ASSUME NEW S, NEW s \in Seq(Seq(S))
  PROVE  FlattenSeq(s) \in Seq(S)
<1>1. PICK g : Ends(g, s, S)
  BY EndsExist
<1>2. g[Len(s)] \in Seq(S)
  BY <1>1 DEF Ends
<1> QED
  BY <1>1, <1>2, FlattenEnds

LEMMA FlattenNone ==
  FlattenSeq(<<>>) = <<>>
BY DEF FlattenSeq

LEMMA FlattenConcat ==
  ASSUME NEW S, NEW s \in Seq(Seq(S)), NEW t \in Seq(Seq(S))
  PROVE  FlattenSeq(s \o t) = FlattenSeq(s) \o FlattenSeq(t)
<1>1. s \o t \in Seq(Seq(S)) /\ Len(s \o t) = Len(s) + Len(t)
      /\ Len(s) \in Nat /\ Len(t) \in Nat
  OBVIOUS
<1>2. PICK a : Ends(a, s, S)
  BY EndsExist
<1>3. PICK b : Ends(b, t, S)
  BY EndsExist
<1>4. PICK g : Ends(g, s \o t, S)
  BY <1>1, EndsExist
<1>5. \A i \in 1..Len(s) : (s \o t)[i] = s[i]
  OBVIOUS
<1>6. \A i \in 1..Len(t) : (s \o t)[Len(s) + i] = t[i]
  OBVIOUS
<1> DEFINE A == {i \in Nat : i <= Len(s) => g[i] = a[i]}
           Agrees(i) == i <= Len(t) => g[Len(s) + i] = a[Len(s)] \o b[i]
           B == {i \in Nat : Agrees(i)}
<1>7. Nat \subseteq A
  <2>1. 0 \in A
    BY <1>2, <1>4 DEF Ends
  <2>0. Len(s) <= Len(s \o t)
    BY <1>1
  <2>2. ASSUME NEW i \in Nat, i \in A
        PROVE  i + 1 \in A
    <3> SUFFICES ASSUME i + 1 <= Len(s)
                 PROVE  g[i + 1] = a[i + 1]
      OBVIOUS
    <3>1. i < Len(s) /\ i < Len(s \o t) /\ i + 1 \in 1..Len(s) /\ i <= Len(s)
      BY <1>1
    <3>2. g[i + 1] = g[i] \o (s \o t)[i + 1]
      BY <1>1, <1>4, <3>1, EndsSteps
    <3>3. a[i + 1] = a[i] \o s[i + 1]
      BY <1>2, <3>1, EndsSteps
    <3>4. g[i] = a[i]
      BY <2>2, <3>1
    <3>5. (s \o t)[i + 1] = s[i + 1]
      BY <1>5, <3>1
    <3> HIDE DEF A
    <3> QED
      BY <3>2, <3>3, <3>4, <3>5
  <2> HIDE DEF A
  <2> QED
    BY <2>1, <2>2, SetInduction
<1>8. Nat \subseteq B
  <2>0. a[Len(s)] \in Seq(S)
    <3>1. Len(s) <= Len(s)
      BY <1>1
    <3> QED
      BY <1>1, <1>2, <3>1, EndsSteps
  <2>1. 0 \in B
    <3>1. g[Len(s)] = a[Len(s)]
      BY <1>1, <1>7
    <3>2. b[0] = <<>>
      BY <1>3 DEF Ends
    <3>3. a[Len(s)] \o <<>> = a[Len(s)]
      BY <2>0
    <3>4. Len(s) + 0 = Len(s)
      BY <1>1
    <3> QED
      BY <3>1, <3>2, <3>3, <3>4
  <2>2. ASSUME NEW i \in Nat, i \in B
        PROVE  i + 1 \in B
    <3>1. ASSUME i + 1 <= Len(t)
          PROVE  g[Len(s) + (i + 1)] = a[Len(s)] \o b[i + 1]
      <4>1. i < Len(t) /\ i <= Len(t) /\ Len(s) + i < Len(s \o t) /\ Len(s) + i \in Nat
            /\ i + 1 \in 1..Len(t) /\ Len(s) + (i + 1) = (Len(s) + i) + 1
        BY <1>1, <3>1
      <4>2. g[(Len(s) + i) + 1] = g[Len(s) + i] \o (s \o t)[(Len(s) + i) + 1]
        BY <1>1, <1>4, <4>1, EndsSteps
      <4>3. b[i + 1] = b[i] \o t[i + 1] /\ b[i] \in Seq(S) /\ t[i + 1] \in Seq(S)
        BY <1>3, <4>1, EndsSteps
      <4>4. g[Len(s) + i] = a[Len(s)] \o b[i]
        BY <2>2, <4>1
      <4>5. (s \o t)[Len(s) + (i + 1)] = t[i + 1]
        BY <1>6, <4>1
      <4> DEFINE x == a[Len(s)]
                 y == b[i]
                 z == t[i + 1]
      <4>6. x \in Seq(S) /\ y \in Seq(S) /\ z \in Seq(S)
        BY <2>0, <4>3
      <4>7. (x \o y) \o z = x \o (y \o z)
        <5> HIDE DEF x, y, z
        <5> QED
          BY <4>6, ConcatAssociative
      <4> HIDE DEF B
      <4> QED
        BY <4>1, <4>2, <4>3, <4>4, <4>5, <4>7
    <3>2. Agrees(i + 1)
      BY <3>1, Zenon
    <3>3. i + 1 \in Nat
      OBVIOUS
    <3> HIDE DEF Agrees
    <3> QED
      BY <3>2, <3>3
  <2> HIDE DEF B
  <2> QED
    BY <2>1, <2>2, SetInduction
<1>9. g[Len(s) + Len(t)] = a[Len(s)] \o b[Len(t)]
  <2>1. Agrees(Len(t))
    <3> HIDE DEF Agrees
    <3> QED
      BY <1>1, <1>8
  <2>2. Len(t) <= Len(t)
    BY <1>1
  <2> QED
    BY <2>1, <2>2
<1> QED
  BY <1>1, <1>2, <1>3, <1>4, <1>9, FlattenEnds

LEMMA EmptyLeft ==
  ASSUME NEW S, NEW s \in Seq(S)
  PROVE  <<>> \o s = s /\ s \o <<>> = s
OBVIOUS

LEMMA FlattenOne ==
  ASSUME NEW S, NEW x \in Seq(S)
  PROVE  FlattenSeq(<<x>>) = x
<1>1. <<x>> \in Seq(Seq(S)) /\ Len(<<x>>) = 1
  OBVIOUS
<1>2. PICK g : Ends(g, <<x>>, S)
  BY <1>1, EndsExist
<1>3. 0 < Len(<<x>>) /\ 0 \in Nat /\ 0 + 1 = 1
  BY <1>1
<1> DEFINE s == <<x>>
<1>4. s[1] = x
  OBVIOUS
<1> HIDE DEF s
<1>5. /\ g[0] = <<>>
      /\ \A i \in Nat : i < Len(s) => g[i + 1] = g[i] \o s[i + 1]
  <2>1. s \in Seq(Seq(S)) /\ Ends(g, s, S)
    BY <1>1, <1>2 DEF s
  <2> QED
    BY <2>1, EndsSteps
<1>6. 0 < Len(s) /\ 0 \in Nat /\ 0 + 1 = 1
  BY <1>3 DEF s
<1>7. g[1] = g[0] \o s[1]
  BY <1>5, <1>6
<1>8. g[1] = <<>> \o x
  BY <1>4, <1>5, <1>7
<1>9. g[1] = x
  BY <1>8, EmptyLeft
<1> QED
  BY <1>1, <1>2, <1>9, FlattenEnds

LEMMA TwoIsConcat ==
  ASSUME NEW S, NEW a \in S, NEW b \in S
  PROVE  <<a, b>> = <<a>> \o <<b>>
<1> DEFINE s == <<a, b>>
           k == <<a>>
           l == <<b>>
           t == k \o l
<1>1. s \in Seq(S) /\ Len(s) = 2 /\ s[1] = a /\ s[2] = b
  OBVIOUS
<1>2. k \in Seq(S) /\ l \in Seq(S) /\ Len(k) = 1 /\ Len(l) = 1 /\ k[1] = a /\ l[1] = b
  OBVIOUS
<1> HIDE DEF s, k, l
<1>3. t \in Seq(S) /\ Len(t) = 2 /\ t[1] = a /\ t[2] = b
  <2>1. /\ t \in Seq(S) /\ Len(t) = Len(k) + Len(l)
        /\ \A i \in 1..(Len(k) + Len(l)) : t[i] = IF i <= Len(k) THEN k[i] ELSE l[i - Len(k)]
    BY <1>2, ConcatProperties
  <2> HIDE DEF t
  <2> QED
    BY <1>2, <2>1
<1> HIDE DEF t
<1>4. \A i \in 1..Len(s) : s[i] = t[i]
  BY <1>1, <1>3
<1>5. s = t
  BY <1>1, <1>3, <1>4, SeqEqual
<1> QED
  BY <1>5 DEF s, k, l, t

LEMMA TwoConcat ==
  ASSUME NEW a, NEW b
  PROVE  <<a, b>> = <<a>> \o <<b>>
<1> DEFINE S == {a, b}
<1>1. a \in S /\ b \in S
  OBVIOUS
<1> HIDE DEF S
<1> QED
  BY <1>1, TwoIsConcat

LEMMA ThreeConcat ==
  ASSUME NEW a, NEW b, NEW c
  PROVE  <<a, b, c>> = <<a>> \o <<b, c>>
<1> DEFINE S == {a, b, c}
           s == <<a, b, c>>
           k == <<a>>
           l == <<b, c>>
           t == k \o l
<1>0. a \in S /\ b \in S /\ c \in S
  OBVIOUS
<1> HIDE DEF S
<1>1. s \in Seq(S) /\ Len(s) = 3 /\ s[1] = a /\ s[2] = b /\ s[3] = c
  BY <1>0
<1>2. k \in Seq(S) /\ l \in Seq(S) /\ Len(k) = 1 /\ Len(l) = 2 /\ k[1] = a
      /\ l[1] = b /\ l[2] = c
  BY <1>0
<1> HIDE DEF s, k, l
<1>3. /\ t \in Seq(S) /\ Len(t) = Len(k) + Len(l)
      /\ \A i \in 1..(Len(k) + Len(l)) : t[i] = IF i <= Len(k) THEN k[i] ELSE l[i - Len(k)]
  BY <1>2, ConcatProperties
<1> HIDE DEF t
<1>4. Len(t) = 3 /\ t[1] = a /\ t[2] = b /\ t[3] = c
  BY <1>2, <1>3
<1>5. \A i \in 1..Len(s) : s[i] = t[i]
  BY <1>1, <1>4
<1>6. s = t
  BY <1>1, <1>3, <1>4, <1>5, SeqEqual
<1> QED
  BY <1>6 DEF s, k, l, t

LEMMA FourConcat ==
  ASSUME NEW a, NEW b, NEW c, NEW d
  PROVE  <<a, b, c, d>> = <<a, b>> \o <<c, d>>
<1> DEFINE S == {a, b, c, d}
           s == <<a, b, c, d>>
           k == <<a, b>>
           l == <<c, d>>
           t == k \o l
<1>0. a \in S /\ b \in S /\ c \in S /\ d \in S
  OBVIOUS
<1> HIDE DEF S
<1>1. s \in Seq(S) /\ Len(s) = 4 /\ s[1] = a /\ s[2] = b /\ s[3] = c /\ s[4] = d
  BY <1>0
<1>2. k \in Seq(S) /\ l \in Seq(S) /\ Len(k) = 2 /\ Len(l) = 2 /\ k[1] = a /\ k[2] = b
      /\ l[1] = c /\ l[2] = d
  BY <1>0
<1> HIDE DEF s, k, l
<1>3. /\ t \in Seq(S) /\ Len(t) = Len(k) + Len(l)
      /\ \A i \in 1..(Len(k) + Len(l)) : t[i] = IF i <= Len(k) THEN k[i] ELSE l[i - Len(k)]
  BY <1>2, ConcatProperties
<1> HIDE DEF t
<1>4. Len(t) = 4 /\ t[1] = a /\ t[2] = b /\ t[3] = c /\ t[4] = d
  BY <1>2, <1>3
<1>5. \A i \in 1..Len(s) : s[i] = t[i]
  BY <1>1, <1>4
<1>6. s = t
  BY <1>1, <1>3, <1>4, <1>5, SeqEqual
<1> QED
  BY <1>6 DEF s, k, l, t

(* What is behind the first n. *)
Drop(s, n) == [i \in 1..(Len(s) - n) |-> s[n + i]]

LEMMA DropTyped ==
  ASSUME NEW S, NEW s \in Seq(S), NEW n \in 0..Len(s)
  PROVE  Drop(s, n) \in Seq(S) /\ Len(Drop(s, n)) = Len(s) - n
<1> DEFINE m == Len(s) - n
<1>1. m \in Nat /\ \A i \in 1..m : n + i \in 1..Len(s)
  OBVIOUS
<1>2. Drop(s, n) \in [1..m -> S]
  BY <1>1 DEF Drop
<1> HIDE DEF m
<1>3. Drop(s, n) \in Seq(S) /\ Len(Drop(s, n)) = m
  BY <1>1, <1>2
<1> QED
  BY <1>3 DEF m

LEMMA DropNone ==
  ASSUME NEW S, NEW s \in Seq(S)
  PROVE  Drop(s, 0) = s
<1>1. Drop(s, 0) \in Seq(S) /\ Len(Drop(s, 0)) = Len(s)
  <2>1. 0 \in 0..Len(s) /\ Len(s) - 0 = Len(s)
    OBVIOUS
  <2> QED
    BY <2>1, DropTyped
<1>2. \A i \in 1..Len(s) : Drop(s, 0)[i] = s[i]
  BY DEF Drop
<1> DEFINE t == Drop(s, 0)
<1> HIDE DEF t
<1>3. t = s
  BY <1>1, <1>2, SeqEqual DEF t
<1> QED
  BY <1>3 DEF t

LEMMA DropEnd ==
  ASSUME NEW S, NEW s \in Seq(S)
  PROVE  Drop(s, Len(s)) = <<>>
<1>1. Len(s) - Len(s) = 0
  OBVIOUS
<1> QED
  BY <1>1 DEF Drop

LEMMA DropNext ==
  ASSUME NEW S, NEW s \in Seq(S), NEW n \in Nat, n < Len(s)
  PROVE  /\ s[n + 1] \in S
         /\ Drop(s, n + 1) \in Seq(S) /\ Len(Drop(s, n + 1)) = Len(s) - (n + 1)
         /\ Drop(s, n) = <<s[n + 1]>> \o Drop(s, n + 1)
<1> DEFINE k == <<s[n + 1]>>
           l == Drop(s, n + 1)
           t == k \o l
           m == Len(s) - n
<1>1. s[n + 1] \in S /\ n \in 0..Len(s) /\ n + 1 \in 0..Len(s) /\ m \in Nat \ {0}
      /\ Len(s) - (n + 1) = m - 1
  OBVIOUS
<1>2. l \in Seq(S) /\ Len(l) = Len(s) - (n + 1)
  BY <1>1, DropTyped
<1>3. k \in Seq(S) /\ Len(k) = 1 /\ k[1] = s[n + 1]
  <2> DEFINE x == s[n + 1]
  <2>1. x \in S
    BY <1>1
  <2> HIDE DEF x
  <2>2. <<x>> \in Seq(S) /\ Len(<<x>>) = 1 /\ <<x>>[1] = x
    BY <2>1
  <2> QED
    BY <2>2 DEF x
<1>4. Drop(s, n) \in Seq(S) /\ Len(Drop(s, n)) = m
  BY <1>1, DropTyped
<1>5. /\ t \in Seq(S) /\ Len(t) = Len(k) + Len(l)
      /\ \A i \in 1..(Len(k) + Len(l)) : t[i] = IF i <= Len(k) THEN k[i] ELSE l[i - Len(k)]
  <2> HIDE DEF k, l
  <2> QED
    BY <1>2, <1>3, ConcatProperties
<1>6. Len(k) + Len(l) = m
  <2> HIDE DEF k, l, m
  <2> QED
    BY <1>1, <1>2, <1>3
<1>7. \A i \in 1..(m - 1) : l[i] = s[(n + 1) + i]
  BY <1>1 DEF Drop
<1>8. \A i \in 1..m : Drop(s, n)[i] = s[n + i]
  BY DEF Drop
<1>9. ASSUME NEW i \in 1..m
      PROVE  Drop(s, n)[i] = t[i]
  <2>1. CASE i = 1
    <3> HIDE DEF k, l, t, m
    <3> QED
      BY <1>1, <1>3, <1>5, <1>6, <1>8, <2>1
  <2>2. CASE i # 1
    <3> HIDE DEF k, l, t, m
    <3>1. i - 1 \in 1..(m - 1) /\ (n + 1) + (i - 1) = n + i /\ ~(i <= 1)
      BY <1>1, <2>2
    <3>2. t[i] = l[i - 1]
      BY <1>3, <1>5, <1>6, <3>1
    <3>3. l[i - 1] = s[n + i]
      BY <1>7, <3>1
    <3> QED
      BY <1>8, <3>2, <3>3
  <2> QED
    BY <2>1, <2>2
<1> DEFINE u == Drop(s, n)
<1>10. u = t
  <2>1. u \in Seq(S) /\ t \in Seq(S) /\ Len(u) = Len(t) /\ \A i \in 1..Len(u) : u[i] = t[i]
    <3> HIDE DEF k, l, t, m
    <3> QED
      BY <1>4, <1>5, <1>6, <1>9
  <2> HIDE DEF u, t
  <2> QED
    BY <2>1, SeqEqual
<1> QED
  BY <1>1, <1>2, <1>10

LEMMA FlattenDrop ==
  ASSUME NEW S, NEW s \in Seq(Seq(S)), NEW n \in Nat, n < Len(s)
  PROVE  FlattenSeq(Drop(s, n)) = s[n + 1] \o FlattenSeq(Drop(s, n + 1))
<1> DEFINE x == s[n + 1]
           k == <<x>>
           l == Drop(s, n + 1)
<1>1. x \in Seq(S) /\ l \in Seq(Seq(S)) /\ Drop(s, n) = k \o l
  BY DropNext
<1>2. k \in Seq(Seq(S))
  BY <1>1
<1>3. FlattenSeq(k) = x
  BY <1>1, FlattenOne
<1> HIDE DEF k, l, x
<1>4. FlattenSeq(k \o l) = FlattenSeq(k) \o FlattenSeq(l)
  BY <1>1, <1>2, FlattenConcat
<1> QED
  BY <1>1, <1>3, <1>4 DEF k, l, x

LEMMA FlattenLength ==
  ASSUME NEW S, NEW s \in Seq(Seq(S)), NEW t \in Seq(Seq(S)), Len(s) = Len(t),
         \A i \in 1..Len(s) : Len(s[i]) = Len(t[i])
  PROVE  Len(FlattenSeq(s)) = Len(FlattenSeq(t))
<1>1. PICK g : Ends(g, s, S)
  BY EndsExist
<1>2. PICK h : Ends(h, t, S)
  BY EndsExist
<1> DEFINE n == Len(s)
           T == {i \in Nat : i <= n => Len(g[i]) = Len(h[i])}
<1>3. n \in Nat
  OBVIOUS
<1>4. 0 \in T
  BY <1>1, <1>2, EndsSteps
<1>5. ASSUME NEW i \in Nat, i \in T
      PROVE  i + 1 \in T
  <2> SUFFICES ASSUME i + 1 <= n
               PROVE  Len(g[i + 1]) = Len(h[i + 1])
    OBVIOUS
  <2>1. i <= n /\ i < n /\ i + 1 \in 1..n /\ i < Len(t) /\ i <= Len(t)
    BY <1>3
  <2> DEFINE a == g[i]
             b == h[i]
             u == s[i + 1]
             v == t[i + 1]
  <2>2. a \in Seq(S) /\ u \in Seq(S) /\ g[i + 1] = a \o u
    BY <1>1, <2>1, EndsSteps
  <2>3. b \in Seq(S) /\ v \in Seq(S) /\ h[i + 1] = b \o v
    BY <1>2, <2>1, EndsSteps
  <2>4. Len(a) = Len(b) /\ Len(u) = Len(v)
    BY <1>5, <2>1
  <2> HIDE DEF a, b, u, v
  <2>5. Len(a \o u) = Len(a) + Len(u) /\ Len(b \o v) = Len(b) + Len(v)
    BY <2>2, <2>3, ConcatProperties
  <2> QED
    BY <2>2, <2>3, <2>4, <2>5
<1>6. n \in T
  <2> HIDE DEF T, n
  <2>1. Nat \subseteq T
    BY <1>4, <1>5, SetInduction
  <2> QED
    BY <1>3, <2>1
<1>7. FlattenSeq(s) = g[Len(s)] /\ FlattenSeq(t) = h[Len(t)]
  BY <1>1, <1>2, FlattenEnds
<1> QED
  BY <1>3, <1>6, <1>7

LEMMA Regroup ==
  ASSUME NEW S, NEW b \in S, NEW a \in Seq(S), NEW l \in Seq(S)
  PROVE  a \o l \in Seq(S) /\ (<<b>> \o a) \o l = <<b>> \o (a \o l)
<1> DEFINE k == <<b>>
<1>1. k \in Seq(S)
  OBVIOUS
<1> HIDE DEF k
<1>2. a \o l \in Seq(S) /\ (k \o a) \o l = k \o (a \o l)
  BY <1>1, ConcatProperties, ConcatAssociative
<1> QED
  BY <1>2 DEF k

LEMMA HeadTail ==
  ASSUME NEW S, NEW u \in S, NEW a \in Seq(S)
  PROVE  <<u>> \o a # <<>> /\ Head(<<u>> \o a) = u /\ Tail(<<u>> \o a) = a
<1> DEFINE k == <<u>>
           t == k \o a
<1>1. k \in Seq(S) /\ Len(k) = 1 /\ k[1] = u
  OBVIOUS
<1>2. /\ t \in Seq(S) /\ Len(t) = Len(k) + Len(a)
      /\ \A i \in 1..(Len(k) + Len(a)) : t[i] = IF i <= Len(k) THEN k[i] ELSE a[i - Len(k)]
  <2> HIDE DEF k
  <2> QED
    BY <1>1, ConcatProperties
<1>3. Len(a) \in Nat /\ Len(t) = 1 + Len(a) /\ t[1] = u
      /\ \A i \in 1..Len(a) : t[i + 1] = a[i]
  <2> HIDE DEF k, t
  <2>1. Len(a) \in Nat
    OBVIOUS
  <2>2. \A i \in 1..Len(a) : i + 1 \in 1..(1 + Len(a)) /\ ~(i + 1 <= 1) /\ (i + 1) - 1 = i
    BY <2>1
  <2>3. 1 \in 1..(1 + Len(a)) /\ 1 <= 1
    BY <2>1
  <2> QED
    BY <1>1, <1>2, <2>1, <2>2, <2>3
<1> HIDE DEF k, t
<1>4. t # <<>> /\ Head(t) = u
  BY <1>2, <1>3
<1> DEFINE r == Tail(t)
<1>5. r \in Seq(S) /\ Len(r) = Len(a) /\ \A i \in 1..Len(r) : r[i] = t[i + 1]
  BY <1>2, <1>3, <1>4
<1> HIDE DEF r
<1>6. r = a
  BY <1>3, <1>5, SeqEqual
<1> QED
  BY <1>4, <1>6 DEF r, t, k
=============================================================================
