----------------------------- MODULE CurveProofs -----------------------------
(***************************************************************************)
(* For lists of every length, with any predictions, labels and common        *)
(* factors: what the three metrics add up to, and NORM.                      *)
(***************************************************************************)
EXTENDS Curve, Lemmas, FiniteSetTheorems, TLAPS

-----------------------------------------------------------------------------
(* NORM. *)

LEMMA OneIsPositive == One \in Nat \ {0}
BY FRACAssumption, PowersOfTwo DEF One

(* The denominators are whole: what is taken off in round k is a power of   *)
(* two of units.                                                            *)
LEMMA RoundShift ==
  ASSUME NEW c \in Nat, NEW k \in 1..FRAC
  PROVE  /\ (c * One) \div Pow2[k] = c * Pow2[FRAC - k]
         /\ One = Pow2[k] * Pow2[FRAC - k]
         /\ Pow2[k] \in Nat \ {0} /\ Pow2[FRAC - k] \in Nat \ {0}
         /\ Pow2[k] = 2 * Pow2[k - 1] /\ Pow2[k - 1] \in Nat \ {0}
         /\ Pow2[FRAC - (k - 1)] = 2 * Pow2[FRAC - k]
<1>1. k \in 0..FRAC /\ FRAC \in Nat /\ k - 1 \in Nat /\ FRAC - k \in Nat
  BY FRACAssumption
<1>2. One = Pow2[k] * Pow2[FRAC - k] /\ Pow2[k] \in Nat \ {0} /\ Pow2[FRAC - k] \in Nat \ {0}
  BY <1>1, PowerDivides DEF One
<1>3. Pow2[k] = 2 * Pow2[k - 1] /\ Pow2[k - 1] \in Nat \ {0}
  <2>1. (k - 1) + 1 = k
    OBVIOUS
  <2> QED
    BY <1>1, <2>1, PowersOfTwo
<1>4. Pow2[FRAC - (k - 1)] = 2 * Pow2[FRAC - k]
  <2>1. FRAC - (k - 1) = (FRAC - k) + 1
    BY <1>1
  <2> QED
    BY <1>1, <2>1, PowersOfTwo
<1> DEFINE d == Pow2[k]
           e == Pow2[FRAC - k]
           zero == 0
<1>5. (c * One) \div d = c * e
  <2>1. d \in Nat \ {0} /\ e \in Nat \ {0} /\ One = d * e /\ zero \in 0..(d - 1)
    BY <1>2
  <2>2. zero = 0
    OBVIOUS
  <2> HIDE DEF d, e, zero
  <2>3. c * One = (c * e) * d
    BY <2>1
  <2>4. c * One = (c * e) * d + zero /\ c * One \in Int /\ c * e \in Int
    BY <2>1, <2>2, <2>3
  <2> QED
    BY <2>1, <2>4, DivisionUnique
<1> QED
  BY <1>2, <1>3, <1>4, <1>5

(* The rounds, as a list of states. *)
NormState == [u : Int, div : Int]

LEMMA NormRoundType ==
  ASSUME NEW a \in Int, NEW c \in Nat, NEW s \in NormState, NEW k \in 1..FRAC
  PROVE  NormRound(a, c * One, s, k) \in NormState
<1>1. (c * One) \div Pow2[k] = c * Pow2[FRAC - k] /\ Pow2[FRAC - k] \in Nat
  BY RoundShift
<1>2. s.u \in Int /\ s.div \in Int
  BY DEF NormState
<1>3. s.u + c * Pow2[FRAC - k] \in Int /\ s.div + Pow2[FRAC - k] \in Int
  BY <1>1, <1>2
<1> QED
  BY <1>1, <1>3 DEF NormRound, NormState

LEMMA NormRounds ==
  ASSUME NEW a \in Int, NEW c \in Nat
  PROVE  \E s \in [0..FRAC -> NormState] :
            /\ s[0] = [u |-> 0, div |-> 0]
            /\ \A k \in 1..FRAC : s[k] = NormRound(a, c * One, s[k - 1], k)
            /\ NORM(a, c * One) = s[FRAC].div
<1> DEFINE b == c * One
           none == [u |-> 0, div |-> 0]
           step == [q \in Nat \X NormState |->
                      IF q[1] < FRAC THEN NormRound(a, b, q[2], q[1] + 1) ELSE q[2]]
           Recurs(f) == f = [k \in 0..FRAC |-> IF k = 0 THEN [u |-> 0, div |-> 0]
                                               ELSE NormRound(a, b, f[k - 1], k)]
<1>0. FRAC \in Nat \ {0}
  BY FRACAssumption
<1>1. none \in NormState
  BY DEF NormState
<1>2. step \in [Nat \X NormState -> NormState]
  <2>1. ASSUME NEW q \in Nat \X NormState
        PROVE  (IF q[1] < FRAC THEN NormRound(a, b, q[2], q[1] + 1) ELSE q[2]) \in NormState
    <3>1. q[1] \in Nat /\ q[2] \in NormState
      OBVIOUS
    <3>2. CASE q[1] < FRAC
      <4> DEFINE k == q[1] + 1
                 s == q[2]
      <4>1. k \in 1..FRAC /\ s \in NormState
        BY <1>0, <3>1, <3>2
      <4> HIDE DEF k, s
      <4>2. NormRound(a, c * One, s, k) \in NormState
        BY <4>1, NormRoundType
      <4> QED
        BY <3>2, <4>2 DEF k, s
    <3> QED
      BY <3>1, <3>2
  <2> QED
    BY <2>1
<1>3. PICK g \in [0..FRAC -> NormState] : Beginning(g, FRAC, none, step)
  <2> HIDE DEF none, step
  <2> QED
    BY <1>0, <1>1, <1>2, BeginningExists
<1>4. g[0] = none /\ \A k \in 1..FRAC : g[k] = NormRound(a, b, g[k - 1], k)
  <2>1. g[0] = none
    BY <1>3 DEF Beginning
  <2>2. ASSUME NEW k \in 1..FRAC PROVE g[k] = NormRound(a, b, g[k - 1], k)
    <3>1. k - 1 \in 0..(FRAC - 1) /\ (k - 1) + 1 = k /\ k - 1 \in Nat /\ k - 1 < FRAC
          /\ k - 1 \in 0..FRAC
      BY <1>0
    <3>2. g[k] = step[<<k - 1, g[k - 1]>>]
      BY <1>3, <3>1 DEF Beginning
    <3>3. <<k - 1, g[k - 1]>> \in Nat \X NormState
      BY <3>1
    <3> QED
      BY <3>1, <3>2, <3>3
  <2> QED
    BY <2>1, <2>2
<1>5. Recurs(g)
  <2>1. \A k \in 0..FRAC : g[k] = IF k = 0 THEN [u |-> 0, div |-> 0]
                                  ELSE NormRound(a, b, g[k - 1], k)
    BY <1>4
  <2> QED
    BY <2>1
<1>6. Recurs(CHOOSE f : Recurs(f))
  <2> HIDE DEF Recurs
  <2> QED
    BY <1>5
<1> DEFINE s == CHOOSE f : Recurs(f)
<1>7. NORM(a, b) = s[FRAC].div
  BY DEF NORM
<1>10. Recurs(s)
  <2> HIDE DEF Recurs
  <2> QED
    BY <1>6 DEF s
<1> HIDE DEF s
<1>8. /\ s[0] = none
      /\ \A k \in 1..FRAC : s[k] = NormRound(a, b, s[k - 1], k)
      /\ s = [k \in 0..FRAC |-> s[k]]
  BY <1>0, <1>10
<1>9. s \in [0..FRAC -> NormState]
  <2> DEFINE S == {k \in 0..FRAC : s[k] \in NormState}
  <2>1. 0 \in S
    BY <1>0, <1>1, <1>8
  <2>2. ASSUME NEW k \in 0..(FRAC - 1), k \in S PROVE k + 1 \in S
    <3>1. k + 1 \in 1..FRAC /\ (k + 1) - 1 = k /\ k + 1 \in 0..FRAC
      BY <1>0
    <3>2. s[k + 1] = NormRound(a, c * One, s[k], k + 1)
      BY <1>8, <3>1
    <3>3. NormRound(a, c * One, s[k], k + 1) \in NormState
      BY <2>2, <3>1, NormRoundType
    <3> QED
      BY <3>1, <3>2, <3>3
  <2>3. 0..FRAC \subseteq S
    <3> HIDE DEF S
    <3> QED
      BY <1>0, <2>1, <2>2, BoundedInduction
  <2> QED
    BY <1>8, <2>3
<1> QED
  BY <1>7, <1>8, <1>9

(* One bit: while what is left is below the denominator, the next bit of    *)
(* the quotient; when the operands are equal, a one.                        *)
LEMMA NormBit ==
  ASSUME NEW a \in Nat, NEW c \in Nat \ {0}, NEW k \in 1..FRAC,
         NEW s \in NormState, NEW q \in Nat,
         s.u = q * (c * Pow2[FRAC - (k - 1)]), s.div = q * Pow2[FRAC - (k - 1)],
         0 <= (a - s.u) * Pow2[k - 1]
  PROVE  LET r == NormRound(a, c * One, s, k) IN
         \E q1 \in Nat :
            /\ r.u = q1 * (c * Pow2[FRAC - k]) /\ r.div = q1 * Pow2[FRAC - k]
            /\ 0 <= (a - r.u) * Pow2[k]
            /\ (a - s.u) * Pow2[k - 1] < c * One => (a - r.u) * Pow2[k] < c * One
            /\ (a - s.u) * Pow2[k - 1] = c * One => (a - r.u) * Pow2[k] = c * One
<1> DEFINE b == c * One
           e == Pow2[FRAC - k]
           d == Pow2[k]
           h == Pow2[k - 1]
           r == NormRound(a, b, s, k)
           u == s.u
           v == s.div
           left == (a - u) * h
<1>1. /\ b \div d = c * e /\ One = d * e /\ d \in Nat \ {0} /\ e \in Nat \ {0}
      /\ d = 2 * h /\ h \in Nat \ {0} /\ Pow2[FRAC - (k - 1)] = 2 * e
  BY RoundShift
<1>2. u \in Int /\ v \in Int
  BY DEF NormState
<1>3. r = IF (a - u) * d >= b THEN [u |-> u + (b \div d), div |-> v + e] ELSE s
  BY DEF NormRound
<1>4. u = q * (c * (2 * e)) /\ v = q * (2 * e) /\ 0 <= left
  BY <1>1
<1>5. b = c * (d * e) /\ b \in Nat
  <2>1. b = c * One /\ One \in Nat
    BY OneIsPositive
  <2>2. c * One \in Nat
    BY <2>1
  <2> QED
    BY <1>1, <2>1, <2>2
<1>6. s.u = u /\ s.div = v /\ left = (a - u) * h
  OBVIOUS
<1> HIDE DEF e, d, h, u, v, left, b, r
<1>7. left \in Int /\ (a - u) * d = 2 * left
  BY <1>1, <1>2, <1>6
<1>8. c * e \in Nat /\ (c * e) * d = b
  BY <1>1, <1>5
<1>9. CASE (a - u) * d >= b
  <2>1. r.u = u + c * e /\ r.div = v + e
    BY <1>1, <1>3, <1>9
  <2>2. r.u = (2 * q + 1) * (c * e) /\ r.div = (2 * q + 1) * e
    BY <1>1, <1>4, <2>1
  <2>3. (a - r.u) * d = 2 * left - b
    <3> DEFINE w == c * e
    <3>1. w \in Nat /\ w * d = b /\ r.u = u + w
      BY <1>8, <2>1
    <3> HIDE DEF w
    <3>2. (a - r.u) * d = (a - u) * d - w * d
      BY <1>1, <1>2, <3>1
    <3> QED
      BY <1>7, <3>1, <3>2
  <2>4. 2 * q + 1 \in Nat
    OBVIOUS
  <2>5. /\ 0 <= (a - r.u) * d
        /\ left < b => (a - r.u) * d < b
        /\ left = b => (a - r.u) * d = b
    BY <1>5, <1>7, <1>9, <2>3
  <2> QED
    BY <2>2, <2>4, <2>5, <1>6 DEF e, d, b, r, u, left, h
<1>10. CASE ~((a - u) * d >= b)
  <2>1. r.u = u /\ r.div = v
    BY <1>3, <1>6, <1>10
  <2>2. r.u = (2 * q) * (c * e) /\ r.div = (2 * q) * e
    BY <1>1, <1>4, <2>1
  <2>3. (a - r.u) * d = 2 * left
    BY <1>7, <2>1
  <2>4. 2 * q \in Nat
    OBVIOUS
  <2>5. /\ 0 <= (a - r.u) * d
        /\ left < b => (a - r.u) * d < b
        /\ left = b => (a - r.u) * d = b
    BY <1>4, <1>5, <1>7, <1>10, <2>3
  <2> QED
    BY <2>2, <2>4, <2>5, <1>6 DEF e, d, b, r, u, left, h
<1> QED
  BY <1>9, <1>10

(* NORM of a numerator below its denominator, or equal to it.               *)
LEMMA NormValue ==
  ASSUME NEW a \in Nat, NEW c \in Nat \ {0}
  PROVE  /\ a < c * One => NORM(a, c * One) = a \div c
         /\ a = c * One => NORM(a, c * One) = One - 1
<1> SUFFICES ASSUME a <= c * One
             PROVE  /\ a < c * One => NORM(a, c * One) = a \div c
                    /\ a = c * One => NORM(a, c * One) = One - 1
  BY OneIsPositive
<1>0. FRAC \in Nat \ {0} /\ One \in Nat \ {0} /\ Pow2[0] = 1 /\ Pow2[FRAC] = One
  BY FRACAssumption, OneIsPositive, PowersOfTwo DEF One
<1>1. PICK s \in [0..FRAC -> NormState] :
            /\ s[0] = [u |-> 0, div |-> 0]
            /\ \A k \in 1..FRAC : s[k] = NormRound(a, c * One, s[k - 1], k)
            /\ NORM(a, c * One) = s[FRAC].div
  BY NormRounds
<1> DEFINE Good(k) ==
             \E q \in Nat :
               /\ s[k].u = q * (c * Pow2[FRAC - k]) /\ s[k].div = q * Pow2[FRAC - k]
               /\ 0 <= (a - s[k].u) * Pow2[k]
               /\ a < c * One => (a - s[k].u) * Pow2[k] < c * One
               /\ a = c * One => (a - s[k].u) * Pow2[k] = c * One
           S == {k \in 0..FRAC : Good(k)}
<1>2. 0 \in S
  <2>1. s[0].u = 0 /\ s[0].div = 0 /\ FRAC - 0 = FRAC
    BY <1>0, <1>1
  <2>2. c * Pow2[FRAC] \in Nat /\ Pow2[FRAC] \in Nat
    BY <1>0
  <2>3. 0 * (c * Pow2[FRAC]) = 0 /\ 0 * Pow2[FRAC] = 0
    BY <2>2
  <2>4. (a - 0) * 1 = a
    OBVIOUS
  <2>5. Good(0)
    BY <1>0, <2>1, <2>3, <2>4
  <2>6. 0 \in 0..FRAC
    BY <1>0
  <2> HIDE DEF Good
  <2> QED
    BY <2>5, <2>6
<1>3. ASSUME NEW k \in 0..(FRAC - 1), k \in S PROVE k + 1 \in S
  <2>1. k + 1 \in 1..FRAC /\ (k + 1) - 1 = k /\ k \in 0..FRAC /\ k + 1 \in 0..FRAC
    BY <1>0
  <2>2. PICK q \in Nat :
               /\ s[k].u = q * (c * Pow2[FRAC - k]) /\ s[k].div = q * Pow2[FRAC - k]
               /\ 0 <= (a - s[k].u) * Pow2[k]
               /\ a < c * One => (a - s[k].u) * Pow2[k] < c * One
               /\ a = c * One => (a - s[k].u) * Pow2[k] = c * One
    BY <1>3
  <2> DEFINE next == k + 1
             t == s[k]
  <2>3. next \in 1..FRAC /\ next - 1 = k /\ t \in NormState /\ s[next] = NormRound(a, c * One, t, next)
    BY <1>1, <2>1
  <2>4. /\ t.u = q * (c * Pow2[FRAC - (next - 1)]) /\ t.div = q * Pow2[FRAC - (next - 1)]
        /\ 0 <= (a - t.u) * Pow2[next - 1]
    BY <2>2, <2>3
  <2> HIDE DEF next, t
  <2>5. PICK q1 \in Nat :
            /\ s[next].u = q1 * (c * Pow2[FRAC - next]) /\ s[next].div = q1 * Pow2[FRAC - next]
            /\ 0 <= (a - s[next].u) * Pow2[next]
            /\ (a - t.u) * Pow2[next - 1] < c * One => (a - s[next].u) * Pow2[next] < c * One
            /\ (a - t.u) * Pow2[next - 1] = c * One => (a - s[next].u) * Pow2[next] = c * One
    BY <2>3, <2>4, NormBit
  <2>6. Good(next)
    BY <2>2, <2>3, <2>5 DEF t
  <2> HIDE DEF Good
  <2> QED
    BY <2>1, <2>6 DEF next
<1>4. 0..FRAC \subseteq S
  <2> HIDE DEF S
  <2> QED
    BY <1>0, <1>2, <1>3, BoundedInduction
<1>5. Good(FRAC)
  <2> HIDE DEF Good
  <2> QED
    BY <1>0, <1>4
<1>6. PICK q \in Nat :
               /\ s[FRAC].u = q * (c * Pow2[FRAC - FRAC]) /\ s[FRAC].div = q * Pow2[FRAC - FRAC]
               /\ 0 <= (a - s[FRAC].u) * Pow2[FRAC]
               /\ a < c * One => (a - s[FRAC].u) * Pow2[FRAC] < c * One
               /\ a = c * One => (a - s[FRAC].u) * Pow2[FRAC] = c * One
  BY <1>5
<1>7. s[FRAC].u = q * c /\ s[FRAC].div = q
  <2>1. FRAC - FRAC = 0
    BY <1>0
  <2> QED
    BY <1>0, <1>6, <2>1
<1>8. NORM(a, c * One) = q
  BY <1>1, <1>7
<1> DEFINE r == a - q * c
<1>9. /\ r \in Int /\ 0 <= r * One
      /\ a < c * One => r * One < c * One
      /\ a = c * One => r * One = c * One
  <2>1. a - s[FRAC].u = r /\ r \in Int /\ Pow2[FRAC] = One
    BY <1>0, <1>7
  <2> HIDE DEF r
  <2>2. /\ 0 <= r * Pow2[FRAC]
        /\ a < c * One => r * Pow2[FRAC] < c * One
        /\ a = c * One => r * Pow2[FRAC] = c * One
    BY <1>6, <2>1
  <2> QED
    BY <2>1, <2>2
<1>10. a = q * c + r
  OBVIOUS
<1> DEFINE one == One
<1>11. one \in Nat \ {0} /\ one = One
  BY <1>0
<1> HIDE DEF r, one
<1>12. r >= 0 /\ (a < c * one => r < c) /\ (a = c * one => r = c)
  BY <1>9, <1>11
<1>13. ASSUME a < c * one PROVE a \div c = q
  <2>1. r \in 0..(c - 1)
    BY <1>9, <1>12, <1>13
  <2> QED
    BY <1>10, <2>1, DivisionUnique
<1>14. ASSUME a = c * one PROVE q = one - 1
  <2>1. c * one = q * c + c
    BY <1>10, <1>12, <1>14
  <2>2. c * one = c * (q + 1)
    BY <1>11, <2>1
  <2> QED
    BY <1>11, <2>2
<1> QED
  BY <1>8, <1>11, <1>13, <1>14

-----------------------------------------------------------------------------
(* The invariant. *)

(* The last threshold the loop has passed, 0 before the first. *)
Passed == Previous(i + 1)

InputOK ==
    /\ metric \in Metrics
    /\ val \in [Index -> Values]
    /\ \A a, b \in Index : a <= b => val[a] >= val[b]
    /\ label \in [Index -> {0, 1}]
    /\ scalar \in [Index -> Scalars]

TypeInv ==
    /\ conf \in [Index -> {0, 1}] /\ precs \in [Index -> Int]
    /\ i \in 0..Size /\ TP \in Int
    /\ pre_FP \in Int /\ pre_TP \in Int /\ pre_prec \in Int
    /\ numerator \in Int /\ numerator2 \in Int

(* What is known of the stage the call is in. *)
StageInv ==
    /\ pc \in {"group", "prec", "loop", "done"}
    /\ pc \in {"group", "prec"} => i = 0
    /\ pc # "group" /\ metric # "ROCNOTIE" => conf = [k \in Index |-> Grouped(k)]
    /\ pc \in {"loop", "done"} /\ metric = "PRCURVE" =>
           \A k \in Index : precs[k] = PrecisionAt(k)
    /\ pc = "done" => i = Size /\ auc = NORM(Dividend, Divisor)

(* The loop counts the positives, and knows the thresholds. *)
LoopInv ==
    /\ TP = PositivesIn(i)
    /\ Passed \in 0..i
    /\ Passed # 0 => Passed \in Thresholds
    /\ \A e \in Thresholds : e <= i => e <= Passed
    /\ \A a, b \in (Passed + 1)..i : val[a] = val[b]

(* Before the first sample nothing is counted; FP lags by one from there.   *)
Lagging(n) == IF n = 0 THEN 0 ELSE n - 1 - PositivesIn(n)

OrderedTo(n) == {e \in Positive \X Negative : e[1] < e[2] /\ e[2] <= n}
NoTieInv ==
    metric = "ROCNOTIE" =>
        /\ pre_FP = Lagging(i)
        /\ numerator + (IF i = 0 THEN 0 ELSE label[1]) = Cardinality(OrderedTo(i))

AboveTo(n) == {e \in Positive \X Negative : e[1] <= n /\ e[2] <= n /\ val[e[1]] > val[e[2]]}
TiedTo(n) == {e \in Positive \X Negative : e[1] <= n /\ e[2] <= n /\ val[e[1]] = val[e[2]]}
WithTieInv ==
    metric = "ROCWITHTIE" /\ Blinded =>
        /\ pre_TP = PositivesIn(Passed)
        /\ pre_FP = Lagging(Passed)
        /\ 2 * numerator + numerator2
             + (IF Passed = 0 THEN 0 ELSE PositivesIn(Min(Thresholds)))
           = 2 * Cardinality(AboveTo(Passed)) + Cardinality(TiedTo(Passed))

PRInv ==
    metric = "PRCURVE" /\ Blinded =>
        /\ pre_TP = PositivesIn(Passed)
        /\ pre_prec = PrecisionAt(Passed)
        /\ 2 * numerator + numerator2 = AreaTo[i]

CurveInv == InputOK /\ TypeInv /\ StageInv /\ LoopInv /\ NoTieInv /\ WithTieInv /\ PRInv

-----------------------------------------------------------------------------
(* Counting. *)

(* The positive and the negative samples after a, up to b. *)
Pos(a, b) == {k \in (a + 1)..b : label[k] = 1}
Neg(a, b) == {k \in (a + 1)..b : label[k] = 0}

LEMMA SizeType == Size \in Nat \ {0} /\ Index = 1..Size
BY SizeAssumption DEF Index

LEMMA DisjointUnion ==
  ASSUME NEW S, NEW T, IsFiniteSet(S), IsFiniteSet(T), S \cap T = {}
  PROVE  IsFiniteSet(S \cup T) /\ Cardinality(S \cup T) = Cardinality(S) + Cardinality(T)
<1>1. /\ IsFiniteSet(S \cup T)
      /\ Cardinality(S \cup T) = Cardinality(S) + Cardinality(T) - Cardinality(S \cap T)
  BY FS_Union
<1>2. Cardinality(S \cap T) = 0
  BY FS_EmptySet
<1>3. Cardinality(S) \in Nat /\ Cardinality(T) \in Nat
  BY FS_CardinalityType
<1> QED
  BY <1>1, <1>2, <1>3

LEMMA StretchFinite ==
  ASSUME NEW a \in Int, NEW b \in Int
  PROVE  /\ IsFiniteSet(Pos(a, b)) /\ IsFiniteSet(Neg(a, b))
         /\ Cardinality(Pos(a, b)) \in Nat /\ Cardinality(Neg(a, b)) \in Nat
<1> DEFINE first == a + 1
<1>1. IsFiniteSet(first..b)
  <2>1. first \in Int
    OBVIOUS
  <2> HIDE DEF first
  <2> QED
    BY <2>1, FS_Interval
<1>2. Pos(a, b) \in SUBSET (first..b) /\ Neg(a, b) \in SUBSET (first..b)
  BY DEF Pos, Neg
<1> HIDE DEF first
<1>3. IsFiniteSet(Pos(a, b)) /\ IsFiniteSet(Neg(a, b))
  BY <1>1, <1>2, FS_Subset
<1> QED
  BY <1>3, FS_CardinalityType

(* A stretch has what the counts at its ends differ by.                     *)
LEMMA StretchCounts ==
  ASSUME InputOK, NEW b \in 0..Size, NEW a \in 0..b
  PROVE  /\ PositivesIn(a) \in Nat /\ PositivesIn(b) \in Nat
         /\ Cardinality(Pos(a, b)) = PositivesIn(b) - PositivesIn(a)
         /\ Cardinality(Neg(a, b)) = (b - a) - (PositivesIn(b) - PositivesIn(a))
<1>0. Size \in Nat \ {0} /\ Index = 1..Size /\ a \in Nat /\ b \in Nat
  BY SizeType
<1>1. PositivesIn(a) = Cardinality(Pos(0, a)) /\ PositivesIn(b) = Cardinality(Pos(0, b))
  BY DEF PositivesIn, Pos
<1> DEFINE zero == 0
<1>2. /\ IsFiniteSet(Pos(zero, a)) /\ IsFiniteSet(Pos(zero, b))
      /\ IsFiniteSet(Pos(a, b)) /\ IsFiniteSet(Neg(a, b))
      /\ Cardinality(Pos(zero, a)) \in Nat /\ Cardinality(Pos(zero, b)) \in Nat
      /\ Cardinality(Pos(a, b)) \in Nat /\ Cardinality(Neg(a, b)) \in Nat
  <2>1. zero \in Int /\ a \in Int /\ b \in Int
    BY <1>0
  <2> HIDE DEF zero
  <2> QED
    BY <2>1, StretchFinite
<1>3. Pos(zero, b) = Pos(zero, a) \cup Pos(a, b) /\ Pos(zero, a) \cap Pos(a, b) = {}
  BY <1>0 DEF Pos
<1>4. Cardinality(Pos(zero, b)) = Cardinality(Pos(zero, a)) + Cardinality(Pos(a, b))
  <2> HIDE DEF zero
  <2> QED
    BY <1>2, <1>3, DisjointUnion
<1>5. (a + 1)..b = Pos(a, b) \cup Neg(a, b) /\ Pos(a, b) \cap Neg(a, b) = {}
  <2>1. \A k \in (a + 1)..b : label[k] \in {0, 1}
    BY <1>0 DEF InputOK
  <2> QED
    BY <2>1 DEF Pos, Neg
<1>6. Cardinality((a + 1)..b) = b - a
  <2> DEFINE first == a + 1
  <2>1. first \in Int /\ b \in Int /\ (IF first > b THEN 0 ELSE b - first + 1) = b - a
    BY <1>0
  <2> HIDE DEF first
  <2>2. Cardinality(first..b) = IF first > b THEN 0 ELSE b - first + 1
    BY <2>1, FS_Interval
  <2> QED
    BY <2>1, <2>2 DEF first
<1>7. b - a = Cardinality(Pos(a, b)) + Cardinality(Neg(a, b))
  BY <1>2, <1>5, <1>6, DisjointUnion
<1> QED
  BY <1>0, <1>1, <1>2, <1>4, <1>7

(* One sample more. *)
LEMMA NextCount ==
  ASSUME InputOK, NEW m \in 0..(Size - 1)
  PROVE  /\ PositivesIn(0) = 0
         /\ PositivesIn(m) \in Nat /\ label[m + 1] \in {0, 1}
         /\ PositivesIn(m + 1) = PositivesIn(m) + label[m + 1]
         /\ PositivesIn(m + 1) \in Nat /\ PositivesIn(m + 1) <= m + 1
<1>0. Size \in Nat \ {0} /\ Index = 1..Size /\ m + 1 \in Index /\ m + 1 \in 0..Size
      /\ m \in 0..(m + 1) /\ m \in 0..Size /\ m \in Nat
  BY SizeType
<1>1. label[m + 1] \in {0, 1}
  BY <1>0 DEF InputOK
<1>2. PositivesIn(0) = 0
  <2>1. {k \in 1..0 : label[k] = 1} = {}
    OBVIOUS
  <2> QED
    BY <2>1, FS_EmptySet DEF PositivesIn
<1> DEFINE next == m + 1
<1>3. next \in 0..Size /\ m \in 0..next /\ next = m + 1
  BY <1>0
<1>4. Pos(m, next) = IF label[next] = 1 THEN {next} ELSE {}
  BY <1>0 DEF Pos
<1> HIDE DEF next
<1>5. /\ PositivesIn(m) \in Nat /\ PositivesIn(next) \in Nat
      /\ Cardinality(Pos(m, next)) = PositivesIn(next) - PositivesIn(m)
  BY <1>3, StretchCounts
<1>6. Cardinality(Pos(m, next)) = label[next]
  <2>1. CASE label[next] = 1
    BY <1>4, <2>1, FS_Singleton
  <2>2. CASE label[next] = 0
    BY <1>4, <2>2, FS_EmptySet
  <2> QED
    BY <1>1, <1>3, <2>1, <2>2
<1>7. PositivesIn(next) <= next
  <2> DEFINE zero == 0
  <2>1. zero \in 0..next /\ next - zero = next /\ zero \in Int /\ next \in Int
    BY <1>0, <1>3
  <2>2. PositivesIn(zero) = 0
    BY <1>2
  <2> HIDE DEF zero
  <2>3. Cardinality(Neg(zero, next)) = (next - zero) - (PositivesIn(next) - PositivesIn(zero))
    BY <1>3, <2>1, StretchCounts
  <2>4. Cardinality(Neg(zero, next)) \in Nat
    BY <2>1, StretchFinite
  <2> QED
    BY <1>5, <2>1, <2>2, <2>3, <2>4
<1>8. PositivesIn(next) = PositivesIn(m) + label[next]
  BY <1>1, <1>3, <1>5, <1>6
<1> QED
  BY <1>1, <1>2, <1>5, <1>7, <1>8 DEF next

LEMMA PairsFinite ==
  ASSUME NEW S \in SUBSET (Positive \X Negative)
  PROVE  IsFiniteSet(S) /\ Cardinality(S) \in Nat
<1>1. IsFiniteSet(Index)
  <2> DEFINE one == 1
  <2>1. one \in Int /\ Size \in Int /\ Index = one..Size
    BY SizeType
  <2> HIDE DEF one
  <2> QED
    BY <2>1, FS_Interval
<1>2. IsFiniteSet(Positive) /\ IsFiniteSet(Negative)
  <2>1. Positive \in SUBSET Index /\ Negative \in SUBSET Index
    BY DEF Positive, Negative
  <2> QED
    BY <1>1, <2>1, FS_Subset
<1>3. IsFiniteSet(Positive \X Negative)
  BY <1>2, FS_Product
<1>4. IsFiniteSet(S)
  BY <1>3, FS_Subset
<1> QED
  BY <1>4, FS_CardinalityType

(* All pairs of two stretches. *)
LEMMA StretchPairs ==
  ASSUME InputOK, NEW a \in Nat, NEW b \in 0..Size, NEW c \in Nat, NEW d \in 0..Size
  PROVE  /\ Pos(a, b) \X Neg(c, d) \in SUBSET (Positive \X Negative)
         /\ Cardinality(Pos(a, b) \X Neg(c, d))
              = Cardinality(Pos(a, b)) * Cardinality(Neg(c, d))
<1>1. Pos(a, b) \subseteq Positive /\ Neg(c, d) \subseteq Negative
  BY SizeType DEF Pos, Neg, Positive, Negative
<1>2. IsFiniteSet(Pos(a, b)) /\ IsFiniteSet(Neg(c, d))
  <2>1. a \in Int /\ b \in Int /\ c \in Int /\ d \in Int
    OBVIOUS
  <2> QED
    BY <2>1, StretchFinite
<1> QED
  BY <1>1, <1>2, FS_Product

-----------------------------------------------------------------------------
(* Thresholds. *)

LEMMA ThresholdPlaces ==
  ASSUME InputOK
  PROVE  /\ Thresholds \subseteq Index /\ Size \in Thresholds
         /\ \A k \in 1..(Size - 1) : k \notin Thresholds => val[k] = val[k + 1]
BY SizeType DEF Thresholds

LEMMA MaxIs ==
  ASSUME NEW S \in SUBSET Int, NEW m \in S, \A e \in S : e <= m
  PROVE  Max(S) = m
<1>1. m \in S /\ \A e \in S : m >= e
  OBVIOUS
<1>2. \A a \in S : (\A e \in S : a >= e) => a = m
  OBVIOUS
<1>3. Max(S) = CHOOSE a \in S : \A e \in S : a >= e
  BY DEF Max
<1> QED
  BY <1>1, <1>2, <1>3

LEMMA MinIs ==
  ASSUME NEW S \in SUBSET Int, NEW m \in S, \A e \in S : m <= e
  PROVE  Min(S) = m
<1>1. m \in S /\ \A e \in S : m <= e
  OBVIOUS
<1>2. \A a \in S : (\A e \in S : a <= e) => a = m
  OBVIOUS
<1>3. Min(S) = CHOOSE a \in S : \A e \in S : a <= e
  BY DEF Min
<1> QED
  BY <1>1, <1>2, <1>3

(* The last threshold passed moves when the next sample is one.             *)
LEMMA PreviousSteps ==
  ASSUME InputOK
  PROVE  /\ Previous(1) = 0
         /\ \A k \in Index : Previous(k + 1) = IF k \in Thresholds THEN k ELSE Previous(k)
<1>0. Size \in Nat \ {0} /\ Index = 1..Size /\ Thresholds \subseteq Index
  BY SizeType, ThresholdPlaces
<1>3. \A e \in Thresholds : e \in Int /\ e >= 1
  BY <1>0
<1>4. \A k \in Index : k \in Int
  BY <1>0
<1>1. Previous(1) = 0
  <2>1. {e \in Thresholds : e < 1} = {}
    BY <1>3
  <2> QED
    BY <2>1 DEF Previous
<1>2. ASSUME NEW k \in Index
      PROVE  Previous(k + 1) = IF k \in Thresholds THEN k ELSE Previous(k)
  <2> DEFINE below == {e \in Thresholds : e < k}
             upto == {e \in Thresholds : e < k + 1}
  <2>1. CASE k \in Thresholds
    <3>1. upto \in SUBSET Int /\ k \in upto /\ \A e \in upto : e <= k
      BY <1>3, <1>4, <2>1
    <3>2. Max(upto) = k
      <4> HIDE DEF upto
      <4> QED
        BY <3>1, MaxIs
    <3> QED
      BY <2>1, <3>1, <3>2 DEF Previous
  <2>2. CASE k \notin Thresholds
    <3>1. upto = below
      BY <1>3, <1>4, <2>2
    <3>2. Previous(k + 1) = IF upto = {} THEN 0 ELSE Max(upto)
      BY DEF Previous
    <3>3. Previous(k) = IF below = {} THEN 0 ELSE Max(below)
      BY DEF Previous
    <3> HIDE DEF upto, below
    <3> QED
      BY <2>2, <3>1, <3>2, <3>3
  <2> QED
    BY <2>1, <2>2
<1> QED
  BY <1>1, <1>2

LEMMA PreviousBelow ==
  ASSUME InputOK
  PROVE  \A k \in 0..Size : Previous(k + 1) \in 0..k
<1>0. Size \in Nat \ {0} /\ Index = 1..Size
  BY SizeType
<1> DEFINE S == {k \in 0..Size : Previous(k + 1) \in 0..k}
<1>1. 0 \in S
  <2>1. 0 + 1 = 1 /\ 0 \in 0..Size
    BY <1>0
  <2>2. Previous(1) = 0
    BY PreviousSteps
  <2> QED
    BY <2>1, <2>2
<1>2. ASSUME NEW k \in 0..(Size - 1), k \in S
      PROVE  k + 1 \in S
  <2>1. k + 1 \in Index /\ k + 1 \in 0..Size /\ Previous(k + 1) \in 0..k
    BY <1>0, <1>2
  <2>2. Previous((k + 1) + 1) = IF k + 1 \in Thresholds THEN k + 1 ELSE Previous(k + 1)
    BY <2>1, PreviousSteps
  <2>3. Previous((k + 1) + 1) \in 0..(k + 1)
    BY <2>1, <2>2
  <2> QED
    BY <2>1, <2>3
<1>3. 0..Size \subseteq S
  <2> HIDE DEF S
  <2> QED
    BY <1>0, <1>1, <1>2, BoundedInduction
<1> QED
  BY <1>3

(* The reference precisions and areas are numbers. *)
LEMMA PrecisionType ==
  ASSUME InputOK, NEW k \in 0..Size
  PROVE  PositivesIn(k) \in Nat /\ PositivesIn(k) <= k /\ PrecisionAt(k) \in Int
<1>0. Size \in Nat \ {0} /\ One \in Nat \ {0} /\ k \in Nat
  BY SizeType, OneIsPositive
<1>1. PositivesIn(k) \in Nat /\ PositivesIn(k) <= k
  <2>1. CASE k = 0
    <3> DEFINE zero == 0
    <3>1. zero \in 0..(Size - 1) /\ zero = 0
      BY <1>0
    <3> HIDE DEF zero
    <3>2. PositivesIn(0) = 0
      BY <3>1, NextCount
    <3> QED
      BY <2>1, <3>2
  <2>2. CASE k # 0
    <3> DEFINE m == k - 1
    <3>1. m \in 0..(Size - 1) /\ m + 1 = k
      BY <1>0, <2>2
    <3> HIDE DEF m
    <3>2. PositivesIn(m + 1) \in Nat /\ PositivesIn(m + 1) <= m + 1
      BY <3>1, NextCount
    <3> QED
      BY <3>1, <3>2
  <2> QED
    BY <2>1, <2>2
<1>2. ASSUME k # 0
      PROVE  (PositivesIn(k) * One) \div k \in Int
  <2>1. k \in Nat \ {0} /\ PositivesIn(k) * One \in Int
    BY <1>0, <1>1, <1>2
  <2> QED
    BY <2>1, Division
<1> QED
  BY <1>0, <1>1, <1>2 DEF PrecisionAt

LEMMA TrapezoidType ==
  ASSUME InputOK, NEW k \in Index
  PROVE  Trapezoid(k) \in Int
<1> DEFINE m == k - 1
<1>1. m \in 0..Size /\ m + 1 = k /\ k \in 0..Size /\ m \in 0..k
  BY SizeType
<1> HIDE DEF m
<1>2. Previous(k) \in 0..Size
  <2>1. Previous(m + 1) \in 0..m
    BY <1>1, PreviousBelow
  <2> QED
    BY <1>1, <2>1, SizeType
<1>3. PositivesIn(k) \in Nat /\ PositivesIn(Previous(k)) \in Nat
      /\ PrecisionAt(k) \in Int /\ PrecisionAt(Previous(k)) \in Int
  BY <1>1, <1>2, PrecisionType
<1> QED
  BY <1>3 DEF Trapezoid

(* The area's recursion. *)
AreaRecurs ==
    /\ AreaTo[0] = 0
    /\ \A k \in Index :
          /\ AreaTo[k - 1] \in Int /\ AreaTo[k] \in Int
          /\ AreaTo[k] = AreaTo[k - 1] + (IF k \in Thresholds THEN Trapezoid(k) ELSE 0)

LEMMA AreaSums == InputOK => AreaRecurs
<1> SUFFICES ASSUME InputOK
             PROVE  AreaRecurs
  OBVIOUS
<1>0. Size \in Nat \ {0} /\ Index = 1..Size
  BY SizeType
<1> DEFINE part(k) == IF k \in Thresholds THEN Trapezoid(k) ELSE 0
           step == [q \in Nat \X Int |-> IF q[1] < Size THEN q[2] + part(q[1] + 1) ELSE q[2]]
           Recurs(f) == f = [k \in 0..Size |-> IF k = 0 THEN 0 ELSE f[k - 1] + part(k)]
           none == 0
<1>1. \A k \in Index : part(k) \in Int
  BY TrapezoidType
<1> HIDE DEF part
<1>2. step \in [Nat \X Int -> Int]
  <2>1. ASSUME NEW q \in Nat \X Int
        PROVE  (IF q[1] < Size THEN q[2] + part(q[1] + 1) ELSE q[2]) \in Int
    <3>1. q[1] \in Nat /\ q[2] \in Int
      OBVIOUS
    <3>2. CASE q[1] < Size
      <4>1. q[1] + 1 \in Index
        BY <1>0, <3>1, <3>2
      <4>2. part(q[1] + 1) \in Int
        BY <1>1, <4>1
      <4> QED
        BY <3>1, <3>2, <4>2
    <3> QED
      BY <3>1, <3>2
  <2> QED
    BY <2>1
<1>3. PICK g \in [0..Size -> Int] : Beginning(g, Size, none, step)
  <2>1. none \in Int
    OBVIOUS
  <2> HIDE DEF none, step
  <2> QED
    BY <1>0, <1>2, <2>1, BeginningExists
<1>4. g[0] = 0 /\ \A k \in 1..Size : g[k] = g[k - 1] + part(k)
  <2>1. g[0] = 0
    BY <1>3 DEF Beginning
  <2>2. ASSUME NEW k \in 1..Size PROVE g[k] = g[k - 1] + part(k)
    <3>1. k - 1 \in 0..(Size - 1) /\ (k - 1) + 1 = k /\ k - 1 \in Nat /\ k - 1 < Size
          /\ k - 1 \in 0..Size
      BY <1>0
    <3>2. g[k] = step[<<k - 1, g[k - 1]>>]
      BY <1>3, <3>1 DEF Beginning
    <3>3. <<k - 1, g[k - 1]>> \in Nat \X Int
      BY <3>1
    <3> QED
      BY <3>1, <3>2, <3>3
  <2> QED
    BY <2>1, <2>2
<1>5. Recurs(g)
  <2>1. \A k \in 0..Size : g[k] = IF k = 0 THEN 0 ELSE g[k - 1] + part(k)
    BY <1>4
  <2> QED
    BY <2>1
<1>6. Recurs(CHOOSE f : Recurs(f))
  <2> HIDE DEF Recurs
  <2> QED
    BY <1>5
<1>7. AreaTo = CHOOSE f : Recurs(f)
  BY DEF AreaTo, part
<1> DEFINE s == CHOOSE f : Recurs(f)
<1>8. Recurs(s) /\ AreaTo = s
  <2> HIDE DEF Recurs
  <2> QED
    BY <1>6, <1>7
<1> HIDE DEF s
<1>9. /\ s[0] = 0
      /\ \A k \in 1..Size : s[k] = s[k - 1] + part(k)
  BY <1>0, <1>8
<1>10. \A k \in 0..Size : s[k] \in Int
  <2> DEFINE S == {k \in 0..Size : s[k] \in Int}
  <2>1. 0 \in S
    BY <1>0, <1>9
  <2>2. ASSUME NEW k \in 0..(Size - 1), k \in S PROVE k + 1 \in S
    <3>1. k + 1 \in 1..Size /\ (k + 1) - 1 = k /\ k + 1 \in 0..Size
      BY <1>0
    <3> QED
      BY <1>0, <1>1, <1>9, <2>2, <3>1
  <2>3. 0..Size \subseteq S
    <3> HIDE DEF S
    <3> QED
      BY <1>0, <2>1, <2>2, BoundedInduction
  <2> QED
    BY <2>3
<1>11. \A k \in Index : k - 1 \in 0..Size /\ k \in 0..Size
  BY <1>0
<1> QED
  BY <1>0, <1>8, <1>9, <1>10, <1>11 DEF part, AreaRecurs

LEMMA AreaSumsNext == InputOK' => AreaRecurs'
BY AreaSums, PTL

(* What the input determines stays as long as the input does. *)
LEMMA SameReference ==
  ASSUME InputOK, UNCHANGED input
  PROVE  /\ InputOK'
         /\ Thresholds' = Thresholds /\ Positive' = Positive /\ Negative' = Negative
         /\ \A k : PositivesIn(k)' = PositivesIn(k)
         /\ \A k : Previous(k)' = Previous(k)
         /\ \A k : Lagging(k)' = Lagging(k)
         /\ \A k : PrecisionAt(k)' = PrecisionAt(k)
         /\ \A k : Trapezoid(k)' = Trapezoid(k)
         /\ \A k : OrderedTo(k)' = OrderedTo(k)
         /\ \A k : AboveTo(k)' = AboveTo(k) /\ TiedTo(k)' = TiedTo(k)
         /\ \A k : Grouped(k)' = Grouped(k)
         /\ Blinded' = Blinded
<1>0. metric' = metric /\ val' = val /\ label' = label /\ scalar' = scalar
  BY DEF input
<1>1. InputOK'
  BY <1>0 DEF InputOK
<1>2. Thresholds' = Thresholds /\ Positive' = Positive
  BY <1>0 DEF Thresholds, Positive
<1>3. Negative' = Negative
  BY <1>2 DEF Negative
<1>4. \A k : PositivesIn(k)' = PositivesIn(k)
  BY <1>0 DEF PositivesIn
<1>5. \A k : Previous(k)' = Previous(k)
  BY <1>2 DEF Previous
<1>6. \A k : Lagging(k)' = Lagging(k)
  BY <1>4 DEF Lagging
<1>7. \A k : PrecisionAt(k)' = PrecisionAt(k)
  BY <1>4 DEF PrecisionAt
<1>8. \A k : Trapezoid(k)' = Trapezoid(k)
  BY <1>4, <1>5, <1>7 DEF Trapezoid
<1>9. \A k : OrderedTo(k)' = OrderedTo(k)
  BY <1>2, <1>3 DEF OrderedTo
<1>10. \A k : AboveTo(k)' = AboveTo(k) /\ TiedTo(k)' = TiedTo(k)
  BY <1>0, <1>2, <1>3 DEF AboveTo, TiedTo
<1>11. \A k : Grouped(k)' = Grouped(k)
  BY <1>0 DEF Grouped, Difference
<1>12. Blinded' = Blinded
  BY <1>0 DEF Blinded
<1> QED
  BY <1>1, <1>2, <1>3, <1>4, <1>5, <1>6, <1>7, <1>8, <1>9, <1>10, <1>11, <1>12

LEMMA SameArea ==
  ASSUME InputOK, UNCHANGED input
  PROVE  \A k \in 0..Size : AreaTo'[k] = AreaTo[k]
<1>0. Size \in Nat \ {0} /\ Index = 1..Size
  BY SizeType
<1>1. /\ AreaTo[0] = 0
      /\ \A k \in Index :
            AreaTo[k] = AreaTo[k - 1] + (IF k \in Thresholds THEN Trapezoid(k) ELSE 0)
  BY AreaSums DEF AreaRecurs
<1>2. /\ AreaTo'[0] = 0
      /\ \A k \in Index :
            AreaTo'[k] = AreaTo'[k - 1] + (IF k \in Thresholds' THEN Trapezoid(k)' ELSE 0)
  <2>1. AreaRecurs'
    BY SameReference, AreaSumsNext
  <2> QED
    BY <2>1 DEF AreaRecurs
<1>3. Thresholds' = Thresholds /\ \A k : Trapezoid(k)' = Trapezoid(k)
  BY SameReference
<1> DEFINE S == {k \in 0..Size : AreaTo'[k] = AreaTo[k]}
<1>4. 0 \in S
  BY <1>0, <1>1, <1>2
<1>5. ASSUME NEW k \in 0..(Size - 1), k \in S PROVE k + 1 \in S
  <2>1. k + 1 \in Index /\ (k + 1) - 1 = k /\ k + 1 \in 0..Size
    BY <1>0
  <2>2. AreaTo[k + 1] = AreaTo[k] + (IF k + 1 \in Thresholds THEN Trapezoid(k + 1) ELSE 0)
    BY <1>1, <2>1
  <2>3. AreaTo'[k + 1] = AreaTo'[k] + (IF k + 1 \in Thresholds THEN Trapezoid(k + 1) ELSE 0)
    BY <1>2, <1>3, <2>1
  <2> QED
    BY <1>5, <2>1, <2>2, <2>3
<1>6. 0..Size \subseteq S
  <2> HIDE DEF S
  <2> QED
    BY <1>0, <1>4, <1>5, BoundedInduction
<1> QED
  BY <1>6

-----------------------------------------------------------------------------
(* The flags and the precisions that the calls before the loop leave. *)

LEMMA FlagsAreThresholds ==
  ASSUME InputOK, Blinded, NEW k \in Index
  PROVE  Grouped(k) = IF k \in Thresholds THEN 1 ELSE 0
<1>0. Size \in Nat \ {0} /\ Index = 1..Size /\ One \in Nat \ {0}
  BY SizeType, OneIsPositive
<1>1. scalar[k] \in Nat /\ val[k] \in Values
  BY ScalarsAssumption DEF InputOK
<1> DEFINE c == scalar[k]
<1>2. CASE k = Size
  <2>1. (4 * One * c) % RING # 0
    BY DEF Blinded
  <2>2. Grouped(k) = 1
    BY <1>2, <2>1 DEF Grouped, Difference
  <2> QED
    BY <1>2, <2>2, ThresholdPlaces
<1>3. CASE k # Size
  <2> DEFINE next == k + 1
             half == RING \div 2
             d == val[k] - val[next]
  <2>1. next \in Index /\ k <= next
    BY <1>0, <1>3
  <2>2. val[next] \in Values /\ val[k] >= val[next]
    BY <2>1 DEF InputOK
  <2>3. RING \in Nat \ {0} /\ half \in Int /\ Values \subseteq 0..(half - 1)
    <3>1. RING \in Int /\ RING \in Nat \ {0} /\ 2 \in Nat \ {0}
      BY RINGAssumption
    <3> QED
      BY <3>1, RINGAssumption, Division
  <2>4. Grouped(k) = IF (d * c) % RING = 0 THEN 0 ELSE 1
    BY <1>3 DEF Grouped, Difference
  <2>5. k \in Thresholds <=> val[k] # val[next]
    BY <1>3 DEF Thresholds
  <2>6. d \in 0..(half - 1) /\ (d = 0 <=> val[k] = val[next])
    <3> DEFINE x == val[k]
               y == val[next]
    <3> HIDE DEF half, next
    <3>1. x \in 0..(half - 1) /\ y \in 0..(half - 1) /\ x >= y /\ d = x - y
      BY <1>1, <2>2, <2>3
    <3> HIDE DEF x, y, d
    <3>2. d \in 0..(half - 1) /\ (d = 0 <=> x = y)
      BY <2>3, <3>1
    <3> QED
      BY <3>2 DEF x, y
  <2>7. CASE d = 0
    <3>1. d * c = 0
      BY <1>1, <2>7
    <3>2. 0 % RING = 0
      <4> DEFINE zero == 0
      <4>1. zero \in 0..(RING - 1)
        BY <2>3
      <4>2. zero % RING = zero
        <5> HIDE DEF zero
        <5> QED
          BY <2>3, <4>1, SmallRemainder
      <4> QED
        BY <4>2
    <3> QED
      BY <2>4, <2>5, <2>6, <2>7, <3>1, <3>2
  <2>8. CASE d # 0
    <3>1. d \in 1..(half - 1)
      <4> HIDE DEF d, half
      <4> QED
        BY <2>3, <2>6, <2>8
    <3>2. (d * c) % RING # 0
      <4> HIDE DEF d
      <4> QED
        BY <3>1 DEF Blinded
    <3> QED
      BY <2>4, <2>5, <2>6, <2>8, <3>2
  <2> QED
    BY <2>7, <2>8
<1> QED
  BY <1>2, <1>3

LEMMA NormIsPrecision ==
  ASSUME InputOK, NEW k \in Index
  PROVE  NORM(PositivesIn(k) * One, k * One) = PrecisionAt(k)
<1>0. Size \in Nat \ {0} /\ Index = 1..Size /\ One \in Nat \ {0} /\ k \in 0..Size
      /\ k \in Nat \ {0}
  BY SizeType, OneIsPositive
<1> DEFINE p == PositivesIn(k)
           one == One
           a == p * one
<1>1. p \in Nat /\ p <= k
  BY <1>0, PrecisionType
<1>2. one \in Nat \ {0} /\ one = One
  BY <1>0
<1> HIDE DEF p, one
<1>3. a \in Nat /\ a = p * One
  BY <1>1, <1>2
<1>4. CASE p = k
  <2>1. a = k * One
    BY <1>3, <1>4
  <2>2. NORM(a, k * One) = One - 1
    <3> HIDE DEF a
    <3> QED
      BY <1>0, <1>3, <2>1, NormValue
  <2> QED
    BY <1>0, <1>3, <1>4, <2>2 DEF PrecisionAt, p
<1>5. CASE p # k
  <2>1. p + 1 <= k
    BY <1>0, <1>1, <1>5
  <2>2. a < k * one
    <3>1. (p + 1) * one <= k * one
      BY <1>0, <1>1, <1>2, <2>1
    <3> QED
      BY <1>0, <1>1, <1>2, <3>1
  <2>3. NORM(a, k * One) = a \div k
    <3>1. a < k * One
      BY <1>2, <2>2
    <3> HIDE DEF a
    <3> QED
      BY <1>0, <1>3, <3>1, NormValue
  <2> QED
    BY <1>0, <1>2, <1>3, <1>5, <2>3 DEF PrecisionAt, p
<1> QED
  BY <1>4, <1>5

-----------------------------------------------------------------------------
(* One more sample, of any metric. *)

(* The samples since the last threshold passed are tied, the next one with  *)
(* them, and are below all that come before.                                *)
LEMMA GroupIsTied ==
  ASSUME InputOK, LoopInv, i \in 0..Size, i < Size
  PROVE  /\ \A a, b \in (Passed + 1)..(i + 1) : val[a] = val[b]
         /\ \A a \in 1..Passed, b \in (Passed + 1)..(i + 1) : val[a] > val[b]
<1> DEFINE t == Passed
           k == i + 1
<1>0. Size \in Nat \ {0} /\ Index = 1..Size /\ i \in Nat /\ t \in 0..i /\ k = i + 1
      /\ k \in Index
  BY SizeType DEF LoopInv
<1>1. \A a, b \in (t + 1)..i : val[a] = val[b]
  BY DEF LoopInv
<1>2. /\ t # 0 => t \in Thresholds
      /\ \A e \in Thresholds : e <= i => e <= t
  BY DEF LoopInv
<1>3. \A a \in Index : val[a] \in Int
  <2> DEFINE half == RING \div 2
  <2>1. Values \subseteq 0..(half - 1)
    BY RINGAssumption
  <2> HIDE DEF half
  <2>2. Values \subseteq Int
    BY <2>1
  <2> QED
    BY <2>2 DEF InputOK
<1>4. \A a, b \in Index : a <= b => val[a] >= val[b]
  BY DEF InputOK
<1> HIDE DEF t, k
<1>5. i > t => val[i] = val[k]
  <2> SUFFICES ASSUME i > t
               PROVE  val[i] = val[k]
    OBVIOUS
  <2>1. i \in 1..(Size - 1) /\ i \notin Thresholds
    BY <1>0, <1>2
  <2> QED
    BY <1>0, <2>1, ThresholdPlaces
<1>6. ASSUME NEW a \in (t + 1)..k
      PROVE  val[a] = val[k]
  <2>1. CASE a = k
    BY <2>1
  <2>2. CASE a # k
    <3>1. a \in (t + 1)..i /\ i \in (t + 1)..i /\ i > t
      BY <1>0, <2>2
    <3> QED
      BY <1>1, <1>5, <3>1
  <2> QED
    BY <2>1, <2>2
<1>7. ASSUME NEW a \in 1..t, NEW b \in (t + 1)..k
      PROVE  val[a] > val[b]
  <2> DEFINE next == t + 1
  <2>1. t \in Thresholds /\ t # Size /\ t \in Index /\ next \in Index
        /\ a \in Index /\ b \in Index /\ a <= t /\ t <= next /\ next <= b
    BY <1>0, <1>2
  <2>2. val[t] # val[next]
    BY <2>1 DEF Thresholds
  <2>3. val[a] >= val[t] /\ val[t] >= val[next] /\ val[next] >= val[b]
        /\ val[a] \in Int /\ val[t] \in Int /\ val[next] \in Int /\ val[b] \in Int
    <3> HIDE DEF next
    <3> QED
      BY <1>3, <1>4, <2>1
  <2> QED
    BY <2>2, <2>3
<1> QED
  BY <1>6, <1>7 DEF t, k

LEMMA Sampling ==
  ASSUME CurveInv, pc = "loop", i < Size, i' = i + 1, TP' = TP + label[i + 1],
         UNCHANGED <<input, conf, precs, auc, pc>>
  PROVE  /\ InputOK' /\ StageInv' /\ LoopInv'
         /\ conf' \in [Index -> {0, 1}] /\ precs' \in [Index -> Int]
         /\ i' \in 0..Size /\ TP' \in Int
         /\ i + 1 \in Index /\ TP' = PositivesIn(i + 1)
         /\ Passed' = IF i + 1 \in Thresholds THEN i + 1 ELSE Passed
<1> DEFINE t == Passed
           k == i + 1
<1>0. Size \in Nat \ {0} /\ Index = 1..Size /\ i \in 0..(Size - 1) /\ k = i + 1
      /\ k \in Index /\ k \in 0..Size /\ InputOK /\ LoopInv /\ StageInv /\ TypeInv
  BY SizeType DEF CurveInv, TypeInv
<1>1. /\ InputOK' /\ Thresholds' = Thresholds
      /\ \A n : PositivesIn(n)' = PositivesIn(n)
      /\ \A n : Previous(n)' = Previous(n)
      /\ \A n : PrecisionAt(n)' = PrecisionAt(n)
      /\ \A n : Grouped(n)' = Grouped(n)
      /\ metric' = metric /\ val' = val
  BY <1>0, SameReference DEF input
<1>2. TP' = PositivesIn(k) /\ TP' \in Int
  <2>1. PositivesIn(i + 1) = PositivesIn(i) + label[i + 1] /\ PositivesIn(i + 1) \in Nat
    BY <1>0, NextCount
  <2>2. TP = PositivesIn(i)
    BY <1>0 DEF LoopInv
  <2> QED
    BY <2>1, <2>2
<1>3. Passed' = IF k \in Thresholds THEN k ELSE Passed
  <2>1. Passed' = Previous(k + 1)
    BY <1>1 DEF Passed
  <2>2. Previous(k + 1) = IF k \in Thresholds THEN k ELSE Previous(k)
    BY <1>0, PreviousSteps
  <2> QED
    BY <2>1, <2>2 DEF Passed
<1>4. StageInv'
  <2>1. pc # "group" /\ pc = "loop" /\ pc' = pc /\ conf' = conf /\ precs' = precs
    OBVIOUS
  <2>2. metric # "ROCNOTIE" => conf = [n \in Index |-> Grouped(n)]
    BY <1>0, <2>1 DEF StageInv
  <2>3. metric = "PRCURVE" => \A n \in Index : precs[n] = PrecisionAt(n)
    BY <1>0, <2>1 DEF StageInv
  <2>4. metric' # "ROCNOTIE" => conf' = [n \in Index |-> Grouped(n)']
    BY <1>1, <2>1, <2>2
  <2>5. metric' = "PRCURVE" => \A n \in Index : precs'[n] = PrecisionAt(n)'
    BY <1>1, <2>1, <2>3
  <2> QED
    BY <2>1, <2>4, <2>5 DEF StageInv
<1>5. LoopInv'
  <2> DEFINE u == IF k \in Thresholds THEN k ELSE t
  <2>1. /\ t \in 0..i /\ (t # 0 => t \in Thresholds)
        /\ \A e \in Thresholds : e <= i => e <= t
    BY <1>0 DEF LoopInv
  <2>2. \A a, b \in (t + 1)..k : val[a] = val[b]
    BY <1>0, GroupIsTied
  <2>3. \A e \in Thresholds : e \in Int
    BY <1>0, ThresholdPlaces
  <2>4. Passed' = u
    BY <1>3
  <2> HIDE DEF t, k
  <2>5. u \in 0..k /\ (u # 0 => u \in Thresholds)
    BY <1>0, <2>1
  <2>6. \A e \in Thresholds : e <= k => e <= u
    BY <1>0, <2>1, <2>3
  <2>7. \A a, b \in (u + 1)..k : val[a] = val[b]
    <3>1. CASE k \in Thresholds
      BY <1>0, <3>1
    <3>2. CASE k \notin Thresholds
      BY <2>2, <3>2
    <3> QED
      BY <3>1, <3>2
  <2> HIDE DEF u
  <2>8. i' = k /\ TP' = PositivesIn(i)'
    BY <1>1, <1>2 DEF k
  <2> QED
    BY <1>1, <2>4, <2>5, <2>6, <2>7, <2>8 DEF LoopInv
<1>6. conf' \in [Index -> {0, 1}] /\ precs' \in [Index -> Int] /\ i' \in 0..Size
  BY <1>0 DEF TypeInv
<1> QED
  BY <1>0, <1>1, <1>2, <1>3, <1>4, <1>5, <1>6

-----------------------------------------------------------------------------
(* The pairs that one more sample, or one more group, adds. *)

LEMMA OrderedGrows ==
  ASSUME InputOK, NEW m \in 0..(Size - 1)
  PROVE  /\ Cardinality(OrderedTo(0)) = 0
         /\ Cardinality(OrderedTo(m)) \in Nat
         /\ Cardinality(OrderedTo(m + 1))
              = Cardinality(OrderedTo(m)) + PositivesIn(m) * (1 - label[m + 1])
<1>0. Size \in Nat \ {0} /\ Index = 1..Size /\ m \in Nat /\ m \in 0..Size
  BY SizeType
<1>1. OrderedTo(0) = {}
  <2>1. \A e \in Positive \X Negative : e[2] \in Int /\ e[2] >= 1
    BY <1>0 DEF Negative
  <2> QED
    BY <2>1 DEF OrderedTo
<1> DEFINE k == m + 1
           zero == 0
           new == Pos(zero, m) \X Neg(m, k)
<1>2. k \in 0..Size /\ m \in 0..k /\ zero \in 0..m /\ zero \in Nat /\ zero = 0
  BY <1>0
<1>3. OrderedTo(m) \in SUBSET (Positive \X Negative)
  BY DEF OrderedTo
<1>4. OrderedTo(k) = OrderedTo(m) \cup new
  <2>1. ASSUME NEW e \in Positive \X Negative, e[1] < e[2], e[2] <= k, ~(e[2] <= m)
        PROVE  e \in new
    <3>1. e[1] \in Index /\ label[e[1]] = 1 /\ e[2] \in Index /\ label[e[2]] = 0 /\ e = <<e[1], e[2]>>
      BY <1>0 DEF Positive, Negative, InputOK
    <3>2. e[1] \in 1..m /\ e[2] \in (m + 1)..k
      BY <1>0, <2>1, <3>1
    <3> QED
      BY <3>1, <3>2 DEF Pos, Neg
  <2>2. ASSUME NEW e \in new
        PROVE  e \in Positive \X Negative /\ e[1] < e[2] /\ e[2] <= k
    <3>1. new \in SUBSET (Positive \X Negative)
      <4> HIDE DEF k, zero
      <4> QED
        BY <1>0, <1>2, StretchPairs
    <3>2. e[1] \in 1..m /\ e[2] \in (m + 1)..k
      BY DEF Pos, Neg
    <3> QED
      BY <1>0, <3>1, <3>2
  <2>3. OrderedTo(m) \subseteq OrderedTo(k)
    <3>1. \A e \in Positive \X Negative : e[2] \in Int
      BY <1>0 DEF Negative
    <3> QED
      BY <1>0, <3>1 DEF OrderedTo
  <2> HIDE DEF new, k
  <2>4. new \subseteq OrderedTo(k)
    BY <2>2 DEF OrderedTo
  <2>5. OrderedTo(k) \subseteq OrderedTo(m) \cup new
    <3>1. ASSUME NEW e \in OrderedTo(k) PROVE e \in OrderedTo(m) \/ e \in new
      <4>1. e \in Positive \X Negative /\ e[1] < e[2] /\ e[2] <= k
        BY DEF OrderedTo
      <4>2. CASE e[2] <= m
        BY <4>1, <4>2 DEF OrderedTo
      <4>3. CASE ~(e[2] <= m)
        BY <2>1, <4>1, <4>3
      <4> QED
        BY <4>2, <4>3
    <3> QED
      BY <3>1
  <2> QED
    BY <2>3, <2>4, <2>5
<1>5. OrderedTo(m) \cap new = {}
  <2>1. \A e \in new : e[2] \in (m + 1)..k
    BY DEF Neg
  <2>2. \A e \in new : ~(e[2] <= m)
    BY <1>0, <2>1
  <2> HIDE DEF new
  <2> QED
    BY <2>2 DEF OrderedTo
<1>6. label[k] \in {0, 1} /\ PositivesIn(m) \in Nat /\ PositivesIn(k) = PositivesIn(m) + label[k]
      /\ PositivesIn(zero) = 0
  BY NextCount
<1> HIDE DEF k, zero
<1>7. new \in SUBSET (Positive \X Negative)
      /\ Cardinality(new) = Cardinality(Pos(zero, m)) * Cardinality(Neg(m, k))
  BY <1>0, <1>2, StretchPairs
<1>8. Cardinality(Pos(zero, m)) = PositivesIn(m) - PositivesIn(zero)
  BY <1>0, <1>2, StretchCounts
<1>9. Cardinality(Neg(m, k)) = (k - m) - (PositivesIn(k) - PositivesIn(m))
  BY <1>0, <1>2, StretchCounts
<1>10. Cardinality(Neg(m, k)) = 1 - label[k]
  BY <1>0, <1>6, <1>9 DEF k
<1>11. Cardinality(Pos(zero, m)) = PositivesIn(m)
  BY <1>6, <1>8
<1>12. Cardinality(OrderedTo(k)) = Cardinality(OrderedTo(m)) + Cardinality(new)
  <2>1. IsFiniteSet(OrderedTo(m)) /\ IsFiniteSet(new)
    BY <1>3, <1>7, PairsFinite
  <2> HIDE DEF new
  <2> QED
    BY <1>4, <1>5, <2>1, DisjointUnion
<1>13. Cardinality(OrderedTo(m)) \in Nat
  BY <1>3, PairsFinite
<1> HIDE DEF new
<1> QED
  BY <1>1, <1>7, <1>10, <1>11, <1>12, <1>13, FS_EmptySet DEF k

(* A group: samples t + 1 to k are tied, and below all that come before.    *)
LEMMA PairsGrow ==
  ASSUME InputOK, NEW k \in 0..Size, NEW t \in 0..k,
         \A a, b \in (t + 1)..k : val[a] = val[b],
         \A a \in 1..t, b \in (t + 1)..k : val[a] > val[b]
  PROVE  /\ Cardinality(AboveTo(t)) \in Nat /\ Cardinality(TiedTo(t)) \in Nat
         /\ Cardinality(AboveTo(k))
              = Cardinality(AboveTo(t)) + PositivesIn(t) * Cardinality(Neg(t, k))
         /\ Cardinality(TiedTo(k))
              = Cardinality(TiedTo(t)) + Cardinality(Pos(t, k)) * Cardinality(Neg(t, k))
<1>0. Size \in Nat \ {0} /\ Index = 1..Size /\ t \in Nat /\ k \in Nat /\ t \in 0..Size
  BY SizeType
<1> DEFINE zero == 0
           above == Pos(zero, t) \X Neg(t, k)
           tied == Pos(t, k) \X Neg(t, k)
<1>1. \A a \in Index : val[a] \in Int
  <2> DEFINE half == RING \div 2
  <2>1. Values \subseteq 0..(half - 1)
    BY RINGAssumption
  <2> HIDE DEF half
  <2>2. Values \subseteq Int
    BY <2>1
  <2> QED
    BY <2>2 DEF InputOK
<1>2. /\ AboveTo(t) \in SUBSET (Positive \X Negative)
      /\ TiedTo(t) \in SUBSET (Positive \X Negative)
  BY DEF AboveTo, TiedTo
<1>3. zero \in Nat /\ zero \in 0..t /\ zero = 0
  BY <1>0
<1>4. /\ above \in SUBSET (Positive \X Negative) /\ tied \in SUBSET (Positive \X Negative)
      /\ Cardinality(above) = Cardinality(Pos(zero, t)) * Cardinality(Neg(t, k))
      /\ Cardinality(tied) = Cardinality(Pos(t, k)) * Cardinality(Neg(t, k))
  <2> HIDE DEF zero
  <2>1. /\ Pos(zero, t) \X Neg(t, k) \in SUBSET (Positive \X Negative)
        /\ Cardinality(Pos(zero, t) \X Neg(t, k))
             = Cardinality(Pos(zero, t)) * Cardinality(Neg(t, k))
    <3>1. zero \in Nat /\ t \in 0..Size /\ t \in Nat /\ k \in 0..Size
      BY <1>0, <1>3
    <3> QED
      BY <3>1, StretchPairs
  <2>2. /\ Pos(t, k) \X Neg(t, k) \in SUBSET (Positive \X Negative)
        /\ Cardinality(Pos(t, k) \X Neg(t, k))
             = Cardinality(Pos(t, k)) * Cardinality(Neg(t, k))
    BY <1>0, StretchPairs
  <2> QED
    BY <2>1, <2>2
<1>5. Cardinality(Pos(zero, t)) = PositivesIn(t)
  <2>1. PositivesIn(zero) = 0 /\ PositivesIn(t) \in Nat
    <3>1. {j \in 1..0 : label[j] = 1} = {}
      OBVIOUS
    <3> QED
      BY <1>0, <3>1, FS_EmptySet, PrecisionType DEF PositivesIn
  <2> HIDE DEF zero
  <2>2. Cardinality(Pos(zero, t)) = PositivesIn(t) - PositivesIn(zero)
    BY <1>0, <1>3, StretchCounts
  <2> QED
    BY <2>1, <2>2
<1>6. ASSUME NEW e \in Positive \X Negative
      PROVE  /\ e[1] \in Index /\ label[e[1]] = 1 /\ e[2] \in Index /\ label[e[2]] = 0
             /\ e = <<e[1], e[2]>> /\ e[1] \in Int /\ e[2] \in Int /\ e[1] >= 1 /\ e[2] >= 1
  BY <1>0 DEF Positive, Negative, InputOK
<1>7. \A e \in above : e[1] \in 1..t /\ e[2] \in (t + 1)..k
  BY DEF Pos, Neg
<1>8. \A e \in tied : e[1] \in (t + 1)..k /\ e[2] \in (t + 1)..k
  BY DEF Pos, Neg
<1>9. ASSUME NEW e \in Positive \X Negative, e[1] <= k, e[2] <= k, ~(e[1] <= t /\ e[2] <= t)
      PROVE  /\ val[e[1]] > val[e[2]] <=> e \in above
             /\ val[e[1]] = val[e[2]] <=> e \in tied
  <2> DEFINE a == e[1]
             b == e[2]
  <2>1. a \in Index /\ label[a] = 1 /\ b \in Index /\ label[b] = 0 /\ e = <<a, b>>
        /\ a \in 1..k /\ b \in 1..k /\ ~(a <= t /\ b <= t) /\ val[a] \in Int /\ val[b] \in Int
    BY <1>0, <1>1, <1>6, <1>9
  <2>2. e \in above <=> a \in 1..t /\ b \in (t + 1)..k
    BY <2>1 DEF Pos, Neg
  <2>3. e \in tied <=> a \in (t + 1)..k /\ b \in (t + 1)..k
    BY <2>1 DEF Pos, Neg
  <2> HIDE DEF a, b, above, tied
  <2>4. CASE a \in 1..t
    <3>1. b \in (t + 1)..k /\ ~(a \in (t + 1)..k)
      BY <1>0, <2>1, <2>4
    <3>2. val[a] > val[b]
      BY <2>4, <3>1
    <3> QED
      BY <2>1, <2>2, <2>3, <2>4, <3>1, <3>2 DEF a, b
  <2>5. CASE a \in (t + 1)..k
    <3>1. ~(a \in 1..t)
      BY <1>0, <2>5
    <3>2. CASE b \in (t + 1)..k
      <4>1. val[a] = val[b]
        BY <2>5, <3>2
      <4> QED
        BY <2>1, <2>2, <2>3, <2>5, <3>1, <3>2, <4>1 DEF a, b
    <3>3. CASE b \in 1..t
      <4>1. val[b] > val[a] /\ ~(b \in (t + 1)..k)
        BY <1>0, <2>5, <3>3
      <4> QED
        BY <2>1, <2>2, <2>3, <3>1, <4>1 DEF a, b
    <3> QED
      BY <1>0, <2>1, <3>2, <3>3
  <2> QED
    BY <1>0, <2>1, <2>4, <2>5
<1>10. \A e \in Positive \X Negative :
          /\ e[1] <= t => e[1] <= k
          /\ e[2] <= t => e[2] <= k
          /\ e \in above => e[1] <= k /\ e[2] <= k /\ ~(e[1] <= t /\ e[2] <= t)
          /\ e \in tied => e[1] <= k /\ e[2] <= k /\ ~(e[1] <= t /\ e[2] <= t)
  <2> HIDE DEF above, tied
  <2> QED
    BY <1>0, <1>6, <1>7, <1>8
<1> HIDE DEF above, tied, zero
<1>11. AboveTo(k) = AboveTo(t) \cup above /\ AboveTo(t) \cap above = {}
  BY <1>4, <1>9, <1>10 DEF AboveTo
<1>12. TiedTo(k) = TiedTo(t) \cup tied /\ TiedTo(t) \cap tied = {}
  BY <1>4, <1>9, <1>10 DEF TiedTo
<1>13. /\ IsFiniteSet(AboveTo(t)) /\ IsFiniteSet(TiedTo(t))
       /\ IsFiniteSet(above) /\ IsFiniteSet(tied)
       /\ Cardinality(AboveTo(t)) \in Nat /\ Cardinality(TiedTo(t)) \in Nat
  BY <1>2, <1>4, PairsFinite
<1>14. Cardinality(AboveTo(k)) = Cardinality(AboveTo(t)) + Cardinality(above)
  BY <1>11, <1>13, DisjointUnion
<1>15. Cardinality(TiedTo(k)) = Cardinality(TiedTo(t)) + Cardinality(tied)
  BY <1>12, <1>13, DisjointUnion
<1> QED
  BY <1>4, <1>5, <1>13, <1>14, <1>15

-----------------------------------------------------------------------------
(* The actions. *)

LEMMA NoTieStep ==
  ASSUME CurveInv, SampleNoTie
  PROVE  CurveInv'
<1> DEFINE k == i + 1
           tp == TP + label[i + 1]
           fp == (k - 1) - tp
<1>1. /\ metric = "ROCNOTIE" /\ pc = "loop" /\ i < Size /\ i' = i + 1 /\ TP' = tp
      /\ numerator' = numerator + tp * (fp - pre_FP) /\ pre_FP' = fp
      /\ pre_TP' = pre_TP /\ pre_prec' = pre_prec /\ numerator2' = numerator2
      /\ UNCHANGED <<input, conf, precs, auc, pc>>
  BY DEF SampleNoTie, More, WithSample, FP
<1>2. InputOK /\ TypeInv /\ LoopInv /\ NoTieInv
  BY DEF CurveInv
<1>3. /\ InputOK' /\ StageInv' /\ LoopInv'
      /\ conf' \in [Index -> {0, 1}] /\ precs' \in [Index -> Int]
      /\ i' \in 0..Size /\ TP' \in Int
      /\ i + 1 \in Index /\ TP' = PositivesIn(i + 1)
  BY <1>1, Sampling
<1>4. i \in 0..(Size - 1) /\ i \in Nat /\ i + 1 # 0
  BY <1>1, <1>2, SizeType DEF TypeInv
<1>5. numerator \in Int /\ pre_FP \in Int /\ TP \in Int
  BY <1>2 DEF TypeInv
<1>6. /\ label[i + 1] \in {0, 1} /\ PositivesIn(i) \in Nat
      /\ PositivesIn(i + 1) = PositivesIn(i) + label[i + 1] /\ PositivesIn(0) = 0
  BY <1>2, <1>4, NextCount
<1>7. TP = PositivesIn(i) /\ tp = PositivesIn(i + 1) /\ tp \in Int /\ fp \in Int
  BY <1>1, <1>2, <1>3, <1>4, <1>6 DEF LoopInv
<1>8. /\ pre_FP = Lagging(i)
      /\ numerator + (IF i = 0 THEN 0 ELSE label[1]) = Cardinality(OrderedTo(i))
  BY <1>1, <1>2 DEF NoTieInv
<1>9. /\ Cardinality(OrderedTo(0)) = 0
      /\ Cardinality(OrderedTo(i)) \in Nat
      /\ Cardinality(OrderedTo(i + 1))
              = Cardinality(OrderedTo(i)) + PositivesIn(i) * (1 - label[i + 1])
  BY <1>2, <1>4, OrderedGrows
<1>10. TypeInv'
  <2>1. numerator' \in Int /\ pre_FP' \in Int
    <3> HIDE DEF tp, fp
    <3> QED
      BY <1>1, <1>5, <1>7
  <2> QED
    BY <1>1, <1>2, <1>3, <2>1 DEF TypeInv
<1>11. pre_FP' = Lagging(i + 1)
  BY <1>1, <1>4, <1>7 DEF Lagging
<1>12. numerator' + label[1] = Cardinality(OrderedTo(i + 1))
  <2>1. CASE i = 0
    <3>1. tp = label[1] /\ fp = 0 - label[1] /\ pre_FP = 0 /\ label[1] \in {0, 1}
      BY <1>6, <1>7, <1>8, <2>1 DEF Lagging
    <3>2. numerator = 0
      BY <1>5, <1>8, <1>9, <2>1
    <3>3. Cardinality(OrderedTo(i + 1)) = 0
      BY <1>6, <1>9, <2>1
    <3> HIDE DEF tp, fp
    <3> QED
      BY <1>1, <3>1, <3>2, <3>3
  <2>2. CASE i # 0
    <3> DEFINE l == label[i + 1]
               p == PositivesIn(i)
               n == Cardinality(OrderedTo(i))
               first == label[1]
    <3>1. first \in {0, 1}
      BY <1>2, SizeType DEF InputOK
    <3>2. /\ l \in {0, 1} /\ p \in Nat /\ n \in Nat /\ tp = p + l
          /\ pre_FP = i - 1 - p /\ numerator + first = n
          /\ fp = i - (p + l) /\ numerator' = numerator + tp * (fp - pre_FP)
          /\ Cardinality(OrderedTo(i + 1)) = n + p * (1 - l)
      BY <1>1, <1>4, <1>6, <1>7, <1>8, <1>9, <2>2 DEF Lagging
    <3> HIDE DEF l, p, n, first, tp, fp
    <3>3. fp - pre_FP = 1 - l
      BY <1>4, <3>2
    <3>4. numerator' + first = n + (p + l) * (1 - l)
      BY <1>5, <3>1, <3>2, <3>3
    <3>5. (p + l) * (1 - l) = p * (1 - l)
      BY <3>2
    <3> QED
      BY <3>2, <3>4, <3>5 DEF first
  <2> QED
    BY <2>1, <2>2
<1>13. metric' = metric /\ label' = label
  BY <1>1 DEF input
<1>14. NoTieInv'
  <2>1. pre_FP' = Lagging(i)'
    BY <1>1, <1>2, <1>11, SameReference
  <2>2. OrderedTo(i)' = OrderedTo(i + 1)
    BY <1>1, <1>2, SameReference
  <2>3. i' # 0
    BY <1>1, <1>4
  <2> QED
    BY <1>12, <1>13, <2>1, <2>2, <2>3 DEF NoTieInv
<1>15. WithTieInv' /\ PRInv'
  BY <1>1, <1>13 DEF WithTieInv, PRInv
<1> QED
  BY <1>3, <1>10, <1>14, <1>15 DEF CurveInv

(* What the flag of the sample does to the counts kept since the last one.  *)
LEMMA Flag ==
  ASSUME CurveInv, pc = "loop", metric # "ROCNOTIE", Blinded, NEW k \in Index
  PROVE  conf[k] = IF k \in Thresholds THEN 1 ELSE 0
<1>1. conf = [n \in Index |-> Grouped(n)] /\ InputOK
  BY DEF CurveInv, StageInv
<1> QED
  BY <1>1, FlagsAreThresholds

LEMMA WithTieStep ==
  ASSUME CurveInv, SampleWithTie
  PROVE  CurveInv'
<1> DEFINE k == i + 1
           tp == TP + label[i + 1]
           fp == (k - 1) - tp
           t == Passed
<1>1. /\ metric = "ROCWITHTIE" /\ pc = "loop" /\ i < Size /\ i' = i + 1 /\ TP' = tp
      /\ numerator' = numerator + conf[k] * pre_TP * (fp - pre_FP)
      /\ numerator2' = numerator2 + conf[k] * (tp - pre_TP) * (fp - pre_FP)
      /\ pre_FP' = IF conf[k] = 0 THEN pre_FP ELSE fp
      /\ pre_TP' = IF conf[k] = 0 THEN pre_TP ELSE tp
      /\ pre_prec' = pre_prec
      /\ UNCHANGED <<input, conf, precs, auc, pc>>
  BY DEF SampleWithTie, More, WithSample, FP, Triangle, AtThreshold
<1>2. InputOK /\ TypeInv /\ LoopInv /\ WithTieInv
  BY DEF CurveInv
<1>3. /\ InputOK' /\ StageInv' /\ LoopInv'
      /\ conf' \in [Index -> {0, 1}] /\ precs' \in [Index -> Int]
      /\ i' \in 0..Size /\ TP' \in Int
      /\ k \in Index /\ TP' = PositivesIn(k)
      /\ Passed' = IF k \in Thresholds THEN k ELSE t
  BY <1>1, Sampling
<1>4. i \in 0..(Size - 1) /\ i \in Nat /\ k # 0 /\ k \in 0..Size /\ t \in 0..i /\ t \in 0..k
      /\ t \in 0..Size /\ k \in Nat /\ t \in Nat
  BY <1>1, <1>2, SizeType DEF TypeInv, LoopInv
<1>5. numerator \in Int /\ numerator2 \in Int /\ pre_FP \in Int /\ pre_TP \in Int /\ TP \in Int
      /\ conf[k] \in {0, 1}
  BY <1>2, <1>3 DEF TypeInv
<1>6. PositivesIn(k) \in Nat /\ PositivesIn(t) \in Nat
  BY <1>2, <1>4, PrecisionType
<1>7. tp = PositivesIn(k) /\ tp \in Int /\ fp \in Int
  BY <1>1, <1>3, <1>4, <1>6
<1>8. TypeInv'
  <2>1. numerator' \in Int /\ numerator2' \in Int
    <3> HIDE DEF tp, fp, k
    <3> QED
      BY <1>1, <1>5, <1>7
  <2>2. pre_FP' \in Int /\ pre_TP' \in Int
    <3> HIDE DEF tp, fp, k
    <3> QED
      BY <1>1, <1>5, <1>7
  <2> QED
    BY <1>1, <1>2, <1>3, <2>1, <2>2 DEF TypeInv
<1>9. metric' = metric /\ label' = label
  BY <1>1 DEF input
<1>10. /\ Thresholds' = Thresholds /\ Blinded' = Blinded
       /\ \A n : PositivesIn(n)' = PositivesIn(n)
       /\ \A n : Lagging(n)' = Lagging(n)
       /\ \A n : AboveTo(n)' = AboveTo(n) /\ TiedTo(n)' = TiedTo(n)
  BY <1>1, <1>2, SameReference
<1>11. ASSUME Blinded
       PROVE  /\ pre_TP' = PositivesIn(Passed')
              /\ pre_FP' = Lagging(Passed')
              /\ 2 * numerator' + numerator2'
                   + (IF Passed' = 0 THEN 0 ELSE PositivesIn(Min(Thresholds)))
                 = 2 * Cardinality(AboveTo(Passed')) + Cardinality(TiedTo(Passed'))
  <2>1. /\ pre_TP = PositivesIn(t)
        /\ pre_FP = Lagging(t)
        /\ 2 * numerator + numerator2 + (IF t = 0 THEN 0 ELSE PositivesIn(Min(Thresholds)))
              = 2 * Cardinality(AboveTo(t)) + Cardinality(TiedTo(t))
    BY <1>1, <1>2, <1>11 DEF WithTieInv
  <2>2. conf[k] = IF k \in Thresholds THEN 1 ELSE 0
    <3>1. metric # "ROCNOTIE"
      BY <1>1
    <3> HIDE DEF k
    <3> QED
      BY <1>1, <1>3, <1>11, <3>1, Flag
  <2>3. CASE k \notin Thresholds
    <3>1. conf[k] = 0 /\ Passed' = t
      BY <1>3, <2>2, <2>3
    <3>2. numerator' = numerator /\ numerator2' = numerator2 /\ pre_TP' = pre_TP /\ pre_FP' = pre_FP
      <4> HIDE DEF tp, fp, k
      <4> QED
        BY <1>1, <1>5, <1>7, <3>1
    <3> HIDE DEF t
    <3> QED
      BY <2>1, <3>1, <3>2
  <2>4. CASE k \in Thresholds
    <3>1. conf[k] = 1 /\ Passed' = k
      BY <1>3, <2>2, <2>4
    <3> DEFINE p == PositivesIn(t)
               dx == Cardinality(Pos(t, k))
               dn == Cardinality(Neg(t, k))
               above == Cardinality(AboveTo(t))
               tied == Cardinality(TiedTo(t))
               firsts == PositivesIn(Min(Thresholds))
    <3>2. /\ above \in Nat /\ tied \in Nat
          /\ Cardinality(AboveTo(k)) = above + p * dn
          /\ Cardinality(TiedTo(k)) = tied + dx * dn
      <4>1. /\ \A a, b \in (t + 1)..k : val[a] = val[b]
            /\ \A a \in 1..t, b \in (t + 1)..k : val[a] > val[b]
        <5>1. i \in 0..Size
          BY <1>2 DEF TypeInv
        <5> QED
          BY <1>1, <1>2, <5>1, GroupIsTied
      <4> HIDE DEF t, k
      <4> QED
        BY <1>2, <1>4, <4>1, PairsGrow
    <3>3. dx = tp - p /\ dn = (k - t) - dx /\ dx \in Nat /\ dn \in Nat
      <4> HIDE DEF t, k, tp
      <4>1. /\ Cardinality(Pos(t, k)) = PositivesIn(k) - PositivesIn(t)
            /\ Cardinality(Neg(t, k)) = (k - t) - (PositivesIn(k) - PositivesIn(t))
        BY <1>2, <1>4, StretchCounts
      <4>2. t \in Int /\ k \in Int
        BY <1>4
      <4>3. Cardinality(Pos(t, k)) \in Nat /\ Cardinality(Neg(t, k)) \in Nat
        BY <4>2, StretchFinite
      <4> QED
        BY <1>7, <4>1, <4>3
    <3>4. /\ pre_TP' = tp /\ pre_FP' = fp
          /\ numerator' = numerator + p * (fp - pre_FP)
          /\ numerator2' = numerator2 + dx * (fp - pre_FP)
      <4>1. /\ pre_TP' = tp /\ pre_FP' = fp
            /\ numerator' = numerator + conf[k] * pre_TP * (fp - pre_FP)
            /\ numerator2' = numerator2 + conf[k] * (tp - pre_TP) * (fp - pre_FP)
        BY <1>1, <3>1
      <4>2. pre_TP = p /\ tp - pre_TP = dx
        BY <2>1, <3>3
      <4> HIDE DEF tp, fp, k, p, dx
      <4> QED
        BY <1>5, <1>7, <3>1, <3>3, <4>1, <4>2
    <3>5. pre_TP' = PositivesIn(k) /\ pre_FP' = Lagging(k)
      BY <1>4, <1>7, <3>4 DEF Lagging
    <3>6. 2 * numerator' + numerator2' + firsts = 2 * (above + p * dn) + (tied + dx * dn)
      <4>1. CASE t = 0
        <5>1. p = 0
          <6>1. {j \in 1..0 : label[j] = 1} = {}
            OBVIOUS
          <6> QED
            BY <4>1, <6>1, FS_EmptySet DEF PositivesIn
        <5>2. Min(Thresholds) = k
          <6>1. \A e \in Thresholds : e \in Int /\ e >= 1
            BY <1>2, ThresholdPlaces, SizeType
          <6>2. \A e \in Thresholds : e <= i => e <= t
            BY <1>2 DEF LoopInv
          <6>3. \A e \in Thresholds : k <= e
            <7> HIDE DEF t
            <7> QED
              BY <1>4, <4>1, <6>1, <6>2
          <6>4. Thresholds \in SUBSET Int
            BY <6>1
          <6> HIDE DEF k
          <6> QED
            BY <2>4, <6>3, <6>4, MinIs
        <5>3. firsts = dx
          BY <1>6, <1>7, <3>3, <5>1, <5>2
        <5>4. pre_FP = 0 /\ fp - pre_FP = dn - 1
          <6>1. pre_FP = 0
            BY <2>1, <4>1 DEF Lagging
          <6> HIDE DEF tp, dn, dx, p, t
          <6> QED
            BY <1>4, <1>7, <3>3, <4>1, <5>1, <6>1
        <5>5. 2 * numerator + numerator2 = 2 * above + tied
          BY <1>5, <2>1, <4>1
        <5>6. /\ numerator' = numerator + p * (dn - 1)
              /\ numerator2' = numerator2 + dx * (dn - 1)
          BY <3>4, <5>4
        <5> HIDE DEF firsts, dx, dn, above, tied, p, fp, tp, k, t
        <5>7. numerator' = numerator /\ p * dn = 0
          BY <1>5, <3>3, <5>1, <5>6
        <5> QED
          BY <1>5, <3>2, <3>3, <5>3, <5>5, <5>6, <5>7
      <4>2. CASE t # 0
        <5>1. fp - pre_FP = dn
          <6>1. pre_FP = t - 1 - p
            BY <2>1, <4>2 DEF Lagging
          <6> HIDE DEF tp, dn, dx, p, t
          <6> QED
            BY <1>4, <1>6, <1>7, <3>3, <6>1 DEF p
        <5>2. 2 * numerator + numerator2 + firsts = 2 * above + tied
          BY <2>1, <4>2
        <5>3. numerator' = numerator + p * dn /\ numerator2' = numerator2 + dx * dn
          BY <3>4, <5>1
        <5>4. p \in Nat
          BY <1>6
        <5>5. firsts \in Int
          <6>1. Min(Thresholds) \in 0..Size
            <7>1. \E e \in Thresholds : \A f \in Thresholds : e <= f
              <8>1. Thresholds \in SUBSET Nat /\ Thresholds # {}
                BY <1>2, ThresholdPlaces, SizeType
              <8> QED
                BY <8>1, LeastNumber
            <7>2. Min(Thresholds) \in Thresholds
              BY <7>1 DEF Min
            <7> QED
              BY <1>2, <7>2, ThresholdPlaces, SizeType
          <6> QED
            BY <1>2, <6>1, PrecisionType
        <5> HIDE DEF firsts, dx, dn, above, tied, p, fp, tp, k, t
        <5>6. p * dn \in Int /\ dx * dn \in Int
          BY <3>3, <5>4
        <5> QED
          BY <1>5, <3>2, <5>2, <5>3, <5>5, <5>6
      <4> QED
        BY <4>1, <4>2
    <3> HIDE DEF p, dx, dn, above, tied, tp, fp, k, t
    <3> QED
      BY <1>4, <3>1, <3>2, <3>5, <3>6 DEF firsts
  <2> QED
    BY <2>3, <2>4
<1>12. WithTieInv'
  <2>1. Blinded' => Blinded
    BY <1>10
  <2> QED
    BY <1>10, <1>11, <2>1 DEF WithTieInv
<1>13. NoTieInv' /\ PRInv'
  BY <1>1, <1>9 DEF NoTieInv, PRInv
<1> QED
  BY <1>3, <1>8, <1>12, <1>13 DEF CurveInv

LEMMA PRStep ==
  ASSUME CurveInv, SamplePR
  PROVE  CurveInv'
<1> DEFINE k == i + 1
           reca == TP + label[i + 1]
           t == Passed
<1>1. /\ metric = "PRCURVE" /\ pc = "loop" /\ i < Size /\ i' = i + 1 /\ TP' = reca
      /\ numerator' = numerator + conf[k] * pre_prec * (reca - pre_TP)
      /\ numerator2' = numerator2 + conf[k] * (reca - pre_TP) * (precs[k] - pre_prec)
      /\ pre_prec' = IF conf[k] = 0 THEN pre_prec ELSE precs[k]
      /\ pre_TP' = IF conf[k] = 0 THEN pre_TP ELSE reca
      /\ pre_FP' = pre_FP
      /\ UNCHANGED <<input, conf, precs, auc, pc>>
  BY DEF SamplePR, More, WithSample, Triangle, AtThreshold
<1>2. InputOK /\ TypeInv /\ LoopInv /\ PRInv /\ StageInv
  BY DEF CurveInv
<1>3. /\ InputOK' /\ StageInv' /\ LoopInv'
      /\ conf' \in [Index -> {0, 1}] /\ precs' \in [Index -> Int]
      /\ i' \in 0..Size /\ TP' \in Int
      /\ k \in Index /\ TP' = PositivesIn(k)
      /\ Passed' = IF k \in Thresholds THEN k ELSE t
  BY <1>1, Sampling
<1>4. k \in 0..Size /\ t \in 0..Size /\ k - 1 = i /\ k # 0 /\ k \in 0..Size
  BY <1>1, <1>2, SizeType DEF TypeInv, LoopInv
<1>5. numerator \in Int /\ numerator2 \in Int /\ pre_prec \in Int /\ pre_TP \in Int /\ TP \in Int
      /\ conf[k] \in {0, 1} /\ precs[k] \in Int
  BY <1>2, <1>3 DEF TypeInv
<1>6. PositivesIn(k) \in Nat /\ PositivesIn(t) \in Nat /\ PrecisionAt(k) \in Int /\ PrecisionAt(t) \in Int
  BY <1>2, <1>4, PrecisionType
<1>7. reca = PositivesIn(k) /\ reca \in Int /\ precs[k] = PrecisionAt(k)
  BY <1>1, <1>2, <1>3, <1>6 DEF StageInv
<1>8. TypeInv'
  <2>1. numerator' \in Int /\ numerator2' \in Int
    <3> HIDE DEF reca, k
    <3> QED
      BY <1>1, <1>5, <1>7
  <2>2. pre_prec' \in Int /\ pre_TP' \in Int
    <3> HIDE DEF reca, k
    <3> QED
      BY <1>1, <1>5, <1>7
  <2> QED
    BY <1>1, <1>2, <1>3, <2>1, <2>2 DEF TypeInv
<1>9. metric' = metric
  BY <1>1 DEF input
<1>10. /\ Blinded' = Blinded
       /\ \A n : PositivesIn(n)' = PositivesIn(n)
       /\ \A n : PrecisionAt(n)' = PrecisionAt(n)
       /\ \A n \in 0..Size : AreaTo'[n] = AreaTo[n]
  BY <1>1, <1>2, SameReference, SameArea
<1>11. ASSUME Blinded
       PROVE  /\ pre_TP' = PositivesIn(Passed')
              /\ pre_prec' = PrecisionAt(Passed')
              /\ 2 * numerator' + numerator2' = AreaTo[k]
  <2>1. /\ pre_TP = PositivesIn(t)
        /\ pre_prec = PrecisionAt(t)
        /\ 2 * numerator + numerator2 = AreaTo[i]
    BY <1>1, <1>2, <1>11 DEF PRInv
  <2>2. conf[k] = IF k \in Thresholds THEN 1 ELSE 0
    <3>1. metric # "ROCNOTIE"
      BY <1>1
    <3> HIDE DEF k
    <3> QED
      BY <1>1, <1>3, <1>11, <3>1, Flag
  <2>3. AreaTo[k] = AreaTo[i] + (IF k \in Thresholds THEN Trapezoid(k) ELSE 0) /\ AreaTo[i] \in Int
    BY <1>2, <1>3, <1>4, AreaSums DEF AreaRecurs
  <2>4. CASE k \notin Thresholds
    <3>1. conf[k] = 0 /\ Passed' = t
      BY <1>3, <2>2, <2>4
    <3>2. numerator' = numerator /\ numerator2' = numerator2 /\ pre_TP' = pre_TP /\ pre_prec' = pre_prec
      <4> HIDE DEF reca, k
      <4> QED
        BY <1>1, <1>5, <1>7, <3>1
    <3> HIDE DEF t, k
    <3> QED
      BY <2>1, <2>3, <2>4, <3>1, <3>2
  <2>5. CASE k \in Thresholds
    <3>1. conf[k] = 1 /\ Passed' = k
      BY <1>3, <2>2, <2>5
    <3> DEFINE dx == reca - pre_TP
               now == precs[k]
    <3>2. /\ pre_TP' = reca /\ pre_prec' = now
          /\ numerator' = numerator + conf[k] * pre_prec * dx
          /\ numerator2' = numerator2 + conf[k] * dx * (now - pre_prec)
      BY <1>1, <3>1
    <3>3. dx = PositivesIn(k) - PositivesIn(t) /\ dx \in Int /\ now \in Int
      BY <1>5, <1>6, <1>7, <2>1
    <3>4. Trapezoid(k) = dx * (now + pre_prec)
      <4>1. Previous(k) = t
        BY DEF Passed
      <4> QED
        BY <1>7, <2>1, <3>3, <4>1 DEF Trapezoid
    <3>5. 2 * numerator' + numerator2' = AreaTo[k]
      <4>1. AreaTo[k] = AreaTo[i] + dx * (now + pre_prec)
        BY <2>3, <2>5, <3>4
      <4> HIDE DEF dx, now, k
      <4> QED
        BY <1>5, <2>1, <2>3, <3>1, <3>2, <3>3, <4>1
    <3> QED
      BY <1>7, <3>1, <3>2, <3>5
  <2> QED
    BY <2>4, <2>5
<1>12. PRInv'
  <2>1. Blinded' => Blinded
    BY <1>10
  <2>2. i' = k /\ AreaTo'[i'] = AreaTo[k]
    BY <1>1, <1>4, <1>10
  <2> QED
    BY <1>10, <1>11, <2>1, <2>2 DEF PRInv
<1>13. NoTieInv' /\ WithTieInv'
  BY <1>1, <1>9 DEF NoTieInv, WithTieInv
<1> QED
  BY <1>3, <1>8, <1>12, <1>13 DEF CurveInv

(* Steps outside the loop keep what the loop has counted.                   *)
LEMMA LoopStays ==
  ASSUME CurveInv, UNCHANGED input, UNCHANGED loop
  PROVE  /\ InputOK' /\ LoopInv' /\ NoTieInv' /\ WithTieInv' /\ PRInv'
         /\ Dividend' = Dividend /\ Divisor' = Divisor
<1>1. InputOK /\ TypeInv /\ LoopInv /\ NoTieInv /\ WithTieInv /\ PRInv
  BY DEF CurveInv
<1>2. /\ metric' = metric /\ val' = val /\ label' = label
      /\ i' = i /\ TP' = TP /\ pre_FP' = pre_FP /\ pre_TP' = pre_TP /\ pre_prec' = pre_prec
      /\ numerator' = numerator /\ numerator2' = numerator2
  BY DEF input, loop
<1>3. /\ InputOK'
      /\ Thresholds' = Thresholds /\ Blinded' = Blinded
      /\ \A n : PositivesIn(n)' = PositivesIn(n)
      /\ \A n : Previous(n)' = Previous(n)
      /\ \A n : Lagging(n)' = Lagging(n)
      /\ \A n : PrecisionAt(n)' = PrecisionAt(n)
      /\ \A n : OrderedTo(n)' = OrderedTo(n)
      /\ \A n : AboveTo(n)' = AboveTo(n) /\ TiedTo(n)' = TiedTo(n)
  BY <1>1, SameReference
<1>4. Passed' = Passed
  BY <1>2, <1>3 DEF Passed
<1>5. LoopInv'
  BY <1>1, <1>2, <1>3, <1>4 DEF LoopInv
<1>6. NoTieInv'
  BY <1>1, <1>2, <1>3 DEF NoTieInv
<1>7. WithTieInv'
  BY <1>1, <1>2, <1>3, <1>4 DEF WithTieInv
<1>8. PRInv'
  <2>1. AreaTo'[i'] = AreaTo[i]
    BY <1>1, <1>2, SameArea DEF TypeInv
  <2> QED
    BY <1>1, <1>2, <1>3, <1>4, <2>1 DEF PRInv
<1>9. Dividend' = Dividend /\ Divisor' = Divisor
  BY <1>2 DEF Dividend, Divisor
<1> QED
  BY <1>3, <1>5, <1>6, <1>7, <1>8, <1>9

LEMMA CurveInit == Init => CurveInv
<1> SUFFICES ASSUME Init
             PROVE  CurveInv
  OBVIOUS
<1>0. Size \in Nat \ {0} /\ Index = 1..Size /\ One \in Nat \ {0}
  BY SizeType, OneIsPositive
<1>1. InputOK
  BY DEF Init, InputOK
<1>2. TypeInv
  BY <1>0 DEF Init, TypeInv
<1>3. StageInv
  BY DEF Init, StageInv
<1>4. i = 0 /\ TP = 0 /\ pre_FP = 0 /\ pre_TP = 0 /\ pre_prec = One /\ numerator = 0 /\ numerator2 = 0
  BY DEF Init
<1>5. PositivesIn(0) = 0
  <2>1. {j \in 1..0 : label[j] = 1} = {}
    OBVIOUS
  <2> QED
    BY <2>1, FS_EmptySet DEF PositivesIn
<1>6. Passed = 0
  <2>1. i + 1 = 1
    BY <1>4
  <2> QED
    BY <1>1, <2>1, PreviousSteps DEF Passed
<1>7. LoopInv
  <2>1. \A e \in Thresholds : e \in Int /\ e >= 1
    BY <1>0, <1>1, ThresholdPlaces
  <2>2. (0 + 1)..0 = {}
    OBVIOUS
  <2>3. \A e \in Thresholds : ~(e <= 0)
    BY <2>1
  <2> QED
    BY <1>4, <1>5, <1>6, <2>2, <2>3 DEF LoopInv
<1>8. \A e \in Positive \X Negative : e[2] \in Int /\ e[2] >= 1
  BY <1>0 DEF Negative
<1>9. OrderedTo(0) = {} /\ AboveTo(0) = {} /\ TiedTo(0) = {}
  BY <1>8 DEF OrderedTo, AboveTo, TiedTo
<1>10. NoTieInv
  BY <1>4, <1>9, FS_EmptySet DEF NoTieInv, Lagging
<1>11. WithTieInv
  BY <1>4, <1>5, <1>6, <1>9, FS_EmptySet DEF WithTieInv, Lagging
<1>12. PRInv
  BY <1>1, <1>4, <1>5, <1>6, AreaSums DEF PRInv, PrecisionAt, AreaRecurs
<1> QED
  BY <1>1, <1>2, <1>3, <1>7, <1>10, <1>11, <1>12 DEF CurveInv

LEMMA GroupStep ==
  ASSUME CurveInv, FindGroups
  PROVE  CurveInv'
<1>1. /\ pc = "group" /\ conf' = [k \in Index |-> Grouped(k)]
      /\ pc' = IF metric = "PRCURVE" THEN "prec" ELSE "loop"
      /\ UNCHANGED input /\ UNCHANGED loop /\ precs' = precs
  BY DEF FindGroups
<1>2. /\ InputOK' /\ LoopInv' /\ NoTieInv' /\ WithTieInv' /\ PRInv'
  BY <1>1, LoopStays
<1>3. InputOK /\ TypeInv /\ StageInv
  BY DEF CurveInv
<1>4. TypeInv'
  <2>1. conf' \in [Index -> {0, 1}]
    BY <1>1 DEF Grouped
  <2> QED
    BY <1>1, <1>3, <2>1 DEF TypeInv, loop
<1>5. StageInv'
  <2>1. conf' = [k \in Index |-> Grouped(k)']
    BY <1>1, <1>3, SameReference
  <2>2. i' = i /\ metric' = metric /\ i = 0
    BY <1>1, <1>3 DEF StageInv, loop, input
  <2> QED
    BY <1>1, <2>1, <2>2 DEF StageInv
<1> QED
  BY <1>2, <1>4, <1>5 DEF CurveInv

LEMMA PrecisionStep ==
  ASSUME CurveInv, Precisions
  PROVE  CurveInv'
<1>1. /\ pc = "prec" /\ precs' = [k \in Index |-> NORM(PositivesIn(k) * One, k * One)]
      /\ pc' = "loop" /\ UNCHANGED input /\ UNCHANGED loop /\ conf' = conf
  BY DEF Precisions
<1>2. /\ InputOK' /\ LoopInv' /\ NoTieInv' /\ WithTieInv' /\ PRInv'
  BY <1>1, LoopStays
<1>3. InputOK /\ TypeInv /\ StageInv
  BY DEF CurveInv
<1>4. precs' = [k \in Index |-> PrecisionAt(k)]
  BY <1>1, <1>3, NormIsPrecision
<1>5. \A k \in Index : PrecisionAt(k) \in Int
  BY <1>3, PrecisionType, SizeType
<1>6. TypeInv'
  BY <1>1, <1>3, <1>4, <1>5 DEF TypeInv, loop
<1>7. StageInv'
  <2>1. /\ \A k : Grouped(k)' = Grouped(k)
        /\ \A k : PrecisionAt(k)' = PrecisionAt(k)
        /\ metric' = metric
    BY <1>1, <1>3, SameReference DEF input
  <2>2. metric # "ROCNOTIE" => conf = [k \in Index |-> Grouped(k)]
    BY <1>1, <1>3 DEF StageInv
  <2>3. metric' # "ROCNOTIE" => conf' = [k \in Index |-> Grouped(k)']
    BY <1>1, <2>1, <2>2
  <2>4. \A k \in Index : precs'[k] = PrecisionAt(k)'
    BY <1>4, <2>1
  <2> QED
    BY <1>1, <2>3, <2>4 DEF StageInv
<1> QED
  BY <1>2, <1>6, <1>7 DEF CurveInv

LEMMA CloseStep ==
  ASSUME CurveInv, Close
  PROVE  CurveInv'
<1>1. /\ pc = "loop" /\ i = Size /\ auc' = NORM(Dividend, Divisor)
      /\ pc' = "done" /\ UNCHANGED input /\ UNCHANGED loop /\ conf' = conf /\ precs' = precs
  BY DEF Close
<1>2. /\ InputOK' /\ LoopInv' /\ NoTieInv' /\ WithTieInv' /\ PRInv'
      /\ Dividend' = Dividend /\ Divisor' = Divisor
  BY <1>1, LoopStays
<1>3. InputOK /\ TypeInv /\ StageInv
  BY DEF CurveInv
<1>4. TypeInv'
  BY <1>1, <1>3 DEF TypeInv, loop
<1>5. StageInv'
  <2>1. /\ \A k : Grouped(k)' = Grouped(k)
        /\ \A k : PrecisionAt(k)' = PrecisionAt(k)
        /\ metric' = metric /\ i' = Size
    BY <1>1, <1>3, SameReference DEF input, loop
  <2>2. /\ metric # "ROCNOTIE" => conf = [k \in Index |-> Grouped(k)]
        /\ metric = "PRCURVE" => \A k \in Index : precs[k] = PrecisionAt(k)
    BY <1>1, <1>3 DEF StageInv
  <2>3. metric' # "ROCNOTIE" => conf' = [k \in Index |-> Grouped(k)']
    BY <1>1, <2>1, <2>2
  <2>4. metric' = "PRCURVE" => \A k \in Index : precs'[k] = PrecisionAt(k)'
    BY <1>1, <2>1, <2>2
  <2>5. auc' = NORM(Dividend, Divisor)'
    BY <1>1, <1>2 DEF NORM, NormRound
  <2> QED
    BY <1>1, <2>1, <2>3, <2>4, <2>5 DEF StageInv
<1> QED
  BY <1>2, <1>4, <1>5 DEF CurveInv

LEMMA CurveStutters ==
  ASSUME CurveInv, UNCHANGED vars
  PROVE  CurveInv'
<1>1. /\ UNCHANGED input /\ UNCHANGED loop /\ conf' = conf /\ precs' = precs
      /\ auc' = auc /\ pc' = pc
  BY DEF vars
<1>2. /\ InputOK' /\ LoopInv' /\ NoTieInv' /\ WithTieInv' /\ PRInv'
      /\ Dividend' = Dividend /\ Divisor' = Divisor
  BY <1>1, LoopStays
<1>3. InputOK /\ TypeInv /\ StageInv
  BY DEF CurveInv
<1>4. TypeInv'
  BY <1>1, <1>3 DEF TypeInv, loop
<1>5. StageInv'
  <2>1. /\ \A k : Grouped(k)' = Grouped(k)
        /\ \A k : PrecisionAt(k)' = PrecisionAt(k)
        /\ metric' = metric /\ i' = i
    BY <1>1, <1>3, SameReference DEF input, loop
  <2>2. /\ pc # "group" /\ metric # "ROCNOTIE" => conf = [k \in Index |-> Grouped(k)]
        /\ pc \in {"loop", "done"} /\ metric = "PRCURVE" => \A k \in Index : precs[k] = PrecisionAt(k)
        /\ pc \in {"group", "prec", "loop", "done"}
        /\ pc \in {"group", "prec"} => i = 0
        /\ pc = "done" => i = Size
    BY <1>3 DEF StageInv
  <2>3. pc' # "group" /\ metric' # "ROCNOTIE" => conf' = [k \in Index |-> Grouped(k)']
    BY <1>1, <2>1, <2>2
  <2>4. pc' \in {"loop", "done"} /\ metric' = "PRCURVE" =>
            \A k \in Index : precs'[k] = PrecisionAt(k)'
    BY <1>1, <2>1, <2>2
  <2>5. pc' = "done" => auc' = NORM(Dividend, Divisor)'
    <3>1. pc = "done" => auc = NORM(Dividend, Divisor)
      BY <1>3 DEF StageInv
    <3> QED
      BY <1>1, <1>2, <3>1 DEF NORM, NormRound
  <2> QED
    BY <1>1, <2>1, <2>2, <2>3, <2>4, <2>5 DEF StageInv
<1> QED
  BY <1>2, <1>4, <1>5 DEF CurveInv

(* The counts the loop keeps are those of the samples it has passed.        *)
THEOREM CurveInvariant == Spec => []CurveInv
<1>1. Init => CurveInv
  BY CurveInit
<1>2. CurveInv /\ [Next]_vars => CurveInv'
  <2> SUFFICES ASSUME CurveInv, [Next]_vars
               PROVE  CurveInv'
    OBVIOUS
  <2>1. CASE FindGroups
    BY <2>1, GroupStep
  <2>2. CASE Precisions
    BY <2>2, PrecisionStep
  <2>3. CASE SampleNoTie
    BY <2>3, NoTieStep
  <2>4. CASE SampleWithTie
    BY <2>4, WithTieStep
  <2>5. CASE SamplePR
    BY <2>5, PRStep
  <2>6. CASE Close
    BY <2>6, CloseStep
  <2>7. CASE Done
    BY <2>7, CurveStutters DEF Done
  <2>8. CASE UNCHANGED vars
    BY <2>8, CurveStutters
  <2> QED
    BY <2>1, <2>2, <2>3, <2>4, <2>5, <2>6, <2>7, <2>8 DEF Next
<1> QED
  BY <1>1, <1>2, PTL DEF Spec

-----------------------------------------------------------------------------
(* What the metrics return. *)

(* For lists of every length and any labels, ROCNOTIE's numerator is the    *)
(* number of ordered pairs, less one when the first sample is positive.     *)
THEOREM NoTieCorrect == Spec => []NoTieCounts
<1>1. CurveInv => NoTieCounts
  <2> SUFFICES ASSUME CurveInv, pc = "done", metric = "ROCNOTIE"
               PROVE  numerator + label[1] = OrderedPairs
    BY DEF NoTieCounts, Finished
  <2>1. i = Size /\ i # 0
    BY SizeType DEF CurveInv, StageInv
  <2>2. numerator + label[1] = Cardinality(OrderedTo(Size))
    BY <2>1 DEF CurveInv, NoTieInv
  <2>3. \A e \in Positive \X Negative : e[2] <= Size
    BY SizeType DEF Negative
  <2>4. OrderedTo(Size) = {e \in Positive \X Negative : e[1] < e[2]}
    BY <2>3 DEF OrderedTo
  <2> QED
    BY <2>2, <2>4 DEF OrderedPairs
<1> QED
  BY <1>1, CurveInvariant, PTL

(* For lists of every length, with any ties and labels, and common factors  *)
(* that lose no difference, ROCWITHTIE's sums are twice the Mann-Whitney    *)
(* statistic, less the positives of the first group.                        *)
THEOREM WithTieCorrect == Spec => []WithTieCounts
<1>1. CurveInv => WithTieCounts
  <2> SUFFICES ASSUME CurveInv, pc = "done", metric = "ROCWITHTIE", Blinded
               PROVE  2 * numerator + numerator2 + PositivesIn(Min(Thresholds)) = TwiceMannWhitney
    BY DEF WithTieCounts, Finished
  <2>1. i = Size /\ InputOK /\ Size \in Index /\ Size # 0
    BY SizeType DEF CurveInv, StageInv
  <2>2. Passed = Size
    <3>1. Size \in Thresholds
      BY <2>1, ThresholdPlaces
    <3>2. Previous(Size + 1) = Size
      BY <2>1, <3>1, PreviousSteps
    <3> QED
      BY <2>1, <3>2 DEF Passed
  <2>3. 2 * numerator + numerator2 + PositivesIn(Min(Thresholds))
          = 2 * Cardinality(AboveTo(Size)) + Cardinality(TiedTo(Size))
    BY <2>1, <2>2 DEF CurveInv, WithTieInv
  <2>4. \A e \in Positive \X Negative : e[1] <= Size /\ e[2] <= Size
    BY SizeType DEF Positive, Negative
  <2>5. /\ AboveTo(Size) = {e \in Positive \X Negative : val[e[1]] > val[e[2]]}
        /\ TiedTo(Size) = {e \in Positive \X Negative : val[e[1]] = val[e[2]]}
    BY <2>4 DEF AboveTo, TiedTo
  <2> QED
    BY <2>3, <2>5 DEF TwiceMannWhitney
<1> QED
  BY <1>1, CurveInvariant, PTL

(* For lists of every length, with any ties and labels, and common factors  *)
(* that lose no difference, PRCURVE's sums are twice the trapezoid area.    *)
THEOREM PRCorrect == Spec => []PRIsTrapezoid
<1>1. CurveInv => PRIsTrapezoid
  <2> SUFFICES ASSUME CurveInv, pc = "done", metric = "PRCURVE", Blinded
               PROVE  Dividend = TwiceAreaPR
    BY DEF PRIsTrapezoid, Finished
  <2>1. i = Size
    BY DEF CurveInv, StageInv
  <2>2. 2 * numerator + numerator2 = AreaTo[Size]
    BY <2>1 DEF CurveInv, PRInv
  <2> QED
    BY <2>2 DEF Dividend, TwiceAreaPR
<1> QED
  BY <1>1, CurveInvariant, PTL

(* For any number of bits, the metrics' last call of NORM returns the       *)
(* quotient rounded down when the area is below one.                        *)
THEOREM NormCorrect == Spec => []NormRoundsDown
<1>1. CurveInv => NormRoundsDown
  <2> SUFFICES ASSUME CurveInv, pc = "done", Dividend \in 0..(Divisor - 1)
               PROVE  auc = (Dividend * One) \div Divisor
    BY DEF NormRoundsDown
  <2>0. InputOK /\ TypeInv /\ LoopInv /\ StageInv /\ Size \in Nat \ {0} /\ One \in Nat \ {0}
    BY SizeType, OneIsPositive DEF CurveInv
  <2>1. i = Size /\ auc = NORM(Dividend, Divisor)
    BY <2>0 DEF StageInv
  <2>2. TP \in Nat /\ Size - TP \in Nat
    <3>1. PositivesIn(Size) \in Nat /\ PositivesIn(Size) <= Size
      BY <2>0, PrecisionType
    <3> QED
      BY <2>0, <2>1, <3>1 DEF LoopInv
  <2> DEFINE negatives == Size - TP
             one == One
             a == Dividend
  <2>3. PICK c \in Nat : Divisor = c * one
    <3> HIDE DEF negatives, one
    <3>1. /\ metric = "ROCNOTIE" => Divisor = (TP * negatives) * one
          /\ metric = "ROCWITHTIE" => Divisor = (2 * TP * negatives) * one
          /\ metric \notin {"ROCNOTIE", "ROCWITHTIE"} => Divisor = (2 * TP) * one
      BY DEF Divisor, negatives, one
    <3>2. negatives \in Nat
      BY <2>2 DEF negatives
    <3>3. TP * negatives \in Nat /\ 2 * TP * negatives \in Nat /\ 2 * TP \in Nat
      BY <2>2, <3>2
    <3> QED
      BY <3>1, <3>3
  <2>4. one \in Nat \ {0} /\ one = One
    BY <2>0
  <2> HIDE DEF negatives, one
  <2>5. c * one \in Nat
    BY <2>4
  <2>6. a \in Nat /\ a < c * one
    BY <2>3, <2>5
  <2> HIDE DEF a
  <2>7. c # 0
    BY <2>4, <2>6
  <2>8. NORM(a, c * One) = a \div c
    <3>1. a < c * One /\ c \in Nat \ {0}
      BY <2>4, <2>6, <2>7
    <3> QED
      BY <2>6, <3>1, NormValue
  <2>9. (a * one) \div (c * one) = a \div c
    <3> DEFINE q == a \div c
               r == a % c
    <3>1. a = q * c + r /\ q \in Int /\ r \in 0..(c - 1)
      <4>1. a \in Int /\ c \in Nat \ {0}
        BY <2>6, <2>7
      <4> QED
        BY <4>1, Division, Zenon
    <3> HIDE DEF q, r
    <3>2. a * one = q * (c * one) + r * one
      BY <2>4, <2>6, <3>1
    <3>3. r * one \in Nat /\ (r + 1) * one <= c * one
      BY <2>4, <2>7, <3>1
    <3>4. r * one < c * one /\ c * one > 0
      BY <2>4, <2>7, <3>1, <3>3
    <3> DEFINE n == c * one
               s == r * one
               x == a * one
    <3>5. n \in Nat \ {0} /\ s \in 0..(n - 1) /\ x = q * n + s /\ x \in Int
      BY <2>4, <2>5, <2>6, <3>2, <3>3, <3>4
    <3> HIDE DEF n, s, x
    <3>6. x \div n = q
      BY <3>1, <3>5, DivisionUnique
    <3> QED
      BY <3>6 DEF n, x, q
  <2> QED
    BY <2>1, <2>3, <2>4, <2>8, <2>9 DEF a
<1> QED
  BY <1>1, CurveInvariant, PTL
=============================================================================
