--------------------------- MODULE ProductsProofs ---------------------------
(***************************************************************************)
(* For every ring, every point and all masks: what MUX, MUL and NORM return *)
(* on shares.  First the powers of two and the truncations as numbers, then *)
(* the additions of the protocols, then the invariant.                      *)
(***************************************************************************)
EXTENDS Products, Lemmas

-----------------------------------------------------------------------------
(* Rings. *)

LEMMA RingSize ==
  /\ RING \in Nat \ {0} /\ HALF \in Nat \ {0} /\ One \in Nat \ {0}
  /\ RING = 2 * HALF
  /\ One <= HALF
  /\ RING = One * (RING \div One) /\ RING \div One \in Nat \ {0}
<1>1. /\ W - 1 \in Nat /\ (W - 1) + 1 = W /\ W \in Nat /\ FRAC \in Nat
      /\ FRAC \in 0..W /\ FRAC \in 0..(W - 1)
  BY WAssumption, FRACAssumption
<1>2. RING = 2 * Pow2[W - 1] /\ Pow2[W - 1] \in Nat \ {0}
  BY <1>1, PowersOfTwo DEF RING
<1>3. HALF = Pow2[W - 1]
  <2> DEFINE q == Pow2[W - 1]
  <2> HIDE DEF q
  <2>1. q \in Nat => (2 * q) \div 2 = q
    BY SMT
  <2> QED
    BY <1>2, <2>1 DEF HALF, q
<1>4. Pow2[W - 1] = One * Pow2[(W - 1) - FRAC] /\ One \in Nat \ {0} /\ Pow2[(W - 1) - FRAC] \in Nat \ {0}
  BY <1>1, PowerDivides DEF One
<1>5. RING = One * Pow2[W - FRAC] /\ Pow2[W - FRAC] \in Nat \ {0}
  BY <1>1, PowerDivides DEF One, RING
<1>6. RING \div One = Pow2[W - FRAC]
  <2> DEFINE k == Pow2[W - FRAC]
             o == One
  <2>1. RING = k * o + 0 /\ o \in Nat \ {0} /\ k \in Int /\ RING \in Int
    BY <1>4, <1>5, <1>2
  <2> HIDE DEF k, o
  <2>2. 0 \in 0..(o - 1)
    BY <2>1
  <2>3. RING \div o = k
    BY <2>1, <2>2, DivisionUnique
  <2> QED
    BY <2>3 DEF k, o
<1>7. One <= HALF
  <2> DEFINE k == Pow2[(W - 1) - FRAC]
             o == One
  <2> HIDE DEF k, o
  <2>1. o \in Nat /\ k \in Nat /\ k >= 1 => o <= o * k
    <3> SUFFICES ASSUME o \in Nat, k \in Nat, k >= 1 PROVE o <= o * k
      OBVIOUS
    <3>1. o * k = o + o * (k - 1) /\ k - 1 \in Nat
      OBVIOUS
    <3>2. o * (k - 1) \in Nat
      BY <3>1
    <3> QED
      BY <3>1, <3>2
  <2> QED
    BY <1>3, <1>4, <2>1 DEF k, o
<1> QED
  BY <1>2, <1>3, <1>4, <1>5, <1>6, <1>7

LEMMA ModIsCongruent ==
  ASSUME NEW a \in Int
  PROVE  /\ Mod(a) \in Ring /\ Mod(a) \in Int
         /\ Congruent(Mod(a), a, RING) /\ Congruent(a, Mod(a), RING)
<1>1. RING \in Nat \ {0}
  BY RingSize
<1> HIDE DEF RING
<1>2. a % RING \in 0..(RING - 1)
  BY <1>1, Division, Zenon
<1>3. Congruent(a % RING, a, RING) /\ Congruent(a, a % RING, RING)
  BY <1>1, CongruentMod, Zenon
<1>4. a % RING \in Int
  BY <1>1, <1>2
<1> QED
  BY <1>2, <1>3, <1>4, Zenon DEF Mod, Ring

-----------------------------------------------------------------------------
(* The additions of the protocols. *)

(* MUX: the helper's part takes the masks out of what the proxies computed. *)
LEMMA MasksCancel ==
  ASSUME NEW n \in Int,
         NEW b1 \in Int, NEW b2 \in Int, NEW d1 \in Int, NEW d2 \in Int,
         NEW r1 \in Int, NEW r2 \in Int, NEW r3 \in Int, NEW r4 \in Int,
         NEW own1 \in Int, NEW own2 \in Int,
         NEW s11 \in Int, NEW s12 \in Int, NEW s21 \in Int, NEW s22 \in Int,
         Congruent(own1, b1 * d1 - r2 * b1 - r3 * d1 - r3 * r4, n),
         Congruent(own2, b2 * d2 - r1 * d2 - r1 * r2 - r4 * b2, n),
         Congruent(s11, b1 + r1, n), Congruent(s12, d1 + r4, n),
         Congruent(s21, d2 + r2, n), Congruent(s22, b2 + r3, n)
  PROVE  Congruent((own1 + own2) + (s11 * s21 + s12 * s22), (b1 + b2) * (d1 + d2), n)
<1>1. /\ Congruent(s11 * s21, (b1 + r1) * (d2 + r2), n)
      /\ Congruent(s12 * s22, (d1 + r4) * (b2 + r3), n)
  BY CongruentProduct
<1>2. Congruent(s11 * s21 + s12 * s22, (b1 + r1) * (d2 + r2) + (d1 + r4) * (b2 + r3), n)
  BY <1>1, CongruentSum
<1> DEFINE o1 == b1 * d1 - r2 * b1 - r3 * d1 - r3 * r4
           o2 == b2 * d2 - r1 * d2 - r1 * r2 - r4 * b2
           m == (b1 + r1) * (d2 + r2) + (d1 + r4) * (b2 + r3)
<1>3. o1 \in Int /\ o2 \in Int /\ m \in Int /\ s11 * s21 + s12 * s22 \in Int
  OBVIOUS
<1>4. (o1 + o2) + m = (b1 + b2) * (d1 + d2)
  <2>1. m = b1 * d2 + b1 * r2 + r1 * d2 + r1 * r2 + d1 * b2 + d1 * r3 + r4 * b2 + r4 * r3
    BY SMT
  <2>2. (b1 + b2) * (d1 + d2) = b1 * d1 + b1 * d2 + b2 * d1 + b2 * d2
    BY SMT
  <2> QED
    BY <2>1, <2>2, SMT
<1>5. Congruent(own1, o1, n) /\ Congruent(own2, o2, n) /\ Congruent(s11 * s21 + s12 * s22, m, n)
  BY <1>2
<1> HIDE DEF o1, o2, m
<1>6. Congruent(own1 + own2, o1 + o2, n)
  BY <1>3, <1>5, CongruentSum
<1>7. Congruent((own1 + own2) + (s11 * s21 + s12 * s22), (o1 + o2) + m, n)
  <2>1. own1 + own2 \in Int /\ o1 + o2 \in Int
    BY <1>3
  <2> QED
    BY <1>3, <1>5, <1>6, <2>1, CongruentSum
<1> QED
  BY <1>4, <1>7

(* MUL: the opened e and f and the triple (a, b, c). *)
LEMMA TripleMultiplies ==
  ASSUME NEW n \in Int, NEW x \in Int, NEW y \in Int,
         NEW a \in Int, NEW b \in Int, NEW c \in Int, NEW e \in Int, NEW f \in Int,
         Congruent(e, x - a, n), Congruent(f, y - b, n), Congruent(c, a * b, n)
  PROVE  Congruent(e * f + f * a + e * b + c, x * y, n)
<1>1. Congruent(e + a, (x - a) + a, n) /\ Congruent(f + b, (y - b) + b, n)
  <2>1. Congruent(a, a, n) /\ Congruent(b, b, n)
    BY CongruentRefl
  <2> QED
    BY <2>1, CongruentSum
<1>2. (x - a) + a = x /\ (y - b) + b = y
  OBVIOUS
<1>3. Congruent((e + a) * (f + b), x * y, n)
  <2>1. e + a \in Int /\ f + b \in Int
    OBVIOUS
  <2> QED
    BY <1>1, <1>2, <2>1, CongruentProduct
<1>4. Congruent(c - a * b, 0, n)
  <2>1. a * b \in Int
    OBVIOUS
  <2>2. Congruent(a * b, a * b, n)
    BY <2>1, CongruentRefl
  <2>3. Congruent(c - a * b, a * b - a * b, n)
    BY <2>1, <2>2, CongruentSum
  <2>4. a * b - a * b = 0
    BY <2>1
  <2> QED
    BY <2>3, <2>4
<1>5. Congruent((e + a) * (f + b) + (c - a * b), x * y + 0, n)
  <2>1. (e + a) * (f + b) \in Int /\ c - a * b \in Int /\ x * y \in Int
    OBVIOUS
  <2> QED
    BY <1>3, <1>4, <2>1, CongruentSum
<1>6. (e + a) * (f + b) + (c - a * b) = e * f + f * a + e * b + c
  BY SMT
<1>7. x * y + 0 = x * y
  OBVIOUS
<1> QED
  BY <1>5, <1>6, <1>7

-----------------------------------------------------------------------------
(* Truncating two opposite numbers. *)

(* Numbers a multiple apart have quotients that far apart. *)
LEMMA QuotientShift ==
  ASSUME NEW o \in Nat \ {0}, NEW s \in Int, NEW t \in Int, NEW k \in Int,
         s = t + k * o
  PROVE  s \div o = (t \div o) + k
<1>1. t = (t \div o) * o + (t % o) /\ t \div o \in Int /\ t % o \in 0..(o - 1)
  BY Division
<1> DEFINE q == t \div o
           m == t % o
<1> HIDE DEF q, m
<1>2. t = q * o + m /\ q \in Int /\ m \in 0..(o - 1)
  BY <1>1 DEF q, m
<1>3. s = (q + k) * o + m /\ q + k \in Int
  BY <1>2
<1>4. s \div o = q + k
  BY <1>2, <1>3, DivisionUnique
<1> QED
  BY <1>4 DEF q

(* In general the quotients differ by that of the difference, or one more.  *)
LEMMA QuotientDifference ==
  ASSUME NEW o \in Nat \ {0}, NEW s \in Int, NEW t \in Int
  PROVE  /\ (s \div o) - (t \div o) \in {(s - t) \div o, ((s - t) \div o) + 1}
         /\ (s - t) % o = 0 => (s \div o) - (t \div o) = (s - t) \div o
<1> DEFINE e == s - t
           qs == s \div o
           qt == t \div o
           qe == e \div o
           ms == s % o
           mt0 == t % o
           me == e % o
<1>1. s = qs * o + ms /\ qs \in Int /\ ms \in 0..(o - 1)
  BY Division
<1>2. t = qt * o + mt0 /\ qt \in Int /\ mt0 \in 0..(o - 1)
  BY Division
<1>3. e = qe * o + me /\ qe \in Int /\ me \in 0..(o - 1)
  <2>1. e \in Int
    OBVIOUS
  <2> HIDE DEF e
  <2> QED
    BY <2>1, Division
<1>4. e = s - t
  OBVIOUS
<1> HIDE DEF e, qs, qt, qe, ms, mt0, me
<1> DEFINE g == qs - qt - qe
<1>5. g * o = me + mt0 - ms /\ g \in Int
  <2>1. (qs - qt - qe) * o = qs * o - qt * o - qe * o
    BY <1>1, <1>2, <1>3, SMT
  <2>2. qs * o \in Int /\ qt * o \in Int /\ qe * o \in Int
    BY <1>1, <1>2, <1>3
  <2> QED
    BY <1>1, <1>2, <1>3, <1>4, <2>1, <2>2
<1> HIDE DEF g
<1>6. g * o > -o /\ g * o < 2 * o /\ (me = 0 => g * o < o)
  BY <1>1, <1>2, <1>3, <1>5
<1>7. g \in {0, 1} /\ (me = 0 => g = 0)
  <2>1. g >= 0
    <3> SUFFICES ASSUME g <= -1 PROVE FALSE
      BY <1>5
    <3>1. g * o = -o + (g + 1) * o /\ (g + 1) * o <= 0
      BY <1>5
    <3> QED
      BY <1>5, <1>6, <3>1
  <2>2. g <= 1
    <3> SUFFICES ASSUME g >= 2 PROVE FALSE
      BY <1>5
    <3>1. g * o = 2 * o + (g - 2) * o /\ (g - 2) * o >= 0
      BY <1>5
    <3> QED
      BY <1>5, <1>6, <3>1
  <2>3. g = 1 => g * o = o
    OBVIOUS
  <2> QED
    BY <1>5, <1>6, <2>1, <2>2, <2>3
<1>8. qs - qt = qe + g
  BY <1>1, <1>2, <1>3 DEF g
<1>9. qs - qt \in {qe, qe + 1} /\ (me = 0 => qs - qt = qe)
  BY <1>1, <1>2, <1>3, <1>7, <1>8
<1> QED
  BY <1>9 DEF e, qs, qt, qe, me

-----------------------------------------------------------------------------
(* Truncation of shares. *)

LEMMA SignedInt ==
  ASSUME NEW v \in Ring
  PROVE  Signed(v) \in Int /\ v \in Int
BY RingSize DEF Signed, Ring

LEMMA TruncatedSum ==
  ASSUME NEW a \in Ring, NEW b \in Ring, NEW i \in Nat
  PROVE  /\ Truncate(P1, a, i) \in Ring /\ Truncate(P2, b, i) \in Ring
         /\ Signed(a) \div Pow2[i] \in Int /\ Signed(Mod(-b)) \div Pow2[i] \in Int
         /\ Congruent(Truncate(P1, a, i) + Truncate(P2, b, i),
                      (Signed(a) \div Pow2[i]) - (Signed(Mod(-b)) \div Pow2[i]), RING)
<1> DEFINE nb == Mod(-b)
           qa == Signed(a) \div Pow2[i]
           qb == Signed(nb) \div Pow2[i]
           ta == Mod(qa)
           tb == Mod(qb)
           tn == Mod(-tb)
<1>1. RING \in Int /\ Pow2[i] \in Nat \ {0} /\ a \in Int /\ b \in Int
  BY RingSize, PowersOfTwo, SignedInt
<1>2. nb \in Ring
  BY <1>1, ModIsCongruent
<1>3. qa \in Int /\ qb \in Int
  <2>1. Signed(a) \in Int /\ Signed(nb) \in Int
    BY <1>2, SignedInt
  <2> HIDE DEF nb
  <2> QED
    BY <1>1, <2>1, Division
<1>4. Truncate(P1, a, i) = ta /\ Truncate(P2, b, i) = tn
  BY DEF Truncate, AS, P1, P2
<1> HIDE DEF nb, qa, qb
<1>5. ta \in Ring /\ ta \in Int /\ Congruent(ta, qa, RING)
  BY <1>3, ModIsCongruent
<1>6. tb \in Ring /\ tb \in Int /\ Congruent(tb, qb, RING)
  BY <1>3, ModIsCongruent
<1> HIDE DEF ta, tb
<1>7. tn \in Ring /\ tn \in Int /\ Congruent(tn, -tb, RING)
  <2>1. -tb \in Int
    BY <1>6
  <2> QED
    BY <2>1, ModIsCongruent
<1> HIDE DEF tn
<1>8. Congruent(tn, -qb, RING)
  <2>1. Congruent(0 - tb, 0 - qb, RING)
    <3>1. Congruent(0, 0, RING) /\ 0 \in Int
      BY <1>1, CongruentRefl
    <3> QED
      BY <1>1, <1>3, <1>6, <3>1, CongruentSum
  <2>2. 0 - tb = -tb /\ 0 - qb = -qb /\ -tb \in Int /\ -qb \in Int
    BY <1>3, <1>6
  <2> QED
    BY <1>1, <1>7, <2>1, <2>2, CongruentTrans
<1>9. Congruent(ta + tn, qa + (-qb), RING)
  <2>1. -qb \in Int
    BY <1>3
  <2> QED
    BY <1>1, <1>3, <1>5, <1>7, <1>8, <2>1, CongruentSum
<1>10. qa + (-qb) = qa - qb
  BY <1>3
<1>11. Congruent(ta + tn, qa - qb, RING)
  BY <1>9, <1>10
<1> QED
  BY <1>3, <1>4, <1>5, <1>7, <1>11 DEF qa, qb, nb

(* Shares of a whole multiple that do not cross truncate to it exactly.     *)
LEMMA WholeTruncation ==
  ASSUME NEW f, f[P1] \in Ring, f[P2] \in Ring, NEW i \in Nat, NEW k \in Int,
         NEW number, number = k * Pow2[i], ~Cross(f, number)
  PROVE  Congruent(Truncate(P1, f[P1], i) + Truncate(P2, f[P2], i), k, RING)
<1> DEFINE s == Signed(f[P1])
           t == Signed(Mod(-f[P2]))
           o == Pow2[i]
<1>1. s - t = number
  BY DEF Cross
<1>2. s \in Int /\ t \in Int /\ o \in Nat \ {0}
  <2>1. -f[P2] \in Int
    BY SignedInt
  <2>2. Mod(-f[P2]) \in Ring
    BY <2>1, ModIsCongruent
  <2> QED
    BY <2>2, SignedInt, PowersOfTwo
<1>3. Congruent(Truncate(P1, f[P1], i) + Truncate(P2, f[P2], i), (s \div o) - (t \div o), RING)
  BY TruncatedSum
<1>4. number = k * o
  OBVIOUS
<1> HIDE DEF s, t, o
<1>5. s = t + k * o
  BY <1>1, <1>2, <1>4
<1>6. s \div o = (t \div o) + k /\ t \div o \in Int
  <2>1. t \div o \in Int
    BY <1>2, Division
  <2>2. s \div o = (t \div o) + k
    BY <1>2, <1>5, QuotientShift
  <2> QED
    BY <2>1, <2>2
<1>7. (s \div o) - (t \div o) = k
  <2> DEFINE q == t \div o
  <2> HIDE DEF q
  <2>1. q \in Int => (q + k) - q = k
    OBVIOUS
  <2> QED
    BY <1>6, <2>1 DEF q
<1> QED
  BY <1>3, <1>7

(* MUX shifts without the sign: what its shares are apart is divided        *)
(* exactly, whole rings included.                                           *)
LEMMA MuxDivides ==
  ASSUME NEW a \in Ring, NEW b \in Ring, NEW d \in Int, NEW w \in Int,
         a - Mod(-b) = One * d + w * RING
  PROVE  /\ Divided(P1, a) \in Int /\ Divided(P2, b) \in Int
         /\ Congruent(Divided(P1, a) + Divided(P2, b), d + w * (RING \div One), RING)
<1> DEFINE nb == Mod(-b)
           K == RING \div One
           qa == a \div One
           qb == nb \div One
           dn == Mod(-qb)
           k == d + w * K
<1>1. RING \in Int /\ One \in Nat \ {0} /\ RING = One * K /\ K \in Nat
  BY RingSize
<1>2. nb \in Int /\ a \in Int
  <2>1. -b \in Int /\ a \in Int
    BY SignedInt
  <2> QED
    BY <2>1, ModIsCongruent
<1>3. Divided(P1, a) = qa /\ Divided(P2, b) = dn
  BY DEF Divided, LogicalShift, P1, P2
<1>4. a - nb = One * d + w * RING
  OBVIOUS
<1> HIDE DEF nb, K, RING, One
<1>5. k \in Int /\ a = nb + k * One
  <2>1. w * K \in Int /\ k \in Int
    BY <1>1
  <2>2. w * RING = (w * K) * One
    BY <1>1, SMT
  <2>3. k * One = d * One + (w * K) * One
    BY <1>1, <2>1, SMT
  <2>4. d * One = One * d /\ d * One \in Int /\ (w * K) * One \in Int
    BY <1>1, <2>1
  <2> QED
    BY <1>2, <1>4, <2>1, <2>2, <2>3, <2>4
<1> HIDE DEF k
<1>6. qa = qb + k /\ qb \in Int /\ qa \in Int
  <2>1. nb \div One \in Int /\ a \div One \in Int
    BY <1>1, <1>2, Division
  <2>2. a \div One = (nb \div One) + k
    BY <1>1, <1>2, <1>5, QuotientShift
  <2> QED
    BY <2>1, <2>2
<1> HIDE DEF qa, qb
<1>7. dn \in Int /\ Congruent(dn, -qb, RING)
  <2>1. -qb \in Int
    BY <1>6
  <2> QED
    BY <2>1, ModIsCongruent
<1> HIDE DEF dn
<1>8. Congruent(qa + dn, qa + (-qb), RING)
  <2>1. -qb \in Int /\ Congruent(qa, qa, RING)
    BY <1>1, <1>6, CongruentRefl
  <2> QED
    BY <1>1, <1>6, <1>7, <2>1, CongruentSum
<1>9. qa + (-qb) = k
  BY <1>5, <1>6
<1>10. Congruent(qa + dn, k, RING)
  BY <1>8, <1>9
<1> QED
  BY <1>3, <1>6, <1>7, <1>10 DEF k, K

-----------------------------------------------------------------------------
(* The invariant. *)

TypeInv ==
    /\ op \in {"MUX", "MUL", "NORM"}
    /\ value \in [x : Int, y : Int, b : Int]
    /\ share \in [Proxies -> [x : Ring, y : Ring, b : Ring]]
    /\ r \in [1..4 -> Ring]
    /\ mt \in [Proxies -> [0..2 -> Ring]]
    /\ sent \in [Proxies -> Ring \X Ring]
    /\ prod \in [Proxies -> Ring]
    /\ res \in [Proxies -> Ring]
    /\ round \in Nat
    /\ u \in [Proxies -> Ring]
    /\ apart \in BOOLEAN

(* Each operation goes through its own steps; MUX's bit is zero or one. *)
PcInv ==
    /\ op = "MUX" => value.b \in {0, One}
    /\ pc \in {"start", "serve", "select", "open", "multiply", "done"}
    /\ pc \in {"serve", "select"} => op = "MUX"
    /\ pc \in {"open", "multiply"} => op = "MUL"

(* The shares of the operands add up to them. *)
SharesOf(f, g, number) == Congruent(f + g, number, RING)

ShareInv ==
    /\ SharesOf(share[P1].x, share[P2].x, value.x)
    /\ SharesOf(share[P1].y, share[P2].y, value.y)
    /\ SharesOf(share[P1].b, share[P2].b, value.b)

MuxInv ==
    /\ pc = "serve" => prod = [p \in Proxies |-> Own(p)] /\ sent = [p \in Proxies |-> Masked(p)]
    /\ op = "MUX" /\ pc \in {"select", "done"} => SharesOf(prod[P1], prod[P2], Exact)
    /\ Finished("MUX") => res = [p \in Proxies |-> Mod(share[p].x - Divided(p, prod[p]))]

(* The dealt triple, the opened differences, the truncated product. *)
MulInv ==
    /\ pc \in {"open", "multiply"} =>
          SharesOf(mt[P1][2], mt[P2][2], (mt[P1][0] + mt[P2][0]) * (mt[P1][1] + mt[P2][1]))
    /\ pc = "multiply" => sent = [p \in Proxies |-> <<Mod(share[p].x - mt[p][0]),
                                                      Mod(share[p].y - mt[p][1])>>]
    /\ Finished("MUL") => /\ SharesOf(prod[P1], prod[P2], Exact)
                          /\ res = [p \in Proxies |-> Truncate(p, prod[p], FRAC)]

(* NORM after some rounds, when nothing crossed: what came off is the bits  *)
(* found so far times the denominator, and what is left is less than the    *)
(* denominator shifted that far down, or just it when they were equal.      *)
Numbers == value.x \in 0..value.y /\ value.y \in Nat /\ One * value.y < HALF /\ value.y % One = 0

Quotient(q) ==
    LET left == value.x - q * (value.y \div One)
    IN  /\ q \in 0..(One - Pow2[FRAC - round])
        /\ SharesOf(res[P1], res[P2], q)
        /\ SharesOf(u[P1], u[P2], q * (value.y \div One))
        /\ left >= 0
        /\ IF value.x = value.y
           THEN left * Pow2[round] = value.y /\ q = One - Pow2[FRAC - round]
           ELSE left * Pow2[round] < value.y

NormInv ==
    op = "NORM" =>
        /\ Numbers
        /\ round \in 0..FRAC
        /\ pc = "done" => round = FRAC
        /\ ~apart => \E q \in Nat : Quotient(q)

ProductsInv == TypeInv /\ PcInv /\ ShareInv /\ MuxInv /\ MulInv /\ NormInv

LEMMA SplitShares ==
  ASSUME NEW v \in Int, NEW s \in Ring
  PROVE  /\ Split(v, s)[P1] \in Ring /\ Split(v, s)[P2] \in Ring
         /\ SharesOf(Split(v, s)[P1], Split(v, s)[P2], v)
<1>1. Split(v, s)[P1] = s /\ Split(v, s)[P2] = Mod(v - s)
  BY DEF Split, Proxies, P1, P2
<1>2. s \in Int /\ RING \in Int
  BY RingSize DEF Ring
<1> DEFINE m == Mod(v - s)
<1>3. m \in Ring /\ m \in Int /\ Congruent(m, v - s, RING)
  <2>1. v - s \in Int
    BY <1>2
  <2> QED
    BY <2>1, ModIsCongruent
<1> HIDE DEF m
<1>4. Congruent(s + m, s + (v - s), RING)
  <2>1. Congruent(s, s, RING) /\ v - s \in Int
    BY <1>2, CongruentRefl
  <2> QED
    BY <1>2, <1>3, <2>1, CongruentSum
<1>5. s + (v - s) = v
  BY <1>2
<1> QED
  BY <1>1, <1>3, <1>4, <1>5 DEF m, SharesOf

LEMMA ProxiesAre == Proxies = {P1, P2} /\ P1 # P2 /\ P1 \in Proxies /\ P2 \in Proxies
BY DEF Proxies, P1, P2

LEMMA ZeroInRing == 0 \in Ring
BY RingSize DEF Ring

LEMMA InitInv == Init => ProductsInv
<1> SUFFICES ASSUME Init PROVE ProductsInv
  OBVIOUS
<1>1. value \in [x : Int, y : Int, b : Int] /\ (op = "NORM" => Numbers)
  <2>1. CASE op = "NORM"
    <3>1. PICK q \in Ratios : value = [x |-> q.x, y |-> q.y, b |-> 0]
      BY <2>1 DEF Init
    <3>2. q.y \in Nat /\ q.x \in 0..q.y /\ One * q.y < HALF /\ q.y % One = 0
      BY <3>1, RatiosAssumption
    <3>3. value.x = q.x /\ value.y = q.y
      BY <3>1
    <3> QED
      BY <3>1, <3>2, <3>3 DEF Numbers
  <2>2. CASE op # "NORM"
    <3>1. value \in [x : Operands, y : Operands, b : IF op = "MUX" THEN {0, One} ELSE {0}]
      BY <2>2 DEF Init
    <3>2. Operands \subseteq Int
      <4>1. \A z \in (-HALF)..(HALF - 1) : z \in Int
        BY RingSize
      <4> QED
        BY <4>1, OperandsAssumption, Zenon
    <3>3. (IF op = "MUX" THEN {0, One} ELSE {0}) \subseteq Int
      BY RingSize
    <3> DEFINE B == IF op = "MUX" THEN {0, One} ELSE {0}
    <3> HIDE DEF B
    <3>4. value \in [x : Operands, y : Operands, b : B] /\ B \subseteq Int
      BY <3>1, <3>3 DEF B
    <3> QED
      BY <2>2, <3>2, <3>4
  <2> QED
    BY <2>1, <2>2
<1>2. PICK s \in [x : Shares, y : Shares, b : Shares] :
          share = [p \in Proxies |-> [x |-> Split(value.x, s.x)[p],
                                      y |-> Split(value.y, s.y)[p],
                                      b |-> Split(value.b, s.b)[p]]]
  BY DEF Init
<1>3. /\ value.x \in Int /\ value.y \in Int /\ value.b \in Int
      /\ s.x \in Ring /\ s.y \in Ring /\ s.b \in Ring
  BY <1>1, RandomAssumption
<1>4. /\ share[P1] = [x |-> Split(value.x, s.x)[P1], y |-> Split(value.y, s.y)[P1],
                      b |-> Split(value.b, s.b)[P1]]
      /\ share[P2] = [x |-> Split(value.x, s.x)[P2], y |-> Split(value.y, s.y)[P2],
                      b |-> Split(value.b, s.b)[P2]]
  BY <1>2, ProxiesAre
<1>5. ShareInv
  <2>1. /\ SharesOf(Split(value.x, s.x)[P1], Split(value.x, s.x)[P2], value.x)
        /\ SharesOf(Split(value.y, s.y)[P1], Split(value.y, s.y)[P2], value.y)
        /\ SharesOf(Split(value.b, s.b)[P1], Split(value.b, s.b)[P2], value.b)
    BY <1>3, SplitShares
  <2> QED
    BY <1>4, <2>1 DEF ShareInv
<1>6. TypeInv
  <2>1. \A p \in Proxies : share[p] \in [x : Ring, y : Ring, b : Ring]
    BY <1>3, <1>4, SplitShares, ProxiesAre
  <2>2. share \in [Proxies -> [x : Ring, y : Ring, b : Ring]]
    BY <1>2, <2>1
  <2>3. r \in [1..4 -> Ring]
    BY ZeroInRing, RandomAssumption DEF Init
  <2> QED
    BY <1>1, <2>2, <2>3, ZeroInRing DEF Init, TypeInv
<1>7. PcInv /\ MuxInv /\ MulInv
  <2>1. op = "MUX" => value.b \in {0, One}
    <3> SUFFICES ASSUME op = "MUX" PROVE value.b \in {0, One}
      OBVIOUS
    <3>1. value \in [x : Operands, y : Operands, b : {0, One}]
      BY DEF Init
    <3> QED
      BY <3>1
  <2> QED
    BY <2>1 DEF Init, PcInv, MuxInv, MulInv, Finished
<1>8. NormInv
  <2>1. round = 0 /\ pc = "start"
    BY DEF Init
  <2>2. FRAC \in Nat /\ 0 \in 0..FRAC
    BY FRACAssumption
  <2>3. ASSUME op = "NORM"
        PROVE  Quotient(0)
    <3>1. Numbers /\ Pow2[round] = 1 /\ Pow2[FRAC - round] = One
      BY <1>1, <2>1, <2>2, <2>3, PowersOfTwo DEF One
    <3>2. res[P1] = 0 /\ res[P2] = 0 /\ u[P1] = 0 /\ u[P2] = 0 /\ RING \in Int
      BY RingSize, ProxiesAre DEF Init
    <3>3. SharesOf(0, 0, 0)
      <4>1. Congruent(0, 0, RING)
        BY <3>2, CongruentRefl
      <4> QED
        BY <4>1 DEF SharesOf
    <3>4. value.y \div One \in Int /\ 0 * (value.y \div One) = 0
      <4>1. value.y \div One \in Int
        <5>1. value.y \in Int /\ One \in Nat \ {0}
          BY <1>3, RingSize
        <5> QED
          BY <5>1, Division
      <4> DEFINE Y == value.y \div One
      <4> HIDE DEF Y
      <4>2. Y \in Int => 0 * Y = 0
        OBVIOUS
      <4> QED
        BY <4>1, <4>2 DEF Y
    <3>5. value.x \in 0..value.y /\ value.y \in Nat /\ One \in Nat
      BY <3>1, RingSize DEF Numbers
    <3> DEFINE Y == value.y \div One
               x == value.x
               y == value.y
    <3>6. 0 * Y = 0 /\ Y \in Int /\ x \in 0..y /\ y \in Nat /\ value.x = x /\ value.y = y
      BY <3>4, <3>5
    <3> HIDE DEF x, y
    <3>7. x - 0 * (y \div One) >= 0
        /\ IF x = y THEN (x - 0 * (y \div One)) * Pow2[round] = y /\ 0 = One - Pow2[FRAC - round]
           ELSE (x - 0 * (y \div One)) * Pow2[round] < y
      BY <3>1, <3>5, <3>6
    <3>8. 0 \in 0..(One - Pow2[FRAC - round])
      BY <3>1, <3>5
    <3> QED
      BY <3>2, <3>3, <3>6, <3>7, <3>8 DEF Quotient
  <2> QED
    BY <1>1, <2>1, <2>2, <2>3 DEF NormInv
<1> QED
  BY <1>5, <1>6, <1>7, <1>8 DEF ProductsInv

-----------------------------------------------------------------------------
(* The steps. *)

LEMMA RingType == Ring \subseteq Int /\ \A z \in Int : Mod(z) \in Ring
BY ModIsCongruent, RingSize DEF Ring

LEMMA ShareTypes ==
  ASSUME TypeInv, NEW p \in Proxies
  PROVE  /\ share[p].x \in Int /\ share[p].y \in Int /\ share[p].b \in Int
         /\ prod[p] \in Int /\ res[p] \in Int /\ u[p] \in Int
         /\ mt[p][0] \in Int /\ mt[p][1] \in Int /\ mt[p][2] \in Int
         /\ sent[p][1] \in Int /\ sent[p][2] \in Int
         /\ r[1] \in Int /\ r[2] \in Int /\ r[3] \in Int /\ r[4] \in Int
         /\ value.x \in Int /\ value.y \in Int /\ value.b \in Int
<1>1. share[p] \in [x : Ring, y : Ring, b : Ring] /\ prod[p] \in Ring /\ res[p] \in Ring
      /\ u[p] \in Ring /\ mt[p] \in [0..2 -> Ring] /\ sent[p] \in Ring \X Ring
      /\ r \in [1..4 -> Ring] /\ value \in [x : Int, y : Int, b : Int]
  BY DEF TypeInv
<1>2. /\ mt[p][0] \in Ring /\ mt[p][1] \in Ring /\ mt[p][2] \in Ring
      /\ r[1] \in Ring /\ r[2] \in Ring /\ r[3] \in Ring /\ r[4] \in Ring
  BY <1>1
<1>3. share[p].x \in Ring /\ share[p].y \in Ring /\ share[p].b \in Ring
      /\ sent[p][1] \in Ring /\ sent[p][2] \in Ring
      /\ value.x \in Int /\ value.y \in Int /\ value.b \in Int
  BY <1>1
<1> QED
  BY <1>1, <1>2, <1>3, RingType

LEMMA DiffType ==
  ASSUME TypeInv, NEW p \in Proxies
  PROVE  /\ share[p].x - share[p].y \in Int
         /\ Diff(p) \in Int /\ Diff(p) \in Ring
         /\ Congruent(Diff(p), share[p].x - share[p].y, RING)
<1>1. share[p].x - share[p].y \in Int
  BY ShareTypes
<1> QED
  BY <1>1, ModIsCongruent DEF Diff

(* What P1 and P2 make of their shares and the common masks. *)
LEMMA OwnMasked ==
  ASSUME TypeInv
  PROVE  /\ Own(P1) \in Ring /\ Own(P2) \in Ring
         /\ Masked(P1) \in Ring \X Ring /\ Masked(P2) \in Ring \X Ring
         /\ Congruent(Own(P1), share[P1].b * Diff(P1) - r[2] * share[P1].b
                                 - r[3] * Diff(P1) - r[3] * r[4], RING)
         /\ Congruent(Own(P2), share[P2].b * Diff(P2) - r[1] * Diff(P2)
                                 - r[1] * r[2] - r[4] * share[P2].b, RING)
         /\ Congruent(Masked(P1)[1], share[P1].b + r[1], RING)
         /\ Congruent(Masked(P1)[2], Diff(P1) + r[4], RING)
         /\ Congruent(Masked(P2)[1], Diff(P2) + r[2], RING)
         /\ Congruent(Masked(P2)[2], share[P2].b + r[3], RING)
<1> DEFINE b1 == share[P1].b
           b2 == share[P2].b
           d1 == Diff(P1)
           d2 == Diff(P2)
           o1 == b1 * d1 - r[2] * b1 - r[3] * d1 - r[3] * r[4]
           o2 == b2 * d2 - r[1] * d2 - r[1] * r[2] - r[4] * b2
<1>1. /\ b1 \in Int /\ b2 \in Int /\ d1 \in Int /\ d2 \in Int
      /\ r[1] \in Int /\ r[2] \in Int /\ r[3] \in Int /\ r[4] \in Int
  BY ShareTypes, DiffType, ProxiesAre
<1>2. Own(P1) = Mod(o1) /\ Own(P2) = Mod(o2)
  BY DEF Own, P1, P2
<1>3. Masked(P1) = <<Mod(b1 + r[1]), Mod(d1 + r[4])>>
      /\ Masked(P2) = <<Mod(d2 + r[2]), Mod(b2 + r[3])>>
  BY DEF Masked, P1, P2
<1> HIDE DEF b1, b2, d1, d2
<1>4. o1 \in Int /\ o2 \in Int /\ b1 + r[1] \in Int /\ d1 + r[4] \in Int
      /\ d2 + r[2] \in Int /\ b2 + r[3] \in Int
  BY <1>1
<1> HIDE DEF o1, o2
<1>5. /\ Mod(o1) \in Ring /\ Mod(o2) \in Ring
      /\ Mod(b1 + r[1]) \in Ring /\ Mod(d1 + r[4]) \in Ring
      /\ Mod(d2 + r[2]) \in Ring /\ Mod(b2 + r[3]) \in Ring
      /\ Congruent(Mod(o1), o1, RING) /\ Congruent(Mod(o2), o2, RING)
      /\ Congruent(Mod(b1 + r[1]), b1 + r[1], RING) /\ Congruent(Mod(d1 + r[4]), d1 + r[4], RING)
      /\ Congruent(Mod(d2 + r[2]), d2 + r[2], RING) /\ Congruent(Mod(b2 + r[3]), b2 + r[3], RING)
  BY <1>4, ModIsCongruent
<1>6. /\ Masked(P1) \in Ring \X Ring /\ Masked(P2) \in Ring \X Ring
      /\ Masked(P1)[1] = Mod(b1 + r[1]) /\ Masked(P1)[2] = Mod(d1 + r[4])
      /\ Masked(P2)[1] = Mod(d2 + r[2]) /\ Masked(P2)[2] = Mod(b2 + r[3])
  BY <1>3, <1>5
<1> QED
  BY <1>2, <1>5, <1>6 DEF o1, o2, b1, b2, d1, d2

(* The difference and the operands it is of. *)
LEMMA DiffSum ==
  ASSUME TypeInv, ShareInv
  PROVE  Congruent(Diff(P1) + Diff(P2), value.x - value.y, RING)
<1> DEFINE x1 == share[P1].x
           x2 == share[P2].x
           y1 == share[P1].y
           y2 == share[P2].y
           d1 == Diff(P1)
           d2 == Diff(P2)
           x == value.x
           y == value.y
<1>1. /\ x1 \in Int /\ x2 \in Int /\ y1 \in Int /\ y2 \in Int /\ d1 \in Int /\ d2 \in Int
      /\ x \in Int /\ y \in Int /\ RING \in Int
      /\ Congruent(d1, x1 - y1, RING) /\ Congruent(d2, x2 - y2, RING)
  BY ShareTypes, DiffType, ProxiesAre, RingSize
<1>2. Congruent(x1 + x2, x, RING) /\ Congruent(y1 + y2, y, RING)
  BY DEF ShareInv, SharesOf
<1> HIDE DEF x1, x2, y1, y2, d1, d2, x, y
<1>3. Congruent(d1 + d2, (x1 - y1) + (x2 - y2), RING)
  <2>1. x1 - y1 \in Int /\ x2 - y2 \in Int
    BY <1>1
  <2> QED
    BY <1>1, <2>1, CongruentSum
<1>4. Congruent((x1 + x2) - (y1 + y2), x - y, RING)
  <2>1. x1 + x2 \in Int /\ y1 + y2 \in Int
    BY <1>1
  <2> QED
    BY <1>1, <1>2, <2>1, CongruentSum
<1>5. (x1 - y1) + (x2 - y2) = (x1 + x2) - (y1 + y2)
  BY <1>1
<1>6. Congruent(d1 + d2, x - y, RING)
  <2>1. d1 + d2 \in Int /\ (x1 + x2) - (y1 + y2) \in Int /\ x - y \in Int
    BY <1>1
  <2> QED
    BY <1>1, <1>3, <1>4, <1>5, <2>1, CongruentTrans
<1> QED
  BY <1>6 DEF d1, d2, x, y

(* The mask's step, the helper's product and the proxies' division. *)
LEMMA MaskStep == ProductsInv /\ Mask => ProductsInv'
<1> SUFFICES ASSUME ProductsInv, Mask PROVE ProductsInv'
  OBVIOUS
<1> USE DEF ProductsInv
<1>1. /\ op = "MUX" /\ pc = "start" /\ pc' = "serve"
      /\ prod' = [p \in Proxies |-> Own(p)] /\ sent' = [p \in Proxies |-> Masked(p)]
      /\ UNCHANGED <<norm, op, value, share, r, mt, res>>
  BY DEF Mask
<1>2. TypeInv'
  <2>1. \A p \in Proxies : Own(p) \in Ring /\ Masked(p) \in Ring \X Ring
    BY OwnMasked, ProxiesAre
  <2> QED
    BY <1>1, <2>1 DEF TypeInv, norm
<1>3. PcInv' /\ ShareInv' /\ MulInv' /\ NormInv'
  BY <1>1 DEF PcInv, ShareInv, SharesOf, MulInv, NormInv, Finished
<1>4. MuxInv'
  BY <1>1 DEF MuxInv, Own, Masked, Diff, Finished
<1> QED
  BY <1>2, <1>3, <1>4

LEMMA ServeStep == ProductsInv /\ Serve => ProductsInv'
<1> SUFFICES ASSUME ProductsInv, Serve PROVE ProductsInv'
  OBVIOUS
<1> USE DEF ProductsInv
<1> DEFINE m == sent[P1][1] * sent[P2][1] + sent[P1][2] * sent[P2][2]
<1>1. op = "MUX" /\ pc = "serve" /\ pc' = "select"
      /\ UNCHANGED <<norm, op, value, share, r, mt, sent, res>>
  BY DEF Serve, PcInv
<1>2. PICK s \in Ring :
          prod' = [p \in Proxies |-> Mod(prod[p] + Split(Mod(m), s)[p])]
  BY DEF Serve
<1>3. prod = [p \in Proxies |-> Own(p)] /\ sent = [p \in Proxies |-> Masked(p)]
  BY <1>1 DEF MuxInv
<1> DEFINE own1 == prod[P1]
           own2 == prod[P2]
           k1 == Split(Mod(m), s)[P1]
           k2 == Split(Mod(m), s)[P2]
<1>4. m \in Int /\ RING \in Int /\ own1 \in Int /\ own2 \in Int
  <2>1. sent[P1][1] \in Int /\ sent[P2][1] \in Int /\ sent[P1][2] \in Int /\ sent[P2][2] \in Int
    BY ShareTypes, ProxiesAre
  <2> QED
    BY <2>1, RingSize, ShareTypes, ProxiesAre
<1>5. /\ k1 \in Int /\ k2 \in Int /\ Congruent(k1 + k2, Mod(m), RING)
      /\ Mod(m) \in Int /\ Congruent(Mod(m), m, RING)
  <2>1. Mod(m) \in Int /\ Congruent(Mod(m), m, RING)
    <3> HIDE DEF m
    <3> QED
      BY <1>4, ModIsCongruent
  <2>2. k1 \in Ring /\ k2 \in Ring /\ SharesOf(k1, k2, Mod(m))
    <3> DEFINE z == Mod(m)
    <3> HIDE DEF z
    <3>1. z \in Int
      BY <2>1 DEF z
    <3>2. Split(z, s)[P1] \in Ring /\ Split(z, s)[P2] \in Ring /\ SharesOf(Split(z, s)[P1], Split(z, s)[P2], z)
      BY <3>1, SplitShares
    <3> QED
      BY <3>2 DEF z
  <2> QED
    BY <2>1, <2>2, RingType DEF SharesOf
<1>6. Congruent((own1 + own2) + m, (share[P1].b + share[P2].b) * (Diff(P1) + Diff(P2)), RING)
  <2>1. /\ own1 = Own(P1) /\ own2 = Own(P2)
        /\ sent[P1] = Masked(P1) /\ sent[P2] = Masked(P2)
    BY <1>3, ProxiesAre
  <2>2. /\ share[P1].b \in Int /\ share[P2].b \in Int /\ Diff(P1) \in Int /\ Diff(P2) \in Int
        /\ r[1] \in Int /\ r[2] \in Int /\ r[3] \in Int /\ r[4] \in Int
        /\ sent[P1][1] \in Int /\ sent[P2][1] \in Int /\ sent[P1][2] \in Int /\ sent[P2][2] \in Int
    BY ShareTypes, DiffType, ProxiesAre
  <2> HIDE DEF own1, own2
  <2>3. /\ Congruent(own1, share[P1].b * Diff(P1) - r[2] * share[P1].b
                              - r[3] * Diff(P1) - r[3] * r[4], RING)
        /\ Congruent(own2, share[P2].b * Diff(P2) - r[1] * Diff(P2)
                              - r[1] * r[2] - r[4] * share[P2].b, RING)
        /\ Congruent(sent[P1][1], share[P1].b + r[1], RING)
        /\ Congruent(sent[P1][2], Diff(P1) + r[4], RING)
        /\ Congruent(sent[P2][1], Diff(P2) + r[2], RING)
        /\ Congruent(sent[P2][2], share[P2].b + r[3], RING)
    BY <2>1, OwnMasked
  <2> DEFINE b1 == share[P1].b
             b2 == share[P2].b
             d1 == Diff(P1)
             d2 == Diff(P2)
             s11 == sent[P1][1]
             s12 == sent[P1][2]
             s21 == sent[P2][1]
             s22 == sent[P2][2]
             r1 == r[1]
             r2 == r[2]
             r3 == r[3]
             r4 == r[4]
             n == RING
  <2>4. /\ n \in Int /\ own1 \in Int /\ own2 \in Int
        /\ b1 \in Int /\ b2 \in Int /\ d1 \in Int /\ d2 \in Int
        /\ r1 \in Int /\ r2 \in Int /\ r3 \in Int /\ r4 \in Int
        /\ s11 \in Int /\ s12 \in Int /\ s21 \in Int /\ s22 \in Int
    BY <1>4, <2>2
  <2>5. /\ Congruent(own1, b1 * d1 - r2 * b1 - r3 * d1 - r3 * r4, n)
        /\ Congruent(own2, b2 * d2 - r1 * d2 - r1 * r2 - r4 * b2, n)
        /\ Congruent(s11, b1 + r1, n) /\ Congruent(s12, d1 + r4, n)
        /\ Congruent(s21, d2 + r2, n) /\ Congruent(s22, b2 + r3, n)
    BY <2>3
  <2> HIDE DEF b1, b2, d1, d2, s11, s12, s21, s22, r1, r2, r3, r4, n
  <2>6. Congruent((own1 + own2) + (s11 * s21 + s12 * s22), (b1 + b2) * (d1 + d2), n)
    BY <2>4, <2>5, MasksCancel
  <2> QED
    BY <2>6 DEF b1, b2, d1, d2, s11, s12, s21, s22, n
<1>7. Congruent((share[P1].b + share[P2].b) * (Diff(P1) + Diff(P2)),
                value.b * (value.x - value.y), RING)
  <2>1. /\ share[P1].b + share[P2].b \in Int /\ Diff(P1) + Diff(P2) \in Int
        /\ value.b \in Int /\ value.x - value.y \in Int
    BY ShareTypes, DiffType, ProxiesAre
  <2> QED
    BY <1>4, <2>1, DiffSum, CongruentProduct DEF ShareInv, SharesOf
<1>8. Congruent((own1 + own2) + m, Exact, RING)
  <2> DEFINE A == share[P1].b + share[P2].b
             B == Diff(P1) + Diff(P2)
             E == value.b * (value.x - value.y)
             O == (own1 + own2) + m
  <2>1. A \in Int /\ B \in Int /\ E \in Int /\ O \in Int
    <3>1. /\ share[P1].b \in Int /\ share[P2].b \in Int /\ Diff(P1) \in Int /\ Diff(P2) \in Int
          /\ value.b \in Int /\ value.x \in Int /\ value.y \in Int
      BY ShareTypes, DiffType, ProxiesAre
    <3> HIDE DEF m, own1, own2
    <3> QED
      BY <1>4, <3>1
  <2>2. Congruent(O, A * B, RING) /\ Congruent(A * B, E, RING)
    BY <1>6, <1>7
  <2> HIDE DEF A, B, E, O
  <2>3. A * B \in Int
    BY <2>1
  <2>4. Congruent(O, E, RING)
    BY <1>4, <2>1, <2>2, <2>3, CongruentTrans
  <2> QED
    BY <1>1, <2>4 DEF O, E, Exact
<1>9. /\ prod'[P1] \in Ring /\ prod'[P2] \in Ring
      /\ Congruent(prod'[P1] + prod'[P2], Exact, RING)
  <2>1. prod'[P1] = Mod(own1 + k1) /\ prod'[P2] = Mod(own2 + k2)
    BY <1>2, ProxiesAre
  <2> HIDE DEF own1, own2, k1, k2, m
  <2> DEFINE q1 == Mod(own1 + k1)
             q2 == Mod(own2 + k2)
             M == Mod(m)
  <2>2. /\ q1 \in Ring /\ q2 \in Ring /\ q1 \in Int /\ q2 \in Int
        /\ Congruent(q1, own1 + k1, RING) /\ Congruent(q2, own2 + k2, RING)
    <3>1. own1 + k1 \in Int /\ own2 + k2 \in Int
      BY <1>4, <1>5
    <3> QED
      BY <3>1, ModIsCongruent
  <2> HIDE DEF q1, q2
  <2>3. Congruent(q1 + q2, (own1 + k1) + (own2 + k2), RING)
    <3>1. own1 + k1 \in Int /\ own2 + k2 \in Int
      BY <1>4, <1>5
    <3> QED
      BY <1>4, <2>2, <3>1, CongruentSum
  <2>4. (own1 + k1) + (own2 + k2) = (own1 + own2) + (k1 + k2)
    BY <1>4, <1>5
  <2>5. M \in Int /\ Congruent(k1 + k2, M, RING) /\ Congruent(M, m, RING)
    BY <1>5
  <2> HIDE DEF M
  <2>6. Congruent(k1 + k2, m, RING)
    <3>1. k1 + k2 \in Int
      BY <1>5
    <3> QED
      BY <1>4, <2>5, <3>1, CongruentTrans
  <2>7. Congruent((own1 + own2) + (k1 + k2), (own1 + own2) + m, RING)
    <3>1. own1 + own2 \in Int /\ k1 + k2 \in Int
      BY <1>4, <1>5
    <3>2. Congruent(own1 + own2, own1 + own2, RING)
      BY <1>4, <3>1, CongruentRefl
    <3> QED
      BY <1>4, <2>6, <3>1, <3>2, CongruentSum
  <2> DEFINE E == Exact
             O == (own1 + own2) + m
             T == (own1 + own2) + (k1 + k2)
  <2>8. E \in Int /\ O \in Int /\ T \in Int /\ q1 + q2 \in Int
    <3>1. value.b \in Int /\ value.x \in Int /\ value.y \in Int
      BY ShareTypes, ProxiesAre
    <3>2. E \in Int
      BY <3>1 DEF Exact
    <3> QED
      BY <1>4, <1>5, <2>2, <3>2
  <2>9. Congruent(q1 + q2, T, RING) /\ Congruent(T, O, RING) /\ Congruent(O, E, RING)
    BY <1>8, <2>3, <2>4, <2>7
  <2> HIDE DEF E, O, T
  <2>10. Congruent(q1 + q2, O, RING)
    BY <1>4, <2>8, <2>9, CongruentTrans
  <2>11. Congruent(q1 + q2, E, RING)
    BY <1>4, <2>8, <2>9, <2>10, CongruentTrans
  <2> QED
    BY <2>1, <2>2, <2>11 DEF q1, q2, E
<1>10. TypeInv'
  <2>1. prod' \in [Proxies -> Ring]
    BY <1>2, <1>9, ProxiesAre
  <2> QED
    BY <1>1, <2>1 DEF TypeInv, norm
<1>11. PcInv' /\ ShareInv' /\ MulInv' /\ NormInv'
  BY <1>1 DEF PcInv, ShareInv, SharesOf, MulInv, NormInv, Finished
<1>12. MuxInv'
  BY <1>1, <1>9 DEF MuxInv, Finished, SharesOf, Exact
<1> QED
  BY <1>10, <1>11, <1>12

(* A MUX's share of the result, and its products, sum up to what they are.  *)
LEMMA SelectStep == ProductsInv /\ Select => ProductsInv'
<1> SUFFICES ASSUME ProductsInv, Select PROVE ProductsInv'
  OBVIOUS
<1> USE DEF ProductsInv
<1>1. op = "MUX" /\ pc = "select" /\ pc' = "done"
      /\ res' = [p \in Proxies |-> Mod(share[p].x - Divided(p, prod[p]))]
      /\ UNCHANGED <<norm, op, value, share, r, mt, sent, prod>>
  BY DEF Select, PcInv
<1>2. \A p \in Proxies : Mod(share[p].x - Divided(p, prod[p])) \in Ring
  <2> SUFFICES ASSUME NEW p \in Proxies
               PROVE  Mod(share[p].x - Divided(p, prod[p])) \in Ring
    OBVIOUS
  <2>1. prod[p] \in Ring /\ prod[p] \in Int /\ share[p].x \in Int /\ One \in Nat \ {0}
    BY ShareTypes, RingSize DEF TypeInv
  <2> DEFINE a == prod[p]
             n == Mod(-a)
             q == n \div One
             t == a \div One
  <2> HIDE DEF a
  <2>2. -a \in Int /\ a \in Int
    BY <2>1 DEF a
  <2>3. n \in Int
    BY <2>2, ModIsCongruent
  <2> HIDE DEF n
  <2>4. q \in Int /\ t \in Int
    BY <2>1, <2>2, <2>3, Division
  <2>5. Divided(p, a) = IF p = P1 THEN t ELSE Mod(-q)
    BY DEF Divided, LogicalShift, n
  <2> HIDE DEF q, t
  <2>6. Divided(p, a) \in Int
    <3>1. -q \in Int
      BY <2>4
    <3>2. Mod(-q) \in Int
      BY <3>1, ModIsCongruent
    <3> QED
      BY <2>4, <2>5, <3>2
  <2>7. share[p].x - Divided(p, a) \in Int
    BY <2>1, <2>6
  <2> QED
    BY <2>7, ModIsCongruent DEF a
<1>3. TypeInv'
  BY <1>1, <1>2 DEF TypeInv, norm
<1>4. PcInv' /\ ShareInv' /\ MulInv' /\ NormInv'
  BY <1>1 DEF PcInv, ShareInv, SharesOf, MulInv, NormInv, Finished
<1>5. MuxInv'
  BY <1>1 DEF MuxInv, SharesOf, Exact, Finished
<1> QED
  BY <1>3, <1>4, <1>5

(* The triple's third number is the product of the other two.               *)
LEMMA DealStep == ProductsInv /\ Deal => ProductsInv'
<1> SUFFICES ASSUME ProductsInv, Deal PROVE ProductsInv'
  OBVIOUS
<1> USE DEF ProductsInv
<1>1. op = "MUL" /\ pc = "start" /\ pc' = "open"
      /\ UNCHANGED <<norm, op, value, share, r, sent, prod, res>>
  BY DEF Deal
<1>2. PICK a \in Masks, b \in Masks, a1 \in Masks, b1 \in Masks, c1 \in Ring :
          mt' = [p \in Proxies |->
                    [k \in 0..2 |-> CASE k = 0 -> Split(a, a1)[p]
                                      [] k = 1 -> Split(b, b1)[p]
                                      [] k = 2 -> Split(Mod(a * b), c1)[p]]]
  BY DEF Deal
<1>3. /\ a \in Int /\ b \in Int /\ a1 \in Ring /\ b1 \in Ring /\ a * b \in Int /\ RING \in Int
  BY RandomAssumption, RingType, RingSize
<1> DEFINE ab == Mod(a * b)
<1>4. ab \in Int /\ Congruent(ab, a * b, RING)
  BY <1>3, ModIsCongruent
<1> HIDE DEF ab
<1> DEFINE A1 == Split(a, a1)[P1]
           A2 == Split(a, a1)[P2]
           B1 == Split(b, b1)[P1]
           B2 == Split(b, b1)[P2]
           C1 == Split(ab, c1)[P1]
           C2 == Split(ab, c1)[P2]
<1>5. /\ mt' = [p \in Proxies |-> mt'[p]]
      /\ mt'[P1] = [k \in 0..2 |-> IF k = 0 THEN A1 ELSE IF k = 1 THEN B1 ELSE C1]
      /\ mt'[P2] = [k \in 0..2 |-> IF k = 0 THEN A2 ELSE IF k = 1 THEN B2 ELSE C2]
  BY <1>2, ProxiesAre DEF ab
<1>6. /\ A1 \in Ring /\ A2 \in Ring /\ Congruent(A1 + A2, a, RING)
      /\ B1 \in Ring /\ B2 \in Ring /\ Congruent(B1 + B2, b, RING)
      /\ C1 \in Ring /\ C2 \in Ring /\ Congruent(C1 + C2, ab, RING)
  BY <1>3, <1>4, SplitShares DEF SharesOf
<1> HIDE DEF A1, A2, B1, B2, C1, C2
<1>7. Congruent(C1 + C2, (A1 + A2) * (B1 + B2), RING)
  <2>1. /\ A1 + A2 \in Int /\ B1 + B2 \in Int /\ C1 + C2 \in Int
        /\ (A1 + A2) * (B1 + B2) \in Int
    <3>1. A1 \in Int /\ A2 \in Int /\ B1 \in Int /\ B2 \in Int /\ C1 \in Int /\ C2 \in Int
      BY <1>6, RingType
    <3> QED
      BY <3>1
  <2>2. Congruent((A1 + A2) * (B1 + B2), a * b, RING)
    BY <1>3, <1>6, <2>1, CongruentProduct
  <2>3. Congruent(a * b, (A1 + A2) * (B1 + B2), RING)
    BY <1>3, <2>1, <2>2, CongruentSym
  <2>4. Congruent(C1 + C2, a * b, RING)
    BY <1>3, <1>4, <1>6, <2>1, CongruentTrans
  <2> QED
    BY <1>3, <2>1, <2>3, <2>4, CongruentTrans
<1>8. /\ mt'[P1][0] = A1 /\ mt'[P1][1] = B1 /\ mt'[P1][2] = C1
      /\ mt'[P2][0] = A2 /\ mt'[P2][1] = B2 /\ mt'[P2][2] = C2
  BY <1>5
<1>9. mt' \in [Proxies -> [0..2 -> Ring]]
  <2>1. mt'[P1] \in [0..2 -> Ring] /\ mt'[P2] \in [0..2 -> Ring]
    BY <1>5, <1>6
  <2> QED
    BY <1>5, <2>1, ProxiesAre
<1>10. TypeInv'
  BY <1>1, <1>9 DEF TypeInv, norm
<1>11. PcInv' /\ ShareInv' /\ MuxInv' /\ NormInv'
  BY <1>1 DEF PcInv, ShareInv, SharesOf, MuxInv, NormInv, Finished
<1>12. MulInv'
  BY <1>1, <1>7, <1>8 DEF MulInv, SharesOf, Finished
<1> QED
  BY <1>10, <1>11, <1>12

LEMMA OpenStep == ProductsInv /\ Open => ProductsInv'
<1> SUFFICES ASSUME ProductsInv, Open PROVE ProductsInv'
  OBVIOUS
<1> USE DEF ProductsInv
<1>1. op = "MUL" /\ pc = "open" /\ pc' = "multiply"
      /\ sent' = [p \in Proxies |-> <<Mod(share[p].x - mt[p][0]), Mod(share[p].y - mt[p][1])>>]
      /\ UNCHANGED <<norm, op, value, share, r, mt, prod, res>>
  BY DEF Open, PcInv
<1>2. \A p \in Proxies : /\ Mod(share[p].x - mt[p][0]) \in Ring
                         /\ Mod(share[p].y - mt[p][1]) \in Ring
  <2>1. \A p \in Proxies : share[p].x - mt[p][0] \in Int /\ share[p].y - mt[p][1] \in Int
    BY ShareTypes
  <2> QED
    BY <2>1, RingType
<1>3. TypeInv'
  BY <1>1, <1>2 DEF TypeInv, norm
<1>4. PcInv' /\ ShareInv' /\ MuxInv' /\ NormInv'
  BY <1>1 DEF PcInv, ShareInv, SharesOf, MuxInv, NormInv, Finished
<1>5. MulInv'
  BY <1>1 DEF MulInv, SharesOf, Finished
<1> QED
  BY <1>3, <1>4, <1>5

(* The opened differences are the operands less the triple's numbers.       *)
LEMMA OpenedDifference ==
  ASSUME NEW x \in Int, NEW x1 \in Int, NEW x2 \in Int, NEW a1 \in Int, NEW a2 \in Int,
         Congruent(x1 + x2, x, RING)
  PROVE  Congruent(Mod(Mod(x1 - a1) + Mod(x2 - a2)), x - (a1 + a2), RING)
<1> DEFINE s1 == Mod(x1 - a1)
           s2 == Mod(x2 - a2)
           e == Mod(s1 + s2)
<1>1. RING \in Int /\ x1 - a1 \in Int /\ x2 - a2 \in Int /\ a1 + a2 \in Int /\ x1 + x2 \in Int
  BY RingSize
<1>2. s1 \in Int /\ s2 \in Int /\ Congruent(s1, x1 - a1, RING) /\ Congruent(s2, x2 - a2, RING)
  BY <1>1, ModIsCongruent
<1> HIDE DEF s1, s2
<1>3. s1 + s2 \in Int /\ (x1 - a1) + (x2 - a2) \in Int /\ x - (a1 + a2) \in Int
  BY <1>1, <1>2
<1>4. e \in Int /\ Congruent(e, s1 + s2, RING)
  BY <1>3, ModIsCongruent
<1> HIDE DEF e
<1>5. Congruent(s1 + s2, (x1 - a1) + (x2 - a2), RING)
  BY <1>1, <1>2, CongruentSum
<1>6. Congruent((x1 + x2) - (a1 + a2), x - (a1 + a2), RING)
  <2>1. Congruent(a1 + a2, a1 + a2, RING)
    BY <1>1, CongruentRefl
  <2> QED
    BY <1>1, <2>1, CongruentSum
<1>7. (x1 - a1) + (x2 - a2) = (x1 + x2) - (a1 + a2)
  OBVIOUS
<1>8. Congruent(e, (x1 - a1) + (x2 - a2), RING)
  BY <1>1, <1>3, <1>4, <1>5, CongruentTrans
<1>9. Congruent(e, x - (a1 + a2), RING)
  BY <1>1, <1>3, <1>4, <1>6, <1>7, <1>8, CongruentTrans
<1> QED
  BY <1>9 DEF e, s1, s2

LEMMA MultiplyStep == ProductsInv /\ Multiply => ProductsInv'
<1> SUFFICES ASSUME ProductsInv, Multiply PROVE ProductsInv'
  OBVIOUS
<1> USE DEF ProductsInv
<1> DEFINE e == Mod(sent[P1][1] + sent[P2][1])
           f == Mod(sent[P1][2] + sent[P2][2])
<1>1. op = "MUL" /\ pc = "multiply" /\ pc' = "done"
      /\ prod' = [p \in Proxies |-> Product(p, e, f)]
      /\ res' = [p \in Proxies |-> Truncate(p, Product(p, e, f), FRAC)]
      /\ UNCHANGED <<norm, op, value, share, r, mt, sent>>
  BY DEF Multiply, PcInv
<1> DEFINE x == value.x
           y == value.y
           x1 == share[P1].x
           x2 == share[P2].x
           y1 == share[P1].y
           y2 == share[P2].y
           a1 == mt[P1][0]
           a2 == mt[P2][0]
           b1 == mt[P1][1]
           b2 == mt[P2][1]
           c1 == mt[P1][2]
           c2 == mt[P2][2]
           n == RING
<1>2. /\ x \in Int /\ y \in Int /\ x1 \in Int /\ x2 \in Int /\ y1 \in Int /\ y2 \in Int
      /\ a1 \in Int /\ a2 \in Int /\ b1 \in Int /\ b2 \in Int /\ c1 \in Int /\ c2 \in Int
      /\ n \in Int
  BY ShareTypes, ProxiesAre, RingSize
<1>3. /\ Congruent(x1 + x2, x, n) /\ Congruent(y1 + y2, y, n)
      /\ Congruent(c1 + c2, (a1 + a2) * (b1 + b2), n)
  BY <1>1 DEF ShareInv, MulInv, SharesOf
<1>4. /\ sent[P1] = <<Mod(x1 - a1), Mod(y1 - b1)>>
      /\ sent[P2] = <<Mod(x2 - a2), Mod(y2 - b2)>>
  BY <1>1, ProxiesAre DEF MulInv
<1>5. e = Mod(Mod(x1 - a1) + Mod(x2 - a2)) /\ f = Mod(Mod(y1 - b1) + Mod(y2 - b2))
  BY <1>4
<1> HIDE DEF x, y, x1, x2, y1, y2, a1, a2, b1, b2, c1, c2, e, f
<1>6. Congruent(e, x - (a1 + a2), n) /\ Congruent(f, y - (b1 + b2), n)
  BY <1>2, <1>3, <1>5, OpenedDifference
<1>7. e \in Int /\ f \in Int
  <2>1. Mod(x1 - a1) \in Int /\ Mod(x2 - a2) \in Int /\ Mod(y1 - b1) \in Int /\ Mod(y2 - b2) \in Int
    <3>1. x1 - a1 \in Int /\ x2 - a2 \in Int /\ y1 - b1 \in Int /\ y2 - b2 \in Int
      BY <1>2
    <3> QED
      BY <3>1, ModIsCongruent
  <2> DEFINE i1 == Mod(x1 - a1)
             i2 == Mod(x2 - a2)
             j1 == Mod(y1 - b1)
             j2 == Mod(y2 - b2)
  <2> HIDE DEF i1, i2, j1, j2
  <2>2. i1 \in Int /\ i2 \in Int /\ j1 \in Int /\ j2 \in Int /\ e = Mod(i1 + i2) /\ f = Mod(j1 + j2)
    BY <1>5, <2>1 DEF i1, i2, j1, j2
  <2>3. i1 + i2 \in Int /\ j1 + j2 \in Int
    BY <2>2
  <2> QED
    BY <2>2, <2>3, ModIsCongruent
<1> DEFINE q1 == f * a1 + e * b1 + c1
           q2 == e * f + f * a2 + e * b2 + c2
           m1 == Mod(q1)
           m2 == Mod(q2)
<1>8. Product(P1, e, f) = m1 /\ Product(P2, e, f) = m2
  <2>1. Product(P1, e, f) = Mod(0 * e * f + f * a1 + e * b1 + c1)
    BY DEF Product, P1, a1, b1, c1
  <2>2. Product(P2, e, f) = Mod(1 * e * f + f * a2 + e * b2 + c2)
    BY DEF Product, P2, a2, b2, c2
  <2>3. 0 * e * f + f * a1 + e * b1 + c1 = q1 /\ 1 * e * f + f * a2 + e * b2 + c2 = q2
    BY <1>2, <1>7
  <2> QED
    BY <2>1, <2>2, <2>3
<1>9. q1 \in Int /\ q2 \in Int
  BY <1>2, <1>7
<1>10. Congruent(q1 + q2, x * y, n)
  <2>1. a1 + a2 \in Int /\ b1 + b2 \in Int /\ c1 + c2 \in Int
    BY <1>2
  <2> DEFINE a == a1 + a2
             b == b1 + b2
             c == c1 + c2
  <2>2. q1 + q2 = e * f + f * a + e * b + c
    BY <1>2, <1>7, SMT
  <2>3. a \in Int /\ b \in Int /\ c \in Int
        /\ Congruent(e, x - a, n) /\ Congruent(f, y - b, n) /\ Congruent(c, a * b, n)
    BY <1>3, <1>6, <2>1
  <2> HIDE DEF a, b, c, q1, q2
  <2>4. Congruent(e * f + f * a + e * b + c, x * y, n)
    BY <1>2, <1>7, <2>3, TripleMultiplies
  <2> QED
    BY <2>2, <2>4
<1> HIDE DEF q1, q2
<1>11. /\ m1 \in Ring /\ m2 \in Ring /\ m1 \in Int /\ m2 \in Int
       /\ Congruent(m1, q1, n) /\ Congruent(m2, q2, n)
  BY <1>9, ModIsCongruent
<1> HIDE DEF m1, m2
<1>12. Congruent(m1 + m2, x * y, n)
  <2>1. m1 + m2 \in Int /\ q1 + q2 \in Int /\ x * y \in Int
    BY <1>2, <1>9, <1>11
  <2>2. Congruent(m1 + m2, q1 + q2, n)
    BY <1>2, <1>9, <1>11, CongruentSum
  <2> QED
    BY <1>2, <1>10, <2>1, <2>2, CongruentTrans
<1>13. prod'[P1] = m1 /\ prod'[P2] = m2 /\ res' = [p \in Proxies |-> Truncate(p, prod'[p], FRAC)]
  BY <1>1, <1>8, ProxiesAre
<1>14. TypeInv'
  <2>1. prod' \in [Proxies -> Ring]
    BY <1>1, <1>11, <1>13, ProxiesAre
  <2>2. Truncate(P1, m1, FRAC) \in Ring /\ Truncate(P2, m2, FRAC) \in Ring
    BY <1>11, TruncatedSum, FRACAssumption
  <2>3. res' \in [Proxies -> Ring]
    BY <1>13, <2>2, ProxiesAre
  <2> QED
    BY <1>1, <2>1, <2>3 DEF TypeInv, norm
<1>15. PcInv' /\ ShareInv' /\ MuxInv' /\ NormInv'
  BY <1>1 DEF PcInv, ShareInv, SharesOf, MuxInv, NormInv, Finished
<1>16. MulInv'
  BY <1>1, <1>12, <1>13 DEF MulInv, SharesOf, Finished, Exact, x, y
<1> QED
  BY <1>14, <1>15, <1>16

-----------------------------------------------------------------------------
(* A round of NORM, on numbers: pn is the bit's weight, sn the shift so far. *)
LEMMA NextBit ==
  ASSUME NEW x \in Nat, NEW y \in Nat, NEW Y \in Nat, NEW o \in Nat \ {0},
         NEW pn \in Nat \ {0}, NEW sn \in Nat \ {0}, NEW q \in 0..(o - 2 * pn),
         NEW left \in Nat, NEW z \in Int,
         o = (2 * sn) * pn, y = o * Y, left = x - q * Y, z = left * (2 * sn) - y,
         IF x = y THEN left * sn = y /\ q = o - 2 * pn ELSE left * sn < y
  PROVE  /\ z >= -y /\ z <= y
         /\ z >= 0 => /\ q + pn \in 0..(o - pn)
                      /\ x - (q + pn) * Y >= 0
                      /\ IF x = y THEN (x - (q + pn) * Y) * (2 * sn) = y /\ q + pn = o - pn
                         ELSE (x - (q + pn) * Y) * (2 * sn) < y
         /\ z < 0 => /\ q \in 0..(o - pn) /\ x # y
                     /\ left * (2 * sn) < y
<1>1. left * (2 * sn) = 2 * (left * sn) /\ left * sn \in Nat /\ 2 * pn \in Nat /\ q \in Nat
      /\ q * Y \in Nat /\ pn * Y \in Nat
  OBVIOUS
<1> DEFINE a == left * sn
<1>2. z = 2 * a - y /\ a \in Nat /\ a <= y
  BY <1>1
<1>3. (q + pn) * Y = q * Y + pn * Y
  BY <1>1
<1> DEFINE rest == x - (q + pn) * Y
           b == pn * Y
<1>4. rest = left - b /\ b \in Nat /\ rest \in Int
  BY <1>1, <1>3
<1>5. b * (2 * sn) = y
  <2>1. (2 * sn) * pn * Y = y
    OBVIOUS
  <2>2. b * (2 * sn) = (2 * sn) * pn * Y
    BY SMT
  <2> QED
    BY <2>1, <2>2
<1>6. rest * (2 * sn) = z
  <2>1. (left - b) * (2 * sn) = left * (2 * sn) - b * (2 * sn)
    BY <1>4, SMT
  <2> QED
    BY <1>4, <1>5, <2>1
<1> HIDE DEF rest, b, a
<1>7. ASSUME z >= 0
      PROVE  rest >= 0
  <2> SUFFICES ASSUME rest <= -1 PROVE FALSE
    BY <1>4
  <2>1. rest * (2 * sn) = (rest + 1) * (2 * sn) - 2 * sn
    BY <1>4
  <2>2. (rest + 1) * (2 * sn) <= 0
    BY <1>4
  <2> QED
    BY <1>4, <1>6, <1>7, <2>1, <2>2
<1>8. x = y => a = y /\ z = y
  BY <1>2 DEF a
<1>9. x # y => a < y /\ z < y
  BY <1>2 DEF a
<1>10. q + pn \in 0..(o - pn) /\ (x = y => q + pn = o - pn) /\ q \in 0..(o - pn)
  BY <1>1
<1>11. z < 0 => x # y /\ left * (2 * sn) < y
  <2>1. left * (2 * sn) = z + y
    BY <1>1
  <2> QED
    BY <1>8, <2>1
<1>12. z >= 0 => IF x = y THEN rest * (2 * sn) = y ELSE rest * (2 * sn) < y
  BY <1>6, <1>8, <1>9
<1> QED
  BY <1>2, <1>7, <1>10, <1>11, <1>12 DEF rest

(* The sign of a number less than half the ring. *)
LEMMA SignOf ==
  ASSUME NEW z \in Int, -HALF < z, z < HALF
  PROVE  Mod(z) >= HALF <=> z < 0
<1>1. RING = 2 * HALF /\ RING \in Nat \ {0} /\ HALF \in Nat
  BY RingSize
<1> HIDE DEF RING, HALF
<1>2. CASE z >= 0
  <2>1. z \in 0..(RING - 1)
    BY <1>1, <1>2
  <2>2. z % RING = z
    BY <1>1, <2>1, SmallRemainder, Zenon
  <2>3. Mod(z) = z
    BY <2>2, Zenon DEF Mod
  <2> QED
    BY <1>1, <1>2, <2>3
<1>3. CASE z < 0
  <2>1. z + RING \in 0..(RING - 1) /\ z = (-1) * RING + (z + RING)
    BY <1>1, <1>3
  <2>2. z % RING = z + RING
    <3>1. -1 \in Int
      OBVIOUS
    <3> QED
      BY <1>1, <2>1, <3>1, DivisionUnique
  <2>3. z + RING >= HALF
    BY <1>1
  <2>4. Mod(z) = z + RING
    BY <2>2, Zenon DEF Mod
  <2> QED
    BY <1>3, <2>3, <2>4
<1> QED
  BY <1>2, <1>3

LEMMA SmallMod ==
  ASSUME NEW z \in Int, 0 <= z, z < RING
  PROVE  Mod(z) = z
<1>1. RING \in Nat \ {0}
  BY RingSize
<1> HIDE DEF RING
<1>2. z \in 0..(RING - 1)
  BY <1>1
<1> QED
  BY <1>1, <1>2, SmallRemainder, Zenon DEF Mod

LEMMA CongruentMods ==
  ASSUME NEW a \in Int, NEW b \in Int, Congruent(a, b, RING)
  PROVE  Mod(a) = Mod(b)
BY RingSize, CongruentEqual, Zenon DEF Mod

(* A proxy's share of what is added up: the shares add up to the sum.       *)
LEMMA AddShares ==
  ASSUME NEW a1 \in Int, NEW a2 \in Int, NEW t1 \in Int, NEW t2 \in Int,
         NEW a \in Int, NEW t \in Int,
         SharesOf(a1, a2, a), Congruent(t1 + t2, t, RING)
  PROVE  SharesOf(Mod(a1 + t1), Mod(a2 + t2), a + t)
<1> DEFINE s1 == Mod(a1 + t1)
           s2 == Mod(a2 + t2)
<1>1. RING \in Int /\ a1 + t1 \in Int /\ a2 + t2 \in Int /\ a1 + a2 \in Int /\ t1 + t2 \in Int
      /\ a + t \in Int
  BY RingSize
<1>2. s1 \in Int /\ s2 \in Int /\ Congruent(s1, a1 + t1, RING) /\ Congruent(s2, a2 + t2, RING)
  BY <1>1, ModIsCongruent
<1> HIDE DEF s1, s2
<1>3. Congruent(s1 + s2, (a1 + t1) + (a2 + t2), RING)
  BY <1>1, <1>2, CongruentSum
<1>4. Congruent((a1 + a2) + (t1 + t2), a + t, RING)
  BY <1>1, CongruentSum DEF SharesOf
<1>5. (a1 + t1) + (a2 + t2) = (a1 + a2) + (t1 + t2)
  OBVIOUS
<1>6. s1 + s2 \in Int /\ (a1 + a2) + (t1 + t2) \in Int
  BY <1>1, <1>2
<1>7. Congruent(s1 + s2, a + t, RING)
  BY <1>1, <1>3, <1>4, <1>5, <1>6, CongruentTrans
<1> QED
  BY <1>7 DEF s1, s2, SharesOf

(* The denominator is whole, so its shares, shifted on their own, still add *)
(* up to it shifted.                                                        *)
LEMMA Denominator ==
  ASSUME ProductsInv, op = "NORM", round < FRAC
  PROVE  /\ round \in Nat /\ round + 1 \in Nat /\ FRAC - (round + 1) \in Nat
         /\ Pow2[round] \in Nat \ {0} /\ Pow2[FRAC - (round + 1)] \in Nat \ {0}
         /\ One \in Nat \ {0}
         /\ Pow2[round + 1] = 2 * Pow2[round]
         /\ Pow2[FRAC - round] = 2 * Pow2[FRAC - (round + 1)]
         /\ One = (2 * Pow2[round]) * Pow2[FRAC - (round + 1)]
         /\ value.x \in Nat /\ value.y \in Nat /\ value.x <= value.y
         /\ value.y \div One \in Nat /\ value.y = One * (value.y \div One)
<1> USE DEF ProductsInv
<1>1. /\ value.x \in 0..value.y /\ value.y \in Nat /\ One * value.y < HALF
      /\ value.y % One = 0 /\ round \in 0..FRAC /\ FRAC \in Nat /\ One \in Nat \ {0}
  BY RingSize, FRACAssumption DEF NormInv, Numbers
<1>2. /\ round \in Nat /\ round + 1 \in Nat /\ FRAC - (round + 1) \in Nat
      /\ FRAC - round = (FRAC - (round + 1)) + 1 /\ round + 1 \in 0..FRAC
  BY <1>1
<1>3. /\ Pow2[round + 1] = 2 * Pow2[round]
      /\ Pow2[(FRAC - (round + 1)) + 1] = 2 * Pow2[FRAC - (round + 1)]
      /\ Pow2[round] \in Nat \ {0} /\ Pow2[FRAC - (round + 1)] \in Nat \ {0}
  BY <1>2, PowersOfTwo
<1>4. One = Pow2[round + 1] * Pow2[FRAC - (round + 1)]
  BY <1>1, <1>2, PowerDivides DEF One
<1> DEFINE y == value.y
           o == One
           q == y \div o
<1>5. y \in Nat /\ o \in Nat \ {0} /\ y = q * o + (y % o) /\ q \in Int /\ y % o = 0
  <2>1. y \in Int /\ o \in Nat \ {0}
    BY <1>1
  <2>2. y % o = 0
    BY <1>1, Zenon
  <2> HIDE DEF y, o
  <2>3. y = q * o + (y % o) /\ q \in Int
    BY <2>1, Division
  <2> QED
    BY <1>1, <2>1, <2>2, <2>3 DEF y
<1>6. q \in Nat /\ y = o * q
  <2> DEFINE m == y % o
  <2> HIDE DEF y, o, q, m
  <2>1. y \in Nat /\ o \in Nat \ {0} /\ y = q * o + m /\ q \in Int /\ m = 0
    BY <1>5 DEF m
  <2>2. y = q * o
    BY <2>1
  <2>3. q >= 0
    <3> SUFFICES ASSUME q <= -1 PROVE FALSE
      BY <2>1
    <3>1. q * o = (q + 1) * o - o /\ (q + 1) * o <= 0
      BY <2>1
    <3> QED
      BY <2>1, <2>2, <3>1
  <2> QED
    BY <2>1, <2>2, <2>3
<1> QED
  BY <1>1, <1>2, <1>3, <1>4, <1>6

LEMMA RoundStep == ProductsInv /\ Round => ProductsInv'
<1> SUFFICES ASSUME ProductsInv, Round PROVE ProductsInv'
  OBVIOUS
<1> USE DEF ProductsInv
<1> DEFINE i == round + 1
           z == [p \in Proxies |-> Remainder(p, i)]
           take == [p \in Proxies |-> Truncate(p, share[p].y, i)]
           keep == IF Total(z) >= HALF THEN 0 ELSE One
           pn == Pow2[FRAC - i]
           gain == keep * pn
           cost == Mod(keep * Total(take))
<1>1. op = "NORM" /\ pc = "start" /\ round < FRAC /\ round' = i
      /\ UNCHANGED <<op, value, share, r, mt, sent, prod, pc>>
  BY DEF Round
<1>2. PICK s \in Masks, t \in Masks :
         /\ res' = [p \in Proxies |-> Mod(res[p] + Truncate(p, Split(gain, s)[p], FRAC))]
         /\ u' = [p \in Proxies |-> Mod(u[p] + Truncate(p, Split(cost, t)[p], FRAC))]
         /\ apart' = (apart \/ Cross([p \in Proxies |-> share[p].y], value.y)
                          \/ Cross(Split(gain, s), gain)
                          \/ Cross(Split(cost, t), cost))
  BY DEF Round
<1> DEFINE x == value.x
           y == value.y
           Y == value.y \div One
           sn == Pow2[round]
<1>3. /\ round \in Nat /\ i \in Nat /\ FRAC - i \in Nat /\ FRAC \in Nat
      /\ sn \in Nat \ {0} /\ pn \in Nat \ {0} /\ One \in Nat \ {0}
      /\ Pow2[i] = 2 * sn /\ Pow2[FRAC - round] = 2 * pn /\ One = (2 * sn) * pn
      /\ x \in Nat /\ y \in Nat /\ x <= y /\ Y \in Nat /\ y = One * Y
  BY <1>1, Denominator, FRACAssumption
<1>4. keep \in {0, One} /\ keep \in Int /\ gain \in Int
  <2>1. keep \in {0, One}
    OBVIOUS
  <2> HIDE DEF keep
  <2> QED
    BY <1>3, <2>1
<1>5. take[P1] \in Ring /\ take[P2] \in Ring /\ take[P1] \in Int /\ take[P2] \in Int
      /\ take[P1] = Truncate(P1, share[P1].y, i) /\ take[P2] = Truncate(P2, share[P2].y, i)
  <2>1. share[P1].y \in Ring /\ share[P2].y \in Ring
    BY ProxiesAre DEF TypeInv
  <2>2. Truncate(P1, share[P1].y, i) \in Ring /\ Truncate(P2, share[P2].y, i) \in Ring
    BY <1>3, <2>1, TruncatedSum
  <2>3. take[P1] = Truncate(P1, share[P1].y, i) /\ take[P2] = Truncate(P2, share[P2].y, i)
    BY ProxiesAre
  <2> QED
    BY <2>2, <2>3, RingType
<1>6. Total(take) \in Int /\ Total(take) \in Ring /\ cost \in Ring /\ cost \in Int
  <2>1. take[P1] + take[P2] \in Int
    BY <1>5
  <2>2. Total(take) \in Int /\ Total(take) \in Ring
    BY <2>1, ModIsCongruent DEF Total
  <2> HIDE DEF take, keep
  <2>3. keep * Total(take) \in Int
    BY <1>4, <2>2
  <2> QED
    BY <2>2, <2>3, ModIsCongruent
<1> DEFINE gs == Split(gain, s)
           cs == Split(cost, t)
<1>7. gs[P1] \in Ring /\ gs[P2] \in Ring /\ cs[P1] \in Ring /\ cs[P2] \in Ring
  <2> HIDE DEF gain, cost
  <2> QED
    BY <1>4, <1>6, SplitShares, RandomAssumption
<1> HIDE DEF gs, cs
<1> DEFINE g1 == Truncate(P1, gs[P1], FRAC)
           g2 == Truncate(P2, gs[P2], FRAC)
           c1 == Truncate(P1, cs[P1], FRAC)
           c2 == Truncate(P2, cs[P2], FRAC)
<1>8. g1 \in Int /\ g2 \in Int /\ c1 \in Int /\ c2 \in Int
  BY <1>3, <1>7, TruncatedSum, RingType
<1>9. /\ res'[P1] = Mod(res[P1] + g1) /\ res'[P2] = Mod(res[P2] + g2)
      /\ u'[P1] = Mod(u[P1] + c1) /\ u'[P2] = Mod(u[P2] + c2)
      /\ res' = [p \in Proxies |-> res'[p]] /\ u' = [p \in Proxies |-> u'[p]]
  BY <1>2, ProxiesAre DEF gs, cs
<1> HIDE DEF g1, g2, c1, c2
<1>10. res[P1] \in Int /\ res[P2] \in Int /\ u[P1] \in Int /\ u[P2] \in Int
  BY ShareTypes, ProxiesAre
<1>11. TypeInv'
  <2>1. res[P1] + g1 \in Int /\ res[P2] + g2 \in Int /\ u[P1] + c1 \in Int /\ u[P2] + c2 \in Int
    BY <1>8, <1>10
  <2>2. /\ Mod(res[P1] + g1) \in Ring /\ Mod(res[P2] + g2) \in Ring
        /\ Mod(u[P1] + c1) \in Ring /\ Mod(u[P2] + c2) \in Ring
    BY <2>1, ModIsCongruent
  <2>3. res' \in [Proxies -> Ring] /\ u' \in [Proxies -> Ring]
    BY <1>9, <2>2, ProxiesAre
  <2>4. apart' \in BOOLEAN
    BY <1>2 DEF TypeInv, Cross
  <2>5. round' \in Nat
    BY <1>1, <1>3
  <2> QED
    BY <1>1, <2>3, <2>4, <2>5 DEF TypeInv
<1>12. PcInv' /\ ShareInv' /\ MuxInv' /\ MulInv'
  BY <1>1 DEF PcInv, ShareInv, SharesOf, MuxInv, MulInv, Finished
<1>13. ASSUME ~apart'
       PROVE  \E q \in Nat : Quotient(q)'
  <2>1. ~apart /\ ~Cross([p \in Proxies |-> share[p].y], y) /\ ~Cross(gs, gain) /\ ~Cross(cs, cost)
    BY <1>2, <1>13 DEF gs, cs
  <2>2. PICK q \in Nat : Quotient(q)
    BY <1>1, <2>1 DEF NormInv
  <2> DEFINE left == x - q * Y
             zn == left * (2 * sn) - y
  <2>3. /\ q \in 0..(One - 2 * pn)
        /\ SharesOf(res[P1], res[P2], q) /\ SharesOf(u[P1], u[P2], q * Y)
        /\ left >= 0
        /\ IF x = y THEN left * sn = y /\ q = One - 2 * pn ELSE left * sn < y
    BY <1>3, <2>2 DEF Quotient
  <2>4. q * Y \in Nat /\ left \in Nat /\ zn \in Int
    <3>1. left >= 0
      BY <2>3
    <3> HIDE DEF x, y, Y, sn
    <3>2. q * Y \in Nat
      BY <1>3
    <3>3. left \in Nat
      BY <1>3, <3>1, <3>2
    <3> HIDE DEF left
    <3> QED
      BY <1>3, <3>2, <3>3
  <2>5. /\ zn >= -y /\ zn <= y
        /\ zn >= 0 => /\ q + pn \in 0..(One - pn)
                      /\ x - (q + pn) * Y >= 0
                      /\ IF x = y THEN (x - (q + pn) * Y) * (2 * sn) = y /\ q + pn = One - pn
                         ELSE (x - (q + pn) * Y) * (2 * sn) < y
        /\ zn < 0 => /\ q \in 0..(One - pn) /\ x # y
                     /\ left * (2 * sn) < y
    <3> HIDE DEF x, y, Y, sn, pn
    <3> DEFINE o == One
    <3>1. /\ o \in Nat \ {0} /\ o = (2 * sn) * pn /\ y = o * Y /\ q \in 0..(o - 2 * pn)
          /\ IF x = y THEN left * sn = y /\ q = o - 2 * pn ELSE left * sn < y
      BY <1>3, <2>3
    <3>2. left = x - q * Y /\ zn = left * (2 * sn) - y
      OBVIOUS
    <3> HIDE DEF o, left, zn
    <3>3. /\ zn >= -y /\ zn <= y
          /\ zn >= 0 => /\ q + pn \in 0..(o - pn)
                        /\ x - (q + pn) * Y >= 0
                        /\ IF x = y THEN (x - (q + pn) * Y) * (2 * sn) = y /\ q + pn = o - pn
                           ELSE (x - (q + pn) * Y) * (2 * sn) < y
          /\ zn < 0 => /\ q \in 0..(o - pn) /\ x # y
                       /\ left * (2 * sn) < y
      BY <1>3, <2>4, <3>1, <3>2, NextBit
    <3> QED
      BY <3>3 DEF o
  <2>6. One * y < HALF /\ y < HALF /\ HALF \in Nat /\ RING = 2 * HALF
    <3>1. One * y < HALF /\ HALF \in Nat /\ RING = 2 * HALF
      BY <1>1, RingSize DEF NormInv, Numbers
    <3> DEFINE o == One
    <3> HIDE DEF y, o
    <3>2. o \in Nat \ {0} => o * y >= y
      <4> SUFFICES ASSUME o \in Nat \ {0} PROVE o * y >= y
        OBVIOUS
      <4>1. o * y = y + (o - 1) * y /\ (o - 1) * y \in Nat /\ o * y \in Nat
        BY <1>3
      <4> QED
        BY <1>3, <4>1
    <3>3. o * y \in Nat /\ o * y < HALF
      BY <1>3, <3>1 DEF o
    <3> QED
      BY <1>3, <3>1, <3>2, <3>3 DEF o
  <2>7. keep = IF zn < 0 THEN 0 ELSE One
    <3> DEFINE x1 == share[P1].x
               x2 == share[P2].x
               y1 == share[P1].y
               y2 == share[P2].y
               u1 == u[P1]
               u2 == u[P2]
               k == Pow2[i]
               e1 == (x1 - u1) * k - y1
               e2 == (x2 - u2) * k - y2
    <3>1. /\ x1 \in Int /\ x2 \in Int /\ y1 \in Int /\ y2 \in Int /\ u1 \in Int /\ u2 \in Int
          /\ k \in Int /\ RING \in Int /\ k = 2 * sn
      BY <1>3, ShareTypes, ProxiesAre, RingSize
    <3>2. /\ Congruent(x1 + x2, x, RING) /\ Congruent(y1 + y2, y, RING)
          /\ Congruent(u1 + u2, q * Y, RING)
      BY <2>3 DEF ShareInv, SharesOf
    <3>3. z[P1] = Mod(e1) /\ z[P2] = Mod(e2)
      BY ProxiesAre DEF Remainder
    <3>4. Total(z) = Mod(Mod(e1) + Mod(e2))
      BY <3>3 DEF Total
    <3> HIDE DEF x1, x2, y1, y2, u1, u2, k, x, y, Y, sn
    <3>5. e1 \in Int /\ e2 \in Int
      BY <3>1
    <3>6. Congruent((x1 + x2) - (u1 + u2), x - q * Y, RING)
      <4>1. x1 + x2 \in Int /\ u1 + u2 \in Int /\ q * Y \in Int /\ x \in Int
        BY <1>3, <2>4, <3>1
      <4> QED
        BY <3>1, <3>2, <4>1, CongruentSum
    <3> DEFINE d == (x1 + x2) - (u1 + u2)
    <3>7. d \in Int /\ Congruent(d, left, RING)
      BY <3>1, <3>6
    <3> HIDE DEF left
    <3>8. Congruent(d * k, left * k, RING)
      <4>1. Congruent(k, k, RING) /\ left \in Int
        BY <2>4, <3>1, CongruentRefl
      <4> HIDE DEF d
      <4> QED
        BY <3>1, <3>7, <4>1, CongruentProduct
    <3>9. Congruent(d * k - (y1 + y2), left * k - y, RING)
      <4>1. d * k \in Int /\ left * k \in Int /\ y1 + y2 \in Int /\ y \in Int
        <5> HIDE DEF d
        <5> QED
          BY <1>3, <2>4, <3>1, <3>7
      <4> DEFINE dk == d * k
                 lk == left * k
                 ys == y1 + y2
      <4>2. dk \in Int /\ lk \in Int /\ ys \in Int /\ y \in Int /\ Congruent(dk, lk, RING)
            /\ Congruent(ys, y, RING)
        BY <3>2, <3>8, <4>1
      <4> HIDE DEF dk, lk, ys
      <4>3. Congruent(dk - ys, lk - y, RING)
        BY <3>1, <4>2, CongruentSum
      <4> QED
        BY <4>3 DEF dk, lk, ys
    <3>10. e1 + e2 = d * k - (y1 + y2)
      BY <3>1, SMT
    <3>11. left * k - y = zn
      BY <3>1
    <3> DEFINE m1 == Mod(e1)
               m2 == Mod(e2)
    <3> HIDE DEF e1, e2, d, zn
    <3>12. m1 \in Int /\ m2 \in Int /\ Congruent(m1, e1, RING) /\ Congruent(m2, e2, RING)
      BY <3>5, ModIsCongruent
    <3> HIDE DEF m1, m2
    <3>13. Congruent(m1 + m2, e1 + e2, RING)
      BY <3>1, <3>5, <3>12, CongruentSum
    <3>14. Congruent(m1 + m2, zn, RING)
      <4>1. m1 + m2 \in Int /\ e1 + e2 \in Int /\ Congruent(e1 + e2, zn, RING)
        BY <3>5, <3>9, <3>10, <3>11, <3>12
      <4> QED
        BY <2>4, <3>1, <3>13, <4>1, CongruentTrans
    <3>15. Mod(m1 + m2) = Mod(zn)
      <4>1. m1 + m2 \in Int
        BY <3>12
      <4> QED
        BY <2>4, <3>14, <4>1, CongruentMods
    <3>16. Mod(zn) >= HALF <=> zn < 0
      <4>1. -HALF < zn /\ zn < HALF
        BY <1>3, <2>4, <2>5, <2>6
      <4> QED
        BY <2>4, <4>1, SignOf
    <3>17. Total(z) >= HALF <=> zn < 0
      BY <3>4, <3>15, <3>16 DEF m1, m2
    <3> QED
      BY <3>17
  <2>8. Total(take) = pn * Y
    <3> DEFINE f == [p \in Proxies |-> share[p].y]
               k == pn * Y
    <3>1. f[P1] = share[P1].y /\ f[P2] = share[P2].y /\ f[P1] \in Ring /\ f[P2] \in Ring
      BY ProxiesAre DEF TypeInv
    <3>2. k \in Nat /\ y = k * Pow2[i]
      <4> HIDE DEF x, y, Y, sn, pn
      <4>1. (2 * sn) * pn * Y = (pn * Y) * (2 * sn)
        BY <1>3, SMT
      <4> QED
        BY <1>3, <4>1
    <3>3. ~Cross(f, y)
      BY <2>1
    <3> HIDE DEF f, k, y, i
    <3>4. Congruent(Truncate(P1, f[P1], i) + Truncate(P2, f[P2], i), k, RING)
      BY <1>3, <3>1, <3>2, <3>3, WholeTruncation
    <3>5. Congruent(take[P1] + take[P2], k, RING)
      BY <1>5, <3>1, <3>4, Zenon
    <3>6. Mod(take[P1] + take[P2]) = Mod(k)
      <4>1. take[P1] + take[P2] \in Int
        BY <1>5
      <4> QED
        BY <3>2, <3>5, <4>1, CongruentMods
    <3>7. k < RING
      <4> HIDE DEF y
      <4> DEFINE j == Pow2[i]
      <4>1. j \in Nat \ {0} /\ y = k * j
        BY <1>3, <3>2, PowersOfTwo
      <4> HIDE DEF j
      <4>2. k * j = k + k * (j - 1) /\ k * (j - 1) \in Nat
        BY <3>2, <4>1
      <4> QED
        BY <1>3, <2>6, <3>2, <4>1, <4>2
    <3>8. Mod(k) = k
      BY <3>2, <3>7, SmallMod
    <3> QED
      BY <3>6, <3>8 DEF Total, k
  <2>9. CASE zn >= 0
    <3>1. keep = One /\ gain = pn * One
      <4>1. keep = One
        BY <2>4, <2>7, <2>9
      <4> HIDE DEF keep, pn
      <4> QED
        BY <1>3, <4>1
    <3>2. cost = (pn * Y) * One
      <4>1. cost = Mod(One * (pn * Y))
        BY <2>8, <3>1
      <4> DEFINE c == One * (pn * Y)
                 o == One
      <4>2. c = pn * y /\ c \in Int /\ c >= 0 /\ pn * Y * o = c /\ c < RING
        <5> HIDE DEF y, Y, pn, sn, o
        <5>1. o \in Nat \ {0} /\ y = o * Y /\ o = (2 * sn) * pn
          BY <1>3 DEF o
        <5>2. o * (pn * Y) = pn * (o * Y) /\ pn * Y * o = o * (pn * Y)
          BY <1>3, <5>1, SMT
        <5>3. o * (pn * Y) = pn * y
          BY <5>1, <5>2
        <5>4. pn * y \in Nat /\ o * y \in Nat
          BY <1>3, <5>1
        <5>5. pn * y <= o * y
          <6>1. pn <= o
            <7>1. (2 * sn) * pn = pn + (2 * sn - 1) * pn /\ (2 * sn - 1) * pn \in Nat
              BY <1>3
            <7> QED
              BY <1>3, <5>1, <7>1
          <6>2. o * y = pn * y + (o - pn) * y /\ (o - pn) * y >= 0
            BY <1>3, <5>1, <6>1
          <6>3. (o - pn) * y \in Int
            BY <1>3, <5>1
          <6> QED
            BY <5>4, <6>2, <6>3
        <5>6. o * y < HALF
          BY <2>6 DEF o
        <5>7. pn * y < RING
          BY <2>6, <5>4, <5>5, <5>6
        <5> QED
          BY <5>2, <5>3, <5>4, <5>7 DEF o
      <4> HIDE DEF c
      <4>3. Mod(c) = c
        BY <4>2, SmallMod
      <4> QED
        BY <4>1, <4>2, <4>3 DEF c, o
    <3>3. Congruent(g1 + g2, pn, RING) /\ Congruent(c1 + c2, pn * Y, RING)
      <4> HIDE DEF gain, cost
      <4>1. Congruent(g1 + g2, pn, RING)
        BY <1>3, <1>7, <2>1, <3>1, WholeTruncation DEF g1, g2, One
      <4>2. Congruent(c1 + c2, pn * Y, RING)
        <5> DEFINE k == pn * Y
        <5>1. k \in Int /\ cost = k * Pow2[FRAC]
          BY <1>3, <3>2 DEF One
        <5> HIDE DEF k
        <5>2. Congruent(c1 + c2, k, RING)
          BY <1>3, <1>7, <2>1, <5>1, WholeTruncation DEF c1, c2
        <5> QED
          BY <5>2 DEF k
      <4> QED
        BY <4>1, <4>2
    <3>4. SharesOf(res'[P1], res'[P2], q + pn)
      <4>1. SharesOf(res[P1], res[P2], q) /\ q \in Int /\ pn \in Int
        BY <1>3, <2>3
      <4> HIDE DEF pn
      <4>2. SharesOf(Mod(res[P1] + g1), Mod(res[P2] + g2), q + pn)
        BY <1>8, <1>10, <3>3, <4>1, AddShares
      <4> QED
        BY <1>9, <4>2
    <3>5. SharesOf(u'[P1], u'[P2], (q + pn) * Y)
      <4> DEFINE qy == q * Y
                 py == pn * Y
      <4>1. qy \in Int /\ py \in Int /\ (q + pn) * Y = qy + py
        <5> HIDE DEF Y, pn
        <5> QED
          BY <1>3
      <4>2. SharesOf(u[P1], u[P2], qy) /\ Congruent(c1 + c2, py, RING)
        BY <2>3, <3>3
      <4> HIDE DEF qy, py
      <4>3. SharesOf(Mod(u[P1] + c1), Mod(u[P2] + c2), qy + py)
        BY <1>8, <1>10, <4>1, <4>2, AddShares
      <4> QED
        BY <1>9, <4>1, <4>3
    <3>6. PICK q1 \in Nat : q1 = q + pn
      BY <1>3
    <3>7. /\ q1 \in 0..(One - pn) /\ x - q1 * Y >= 0
          /\ IF x = y THEN (x - q1 * Y) * (2 * sn) = y /\ q1 = One - pn
             ELSE (x - q1 * Y) * (2 * sn) < y
          /\ SharesOf(res'[P1], res'[P2], q1) /\ SharesOf(u'[P1], u'[P2], q1 * Y)
      BY <2>5, <2>9, <3>4, <3>5, <3>6
    <3>8. Quotient(q1)'
      BY <1>1, <1>3, <3>7 DEF Quotient, SharesOf
    <3> QED
      BY <3>8
  <2>10. CASE zn < 0
    <3>1. keep = 0 /\ gain = 0
      <4>1. keep = 0
        BY <2>7, <2>10
      <4> HIDE DEF keep, pn
      <4> QED
        BY <1>3, <4>1
    <3>2. cost = 0
      <4>1. keep * Total(take) = 0
        <5> HIDE DEF keep, take
        <5> QED
          BY <1>6, <3>1
      <4> QED
        BY <4>1, RingSize, SmallMod
    <3>3. Congruent(g1 + g2, 0, RING) /\ Congruent(c1 + c2, 0, RING)
      <4> HIDE DEF gain, cost
      <4>1. 0 = 0 * Pow2[FRAC] /\ 0 \in Int
        BY <1>3 DEF One
      <4>2. Congruent(g1 + g2, 0, RING)
        BY <1>3, <1>7, <2>1, <3>1, <4>1, WholeTruncation DEF g1, g2
      <4>3. Congruent(c1 + c2, 0, RING)
        BY <1>3, <1>7, <2>1, <3>2, <4>1, WholeTruncation DEF c1, c2
      <4> QED
        BY <4>2, <4>3
    <3>4. SharesOf(res'[P1], res'[P2], q)
      <4> DEFINE none == 0
      <4>1. /\ SharesOf(res[P1], res[P2], q) /\ q \in Int /\ none \in Int /\ q + none = q
            /\ Congruent(g1 + g2, none, RING)
        BY <2>3, <3>3
      <4> HIDE DEF none
      <4>2. SharesOf(Mod(res[P1] + g1), Mod(res[P2] + g2), q + none)
        BY <1>8, <1>10, <4>1, AddShares
      <4> QED
        BY <1>9, <4>1, <4>2
    <3>5. SharesOf(u'[P1], u'[P2], q * Y)
      <4> DEFINE qy == q * Y
                 none == 0
      <4>1. /\ qy \in Int /\ SharesOf(u[P1], u[P2], qy)
            /\ none \in Int /\ Congruent(c1 + c2, none, RING)
        BY <2>3, <2>4, <3>3
      <4> HIDE DEF qy
      <4>2. qy + none = qy
        BY <4>1
      <4> HIDE DEF none
      <4>3. SharesOf(Mod(u[P1] + c1), Mod(u[P2] + c2), qy + none)
        BY <1>8, <1>10, <4>1, AddShares
      <4> QED
        BY <1>9, <4>2, <4>3 DEF qy
    <3>6. Quotient(q)'
      BY <1>1, <1>3, <2>3, <2>5, <2>10, <3>4, <3>5 DEF Quotient, SharesOf
    <3> QED
      BY <3>6
  <2> QED
    BY <2>4, <2>9, <2>10
<1>14. NormInv'
  <2>1. Numbers' /\ round' \in 0..FRAC
    BY <1>1, <1>3 DEF NormInv, Numbers
  <2> QED
    BY <1>1, <1>13, <2>1 DEF NormInv
<1> QED
  BY <1>11, <1>12, <1>14

LEMMA ReturnStep == ProductsInv /\ Return => ProductsInv'
<1> SUFFICES ASSUME ProductsInv, Return PROVE ProductsInv'
  OBVIOUS
<1> USE DEF ProductsInv
<1>1. op = "NORM" /\ pc = "start" /\ round = FRAC /\ pc' = "done"
      /\ UNCHANGED <<norm, op, value, share, r, mt, sent, prod, res>>
  BY DEF Return
<1>2. TypeInv'
  BY <1>1 DEF TypeInv, norm
<1>3. PcInv' /\ ShareInv' /\ MuxInv' /\ MulInv'
  BY <1>1 DEF PcInv, ShareInv, SharesOf, MuxInv, MulInv, Finished
<1>4. NormInv'
  BY <1>1 DEF NormInv, Numbers, Quotient, SharesOf, norm
<1> QED
  BY <1>2, <1>3, <1>4

LEMMA StutterStep == ProductsInv /\ UNCHANGED vars => ProductsInv'
<1> SUFFICES ASSUME ProductsInv, UNCHANGED vars PROVE ProductsInv'
  OBVIOUS
<1> USE DEF ProductsInv, vars, norm
<1>1. TypeInv'
  BY DEF TypeInv
<1>2. PcInv' /\ ShareInv'
  BY DEF PcInv, ShareInv, SharesOf
<1>3. MuxInv'
  BY DEF MuxInv, Own, Masked, Diff, Finished, SharesOf, Exact
<1>4. MulInv'
  BY DEF MulInv, SharesOf, Finished, Exact
<1>5. NormInv'
  BY DEF NormInv, Numbers, Quotient, SharesOf
<1> QED
  BY <1>1, <1>2, <1>3, <1>4, <1>5

LEMMA Invariance == Spec => []ProductsInv
<1>1. ProductsInv /\ [Next]_vars => ProductsInv'
  BY MaskStep, ServeStep, SelectStep, DealStep, OpenStep, MultiplyStep, RoundStep,
     ReturnStep, StutterStep DEF Next, Done
<1> QED
  BY <1>1, InitInv, PTL DEF Spec

-----------------------------------------------------------------------------
(* What the operations return. *)

(* The two opposite numbers are the product apart, and some rings.          *)
LEMMA WholeRings ==
  ASSUME NEW a \in Ring, NEW b \in Ring, NEW e \in Int, SharesOf(a, b, e),
         NEW w, w = (a - Mod(-b) - e) \div RING
  PROVE  /\ w \in Int /\ a - Mod(-b) = e + w * RING
         /\ e \in (1 - RING)..(RING - 1) => w \in -1..1
         /\ e = 0 => w = 0
<1> DEFINE nb == Mod(-b)
           n == RING
<1>1. n \in Nat \ {0} /\ a \in Int /\ b \in Int /\ -b \in Int
  BY RingSize, RingType
<1>2. nb \in Int /\ nb \in Ring /\ Congruent(nb, -b, n)
  BY <1>1, ModIsCongruent
<1>3. a \in 0..(n - 1) /\ nb \in 0..(n - 1)
  BY <1>2 DEF Ring
<1>4. Congruent(a + b, e, n)
  BY DEF SharesOf
<1> HIDE DEF nb, n
<1>5. PICK j \in Int : a + b = e + j * n
  BY <1>4 DEF Congruent
<1>6. PICK k \in Int : nb = -b + k * n
  BY <1>2 DEF Congruent
<1>7. a - nb - e = (j - k) * n /\ j - k \in Int /\ a - nb - e \in Int
  <2>1. (j - k) * n = j * n - k * n /\ j * n \in Int /\ k * n \in Int
    BY <1>1
  <2> QED
    BY <1>1, <1>2, <1>5, <1>6, <2>1
<1> DEFINE v == j - k
           d == a - nb - e
<1>8. v \in Int /\ d \in Int /\ d = v * n + 0 /\ 0 \in 0..(n - 1)
  <2>1. v * n + 0 = v * n
    <3> HIDE DEF v
    <3>1. v \in Int
      BY <1>7 DEF v
    <3> QED
      BY <1>1, <3>1
  <2> QED
    BY <1>1, <1>7, <2>1
<1>9. w = d \div n
  BY DEF nb, n
<1> HIDE DEF v, d
<1>10. w = v
  BY <1>1, <1>8, <1>9, DivisionUnique
<1>11. a - nb - e = w * n
  BY <1>8, <1>10, <1>1 DEF d
<1>12. a - nb = e + w * n
  <2>1. w * n \in Int
    BY <1>1, <1>8, <1>10
  <2> QED
    BY <1>1, <1>2, <1>11, <2>1
<1>13. ASSUME w >= 2 PROVE w * n >= 2 * n
  <2>1. w * n = 2 * n + (w - 2) * n /\ (w - 2) * n >= 0 /\ (w - 2) * n \in Int
    BY <1>1, <1>8, <1>10, <1>13
  <2> QED
    BY <1>1, <2>1
<1>14. ASSUME w <= -2 PROVE w * n <= -(2 * n)
  <2>1. w * n = -(2 * n) + (w + 2) * n /\ (w + 2) * n <= 0 /\ (w + 2) * n \in Int
    BY <1>1, <1>8, <1>10, <1>14
  <2> QED
    BY <1>1, <2>1
<1>15. w = 1 => w * n = n
  BY <1>1
<1>16. w = -1 => w * n = -n
  BY <1>1
<1>17. e \in (1 - n)..(n - 1) => w \in -1..1
  <2>1. e \in (1 - n)..(n - 1) => w * n < 2 * n /\ w * n > -(2 * n)
    BY <1>1, <1>3, <1>11
  <2> QED
    BY <1>1, <1>8, <1>10, <1>13, <1>14, <2>1
<1>18. e = 0 => w = 0
  <2>1. e = 0 => e \in (1 - n)..(n - 1) /\ w * n < n /\ w * n > -n
    BY <1>1, <1>3, <1>11
  <2> QED
    BY <1>1, <1>8, <1>10, <1>15, <1>16, <1>17, <2>1
<1> QED
  BY <1>8, <1>10, <1>12, <1>17, <1>18 DEF nb, n

(* MUX returns the operand its bit selects, whatever the shares, the masks  *)
(* and the helper's sharing are, up to RING / 2^FRAC for each wrap of the   *)
(* product's shares.                                                        *)
THEOREM MuxCorrect == Spec => []MuxSelects
<1>1. ProductsInv => MuxSelects
  <2> SUFFICES ASSUME ProductsInv, Finished("MUX")
               PROVE  /\ value.b = 0 => Total(res) = Mod(value.x)
                      /\ value.b = One => Total(res) = Mod(value.y - Wraps * (RING \div One))
                      /\ One * (value.x - value.y) \in (1 - RING)..(RING - 1) => Wraps \in -1..1
    BY DEF MuxSelects
  <2> USE DEF ProductsInv
  <2> DEFINE a == prod[P1]
             b == prod[P2]
             x1 == share[P1].x
             x2 == share[P2].x
             x == value.x
             y == value.y
             d1 == Divided(P1, a)
             d2 == Divided(P2, b)
             K == RING \div One
             w == Wraps
             e == Exact
  <2>1. /\ op = "MUX" /\ pc = "done" /\ a \in Ring /\ b \in Ring
        /\ x1 \in Int /\ x2 \in Int /\ x \in Int /\ y \in Int
        /\ value.b \in Int /\ RING \in Int /\ K \in Int /\ One \in Nat \ {0}
    BY ShareTypes, ProxiesAre, RingSize DEF Finished, TypeInv
  <2>2. /\ SharesOf(a, b, e) /\ e = value.b * (x - y)
        /\ res[P1] = Mod(x1 - d1) /\ res[P2] = Mod(x2 - d2)
        /\ SharesOf(x1, x2, x) /\ value.b \in {0, One}
    BY <2>1, ProxiesAre DEF MuxInv, ShareInv, PcInv, Finished, Exact
  <2>3. w = (a - Mod(-b) - e) \div RING
    BY DEF Wraps
  <2>4. e \in Int
    <3> HIDE DEF x, y, e
    <3> QED
      BY <2>1, <2>2
  <2>5. /\ w \in Int /\ a - Mod(-b) = e + w * RING
        /\ e \in (1 - RING)..(RING - 1) => w \in -1..1
        /\ e = 0 => w = 0
    <3> HIDE DEF a, b, e, w
    <3> QED
      BY <2>1, <2>2, <2>3, <2>4, WholeRings
  <2>6. ASSUME NEW k \in Int, d1 \in Int, d2 \in Int, Congruent(d1 + d2, k, RING)
        PROVE  Total(res) = Mod(x - k)
    <3> HIDE DEF d1, d2, x1, x2, x
    <3>1. -d1 \in Int /\ -d2 \in Int /\ -k \in Int /\ x1 + (-d1) = x1 - d1
          /\ x2 + (-d2) = x2 - d2 /\ x + (-k) = x - k /\ x - k \in Int
      BY <2>1, <2>6
    <3>2. Congruent((-d1) + (-d2), -k, RING)
      <4>1. Congruent(0, 0, RING) /\ 0 \in Int /\ d1 + d2 \in Int
        BY <2>1, <2>6, CongruentRefl
      <4>2. Congruent(0 - (d1 + d2), 0 - k, RING)
        BY <2>1, <2>6, <4>1, CongruentSum
      <4>3. 0 - (d1 + d2) = (-d1) + (-d2) /\ 0 - k = -k
        BY <2>6
      <4> QED
        BY <4>2, <4>3
    <3>3. SharesOf(Mod(x1 + (-d1)), Mod(x2 + (-d2)), x + (-k))
      BY <2>1, <2>2, <3>1, <3>2, AddShares
    <3>4. SharesOf(Mod(x1 - d1), Mod(x2 - d2), x - k)
      BY <3>1, <3>3
    <3>5. res[P1] \in Int /\ res[P2] \in Int /\ Congruent(res[P1] + res[P2], x - k, RING)
      BY <2>2, <3>4, ShareTypes, ProxiesAre DEF SharesOf
    <3>6. res[P1] + res[P2] \in Int
      BY <3>5
    <3> QED
      BY <3>1, <3>5, <3>6, CongruentMods DEF Total
  <2>7. ASSUME value.b = 0
        PROVE  Total(res) = Mod(x)
    <3> DEFINE nb == Mod(-b)
               no == 0
    <3>1. e = 0 /\ w = 0
      <4> HIDE DEF x, y, e, w
      <4> QED
        BY <2>1, <2>2, <2>5, <2>7
    <3>2. a - nb = One * no + no * RING /\ no \in Int
      <4>1. One * no + no * RING = 0 /\ 0 + 0 * RING = 0
        BY <2>1
      <4> HIDE DEF e, w
      <4> QED
        BY <2>5, <3>1, <4>1
    <3> HIDE DEF no, a, b
    <3>3. d1 \in Int /\ d2 \in Int /\ Congruent(d1 + d2, no + no * K, RING)
      BY <2>1, <3>2, MuxDivides
    <3> HIDE DEF d1, d2, K
    <3>4. no + no * K = 0 /\ 0 \in Int
      BY <2>1 DEF no
    <3>5. Total(res) = Mod(x - 0)
      BY <2>6, <3>3, <3>4
    <3> HIDE DEF x
    <3>6. x - 0 = x
      BY <2>1
    <3> QED
      BY <3>5, <3>6
  <2>8. ASSUME value.b = One
        PROVE  Total(res) = Mod(y - w * K)
    <3> DEFINE d == x - y
    <3>1. d \in Int /\ a - Mod(-b) = One * d + w * RING
      BY <2>1, <2>2, <2>5, <2>8
    <3> HIDE DEF a, b, w, d
    <3>2. d1 \in Int /\ d2 \in Int /\ Congruent(d1 + d2, d + w * K, RING)
      BY <2>1, <2>5, <3>1, MuxDivides
    <3> HIDE DEF d1, d2, K
    <3>3. d + w * K \in Int
      BY <2>1, <2>5, <3>1
    <3>4. Total(res) = Mod(x - (d + w * K))
      BY <2>6, <3>2, <3>3
    <3>5. x - (d + w * K) = y - w * K
      <4> HIDE DEF x, y
      <4>1. w * K \in Int
        BY <2>1, <2>5
      <4> QED
        BY <2>1, <4>1 DEF d
    <3> QED
      BY <3>4, <3>5
  <2>9. ASSUME One * (x - y) \in (1 - RING)..(RING - 1)
        PROVE  w \in -1..1
    <3> HIDE DEF e, w, x, y
    <3>1. CASE value.b = 0
      <4>1. e = 0
        BY <2>1, <2>2, <3>1
      <4> QED
        BY <2>5, <4>1
    <3>2. CASE value.b = One
      BY <2>2, <2>5, <2>9, <3>2
    <3> QED
      BY <2>2, <3>1, <3>2
  <2> QED
    BY <2>7, <2>8, <2>9
<1> QED
  BY <1>1, Invariance, PTL

(* MUL's shares add up to the product; each proxy's own truncation loses at *)
(* most one unit between them, and nothing of a whole product.              *)
THEOREM MulCorrect == Spec => []MulRounds
<1>1. ProductsInv => MulRounds
  <2> SUFFICES ASSUME ProductsInv, Finished("MUL") PROVE MulRounds
    BY DEF MulRounds
  <2> USE DEF ProductsInv
  <2> DEFINE a == prod[P1]
             b == prod[P2]
             s == Signed(a)
             t == Signed(Mod(-b))
             qs == s \div One
             qt == t \div One
             e == Exact
             qe == e \div One
             t1 == Truncate(P1, a, FRAC)
             t2 == Truncate(P2, b, FRAC)
  <2>1. a \in Ring /\ b \in Ring /\ a \in Int /\ b \in Int /\ One \in Nat \ {0} /\ FRAC \in Nat
    BY ShareTypes, ProxiesAre, RingSize, FRACAssumption DEF TypeInv
  <2>2. SharesOf(a, b, e) /\ res[P1] = t1 /\ res[P2] = t2
    BY ProxiesAre DEF MulInv
  <2>3. e \in Int
    <3>1. value.x \in Int /\ value.y \in Int /\ value.b \in Int
      BY ShareTypes, ProxiesAre
    <3> QED
      BY <3>1 DEF Exact
  <2>4. Total(prod) = Mod(e)
    <3>1. a + b \in Int /\ Congruent(a + b, e, RING)
      BY <2>1, <2>2 DEF SharesOf
    <3> QED
      BY <2>3, <3>1, CongruentMods DEF Total
  <2>5. s \in Int /\ t \in Int
    <3>1. -b \in Int
      BY <2>1
    <3>2. Mod(-b) \in Ring
      BY <3>1, ModIsCongruent
    <3> QED
      BY <2>1, <3>2, SignedInt
  <2>6. /\ t1 \in Ring /\ t2 \in Ring /\ qs \in Int /\ qt \in Int
        /\ Congruent(t1 + t2, qs - qt, RING)
    <3> HIDE DEF a, b
    <3> QED
      BY <2>1, TruncatedSum DEF One
  <2>7. Total(res) = Mod(qs - qt)
    <3>1. Total(res) = Mod(t1 + t2)
      BY <2>2 DEF Total
    <3> HIDE DEF t1, t2, qs, qt
    <3>2. t1 + t2 \in Int /\ qs - qt \in Int
      BY <2>6, RingType
    <3> QED
      BY <2>6, <3>1, <3>2, CongruentMods
  <2>8. ASSUME ~Cross(prod, Exact)
        PROVE  qs - qt \in {qe, qe + 1} /\ (e % One = 0 => qs - qt = qe)
    <3>1. s - t = e
      BY <2>8 DEF Cross
    <3> HIDE DEF s, t, e
    <3>2. /\ qs - qt \in {(s - t) \div One, ((s - t) \div One) + 1}
          /\ (s - t) % One = 0 => qs - qt = (s - t) \div One
      BY <2>1, <2>5, QuotientDifference
    <3> HIDE DEF qs, qt
    <3> QED
      BY <3>1, <3>2, Zenon
  <2>9. ~Cross(prod, Exact) =>
            IF Exact % One = 0 THEN Total(res) = Mod(Exact \div One)
            ELSE Total(res) \in {Mod(Exact \div One), Mod(Exact \div One + 1)}
    <3> HIDE DEF qs, qt
    <3> QED
      BY <2>7, <2>8, Zenon
  <2> QED
    BY <2>4, <2>9 DEF MulRounds
<1> QED
  BY <1>1, Invariance, PTL

(* NORM's rounds of shifted and truncated shares divide, bit by bit.        *)
THEOREM NormCorrect == Spec => []NormDivides
<1>1. ProductsInv => NormDivides
  <2> SUFFICES ASSUME ProductsInv, Finished("NORM"), ~apart
               PROVE  Total(res) = IF value.x = value.y THEN One - 1
                                 ELSE (value.x * One) \div value.y
    BY DEF NormDivides
  <2> USE DEF ProductsInv
  <2>1. op = "NORM" /\ round = FRAC /\ Numbers
    BY DEF NormInv, Finished
  <2>2. PICK q \in Nat : Quotient(q)
    BY <2>1 DEF NormInv
  <2> DEFINE x == value.x
             y == value.y
             Y == value.y \div One
             o == One
             left == x - q * Y
  <2>3. /\ o \in Nat \ {0} /\ x \in Nat /\ y \in Nat /\ x <= y /\ RING \in Nat
        /\ RING = 2 * HALF /\ HALF \in Nat /\ o <= HALF
        /\ Pow2[round] = o /\ Pow2[FRAC - round] = 1
    <3>1. FRAC \in Nat /\ FRAC - round = 0
      BY <2>1, FRACAssumption
    <3> QED
      BY <2>1, <3>1, RingSize, PowersOfTwo DEF Numbers, One
  <2>4. Y \in Nat /\ y = o * Y
    <3>1. y \in Int /\ y % o = 0
      <4>1. y % o = 0
        BY <2>1, Zenon DEF Numbers
      <4>2. y \in Int
        BY <2>3
      <4> QED
        BY <4>1, <4>2, Zenon
    <3> HIDE DEF y, o
    <3> DEFINE k == y \div o
               m == y % o
    <3>2. y = k * o + m /\ k \in Int
      BY <2>3, <3>1, Division
    <3> HIDE DEF k, m
    <3>3. m = 0
      BY <3>1, Zenon DEF m
    <3>4. y = k * o
      BY <2>3, <3>2, <3>3
    <3>5. k >= 0
      <4> SUFFICES ASSUME k <= -1 PROVE FALSE
        BY <3>2
      <4>1. k * o = (k + 1) * o - o /\ (k + 1) * o <= 0 /\ (k + 1) * o \in Int
        BY <2>3, <3>2
      <4> QED
        BY <2>3, <3>4, <4>1
    <3>6. k \in Nat /\ y = o * k
      BY <2>3, <3>2, <3>4, <3>5
    <3> QED
      BY <3>6 DEF k, y, o
  <2>5. /\ q \in 0..(o - 1) /\ Congruent(res[P1] + res[P2], q, RING)
        /\ left >= 0
        /\ IF x = y THEN q = o - 1 ELSE left * o < y
    BY <2>2, <2>3 DEF Quotient, SharesOf
  <2>6. Total(res) = q
    <3>1. res[P1] + res[P2] \in Int /\ q < RING /\ q \in Int
      <4>1. res[P1] \in Int /\ res[P2] \in Int
        BY ShareTypes, ProxiesAre
      <4> HIDE DEF o
      <4> QED
        BY <2>3, <2>5, <4>1
    <3>2. Mod(res[P1] + res[P2]) = Mod(q)
      BY <2>5, <3>1, CongruentMods
    <3>3. Mod(q) = q
      BY <3>1, SmallMod
    <3> QED
      BY <3>2, <3>3 DEF Total
  <2>7. CASE x # y
    <3> DEFINE rest == left * o
               top == x * o
    <3> HIDE DEF x, y, Y, o
    <3>1. q * Y \in Nat /\ left \in Nat /\ rest \in Nat
      BY <2>3, <2>4, <2>5
    <3>2. top = q * y + rest
      <4>1. (x - q * Y) * o = x * o - q * (o * Y)
        BY <2>3, <2>4, SMT
      <4>2. q * y = q * (o * Y)
        BY <2>4
      <4>3. x * o \in Int /\ q * y \in Int
        BY <2>3
      <4> QED
        BY <4>1, <4>2, <4>3
    <3>3. rest \in 0..(y - 1) /\ y \in Nat \ {0} /\ top \in Int
      BY <2>3, <2>5, <2>7, <3>1
    <3> HIDE DEF rest, top
    <3>4. top \div y = q
      BY <3>2, <3>3, DivisionUnique
    <3> QED
      BY <2>6, <2>7, <3>4 DEF top, x, y, o
  <2>8. CASE x = y
    BY <2>5, <2>6, <2>8
  <2> QED
    BY <2>7, <2>8
<1> QED
  BY <1>1, Invariance, PTL
=============================================================================
