----------------------------- MODULE MsbProofs -----------------------------
(***************************************************************************)
(* For every ring: the comparison of the mask with the opened value, bit by *)
(* bit and blinded, finds out whether the mask is above; so MOC converts    *)
(* the low bits of x, and both versions of MSB share its sign.  First what  *)
(* the bits of two numbers tell, then the additions of the protocol, then   *)
(* the invariant.                                                           *)
(***************************************************************************)
EXTENDS Msb, Lemmas, FiniteSetTheorems

(* Remainders of numbers a few times the modulus away. *)
LEMMA ModOnce ==
  ASSUME NEW n \in Int, n > 0, NEW a \in Int, 0 <= a, a < 2 * n
  PROVE  a % n = IF a < n THEN a ELSE a - n
<1>1. CASE a < n
  BY <1>1, SMT
<1>2. CASE a >= n
  BY <1>2, SMT
<1> QED
  BY <1>1, <1>2

LEMMA ModRange ==
  ASSUME NEW n \in Int, n > 0, NEW a \in Int
  PROVE  a % n \in 0..(n - 1)
  BY SMT

LEMMA ModNear ==
  ASSUME NEW n \in Int, n > 0, NEW a \in Int, -(3 * n) <= a, a < 3 * n
  PROVE  a % n \in {a - 2 * n, a - n, a, a + n, a + 2 * n, a + 3 * n}
<1>1. CASE a < -(2 * n)
  BY <1>1, SMT
<1>2. CASE -(2 * n) <= a /\ a < -n
  BY <1>2, SMT
<1>3. CASE -n <= a /\ a < 0
  BY <1>3, SMT
<1>4. CASE 0 <= a /\ a < n
  BY <1>4, SMT
<1>5. CASE n <= a /\ a < 2 * n
  BY <1>5, SMT
<1>6. CASE 2 * n <= a
  BY <1>6, SMT
<1> QED
  BY <1>1, <1>2, <1>3, <1>4, <1>5, <1>6

LEMMA DivBit ==
  ASSUME NEW n \in Int, n > 0, NEW a \in Int, 0 <= a, a < 2 * n
  PROVE  a \div n = IF a < n THEN 0 ELSE 1
<1>1. CASE a < n
  BY <1>1, SMT
<1>2. CASE a >= n
  BY <1>2, SMT
<1> QED
  BY <1>1, <1>2

-----------------------------------------------------------------------------
(* The additions of the protocol, as numbers. *)

(* Two numbers add up to sum in the ring of size 2n; low are its low bits.  *)
Summed(n, x1, x2, sum, low) ==
    /\ x1 \in 0..(2 * n - 1) /\ x2 \in 0..(2 * n - 1)
    /\ sum \in 0..(2 * n - 1) /\ x1 + x2 \in {sum, sum + 2 * n}
    /\ low \in 0..(n - 1) /\ sum \in {low, low + n}

(* Shares a1, a2 of a mask modulo n. *)
Masked(n, mask, a1, a2) ==
    /\ mask \in 0..(n - 1) /\ a1 \in 0..(n - 1) /\ a2 \in 0..(n - 1)
    /\ a1 + a2 \in {mask, mask + n}

(* zz, opened from z1 and z2, is low plus the mask, wrapped once at most. *)
Opening(n, low, mask, z1, z2, zz) ==
    /\ low \in 0..(n - 1) /\ mask \in 0..(n - 1)
    /\ z1 \in 0..(n - 1) /\ z2 \in 0..(n - 1) /\ zz \in 0..(n - 1)
    /\ zz = IF low + mask < n THEN low + mask ELSE low + mask - n
    /\ z1 + z2 = IF zz < z1 THEN zz + n ELSE zz
    /\ z1 + z2 = IF zz < z2 THEN zz + n ELSE zz

(* e1 and e2 differ when just one of the additions of the mask wrapped. *)
Carries(n, mask, a1, a2, zz, e1, e2) ==
    /\ e1 \in {0, n} /\ e2 \in {0, n}
    /\ (e1 # e2) = ((a1 + a2 # mask) # (mask > zz))

(* Shares d1, d2 of v in the ring. *)
Shares(n, d1, d2, v) ==
    /\ d1 \in 0..(2 * n - 1) /\ d2 \in 0..(2 * n - 1)
    /\ (d1 + d2) % (2 * n) = v

LEMMA OpenedSum ==
  ASSUME NEW n \in Nat \ {0}, NEW x1, NEW x2, NEW sum, NEW low,
         NEW mask, NEW a1, NEW a2,
         Summed(n, x1, x2, sum, low), Masked(n, mask, a1, a2)
  PROVE  Opening(n, low, mask, ((x1 % n) + a1) % n, ((x2 % n) + a2) % n,
                 ((((x1 % n) + a1) % n) + (((x2 % n) + a2) % n)) % n)
<1> USE DEF Summed, Masked
<1> DEFINE l1 == x1 % n
           l2 == x2 % n
           z1 == (l1 + a1) % n
           z2 == (l2 + a2) % n
           zz == (z1 + z2) % n
<1>1. l1 = IF x1 < n THEN x1 ELSE x1 - n
  BY ModOnce
<1>2. l2 = IF x2 < n THEN x2 ELSE x2 - n
  BY ModOnce
<1> HIDE DEF l1, l2
<1>3. l1 \in 0..(n - 1) /\ l2 \in 0..(n - 1)
  BY <1>1, <1>2
<1>4. z1 = IF l1 + a1 < n THEN l1 + a1 ELSE l1 + a1 - n
  BY <1>3, ModOnce
<1>5. z2 = IF l2 + a2 < n THEN l2 + a2 ELSE l2 + a2 - n
  BY <1>3, ModOnce
<1> HIDE DEF z1, z2
<1>6. z1 \in 0..(n - 1) /\ z2 \in 0..(n - 1)
  BY <1>3, <1>4, <1>5
<1>7. zz = IF z1 + z2 < n THEN z1 + z2 ELSE z1 + z2 - n
  BY <1>6, ModOnce
<1> HIDE DEF zz
<1>8. zz = IF low + mask < n THEN low + mask ELSE low + mask - n
  BY <1>1, <1>2, <1>3, <1>4, <1>5, <1>6, <1>7
<1>9. /\ zz \in 0..(n - 1)
      /\ z1 + z2 = IF zz < z1 THEN zz + n ELSE zz
      /\ z1 + z2 = IF zz < z2 THEN zz + n ELSE zz
  BY <1>6, <1>7
<1>10. Opening(n, low, mask, z1, z2, zz)
  BY <1>6, <1>8, <1>9 DEF Opening
<1> QED
  BY <1>10 DEF l1, l2, z1, z2, zz

(* Taking off the shares of the mask and of its wraps leaves the low bits:  *)
(* the two shares e1, e2 of a wrap may add up to two, which is no carry.    *)
LEMMA ConvertedSum ==
  ASSUME NEW n \in Nat \ {0}, NEW low, NEW mask, NEW a1, NEW a2,
         NEW z1, NEW z2, NEW zz, NEW e1, NEW e2,
         Masked(n, mask, a1, a2), Opening(n, low, mask, z1, z2, zz),
         Carries(n, mask, a1, a2, zz, e1, e2)
  PROVE  Shares(n, (z1 + (IF zz < z1 THEN n ELSE 0) - (a1 + e1)) % (2 * n),
                   (z2 - (a2 + e2)) % (2 * n), low)
<1> USE DEF Masked, Opening, Carries
<1> DEFINE m2 == 2 * n
           c1 == IF zz < z1 THEN n ELSE 0
           t1 == z1 + c1 - (a1 + e1)
           t2 == z2 - (a2 + e2)
           d1 == t1 % m2
           d2 == t2 % m2
           dd == (d1 + d2) % m2
<1>0. c1 \in {0, n} /\ z1 + z2 = zz + c1
  OBVIOUS
<1> HIDE DEF c1
<1>1. m2 \in Int /\ m2 > 0 /\ m2 = n + n /\ t1 \in Int /\ t2 \in Int
  BY <1>0
<1>2. -(3 * m2) <= t1 /\ t1 < 3 * m2 /\ -(3 * m2) <= t2 /\ t2 < 3 * m2
  BY <1>0
<1>3. t1 + t2 \in {low, low + m2, low - m2, low + 2 * m2, low - 2 * m2}
  BY <1>0
<1> HIDE DEF m2, t1, t2
<1>4. d1 \in 0..(m2 - 1) /\ d1 \in {t1 - 2 * m2, t1 - m2, t1, t1 + m2, t1 + 2 * m2, t1 + 3 * m2}
  BY <1>1, <1>2, ModRange, ModNear
<1>5. d2 \in 0..(m2 - 1) /\ d2 \in {t2 - 2 * m2, t2 - m2, t2, t2 + m2, t2 + 2 * m2, t2 + 3 * m2}
  BY <1>1, <1>2, ModRange, ModNear
<1> HIDE DEF d1, d2
<1>6. dd = IF d1 + d2 < m2 THEN d1 + d2 ELSE d1 + d2 - m2
  BY <1>1, <1>4, <1>5, ModOnce
<1> HIDE DEF dd
<1>7. dd = low
  BY <1>1, <1>3, <1>4, <1>5, <1>6
<1> QED
  BY <1>4, <1>5, <1>7 DEF Shares, dd, d1, d2, t1, t2, c1, m2

(* What is left of x when shares of its low bits come off is its sign bit.  *)
LEMMA OfferedSum ==
  ASSUME NEW n \in Nat \ {0}, NEW x1, NEW x2, NEW sum, NEW low, NEW d1, NEW d2,
         Summed(n, x1, x2, sum, low), Shares(n, d1, d2, low)
  PROVE  Shares(n, (x1 - d1) % (2 * n), (x2 - d2) % (2 * n),
                IF sum < n THEN 0 ELSE n)
<1> USE DEF Summed
<1> DEFINE m2 == 2 * n
           t1 == x1 - d1
           t2 == x2 - d2
           o1 == t1 % m2
           o2 == t2 % m2
           oo == (o1 + o2) % m2
<1>0. d1 \in 0..(m2 - 1) /\ d2 \in 0..(m2 - 1) /\ d1 + d2 \in {low, low + m2}
  <2>1. d1 \in 0..(m2 - 1) /\ d2 \in 0..(m2 - 1) /\ (d1 + d2) % m2 = low
    BY DEF Shares
  <2> QED
    BY <2>1, ModOnce
<1>1. m2 \in Int /\ m2 > 0 /\ m2 = n + n /\ t1 \in Int /\ t2 \in Int
  BY <1>0
<1>2. -(3 * m2) <= t1 /\ t1 < 3 * m2 /\ -(3 * m2) <= t2 /\ t2 < 3 * m2
  BY <1>0
<1>3. t1 + t2 - sum + low \in {0, m2, -m2}
  BY <1>0
<1> HIDE DEF m2, t1, t2
<1>4. o1 \in 0..(m2 - 1) /\ o1 \in {t1 - 2 * m2, t1 - m2, t1, t1 + m2, t1 + 2 * m2, t1 + 3 * m2}
  BY <1>1, <1>2, ModRange, ModNear
<1>5. o2 \in 0..(m2 - 1) /\ o2 \in {t2 - 2 * m2, t2 - m2, t2, t2 + m2, t2 + 2 * m2, t2 + 3 * m2}
  BY <1>1, <1>2, ModRange, ModNear
<1> HIDE DEF o1, o2
<1>6. oo = IF o1 + o2 < m2 THEN o1 + o2 ELSE o1 + o2 - m2
  BY <1>1, <1>4, <1>5, ModOnce
<1> HIDE DEF oo
<1>7. oo = IF sum < n THEN 0 ELSE n
  BY <1>1, <1>3, <1>4, <1>5, <1>6
<1> QED
  BY <1>4, <1>5, <1>7 DEF Shares, oo, o1, o2, t1, t2, m2

(* The vector version does the same from the other side: the candidate of   *)
(* the bit, less the carries, is minus the sign bit, which is the sign bit. *)
LEMMA CorrectedSum ==
  ASSUME NEW n \in Nat \ {0}, NEW x1, NEW x2, NEW sum, NEW low,
         NEW mask, NEW a1, NEW a2, NEW z1, NEW z2, NEW zz, NEW e,
         Summed(n, x1, x2, sum, low), Masked(n, mask, a1, a2),
         Opening(n, low, mask, z1, z2, zz), Carries(n, mask, a1, a2, zz, e, 0)
  PROVE  (((z1 - x1 - a1) % (2 * n))
            + ((z2 + (IF zz < z2 THEN n ELSE 0) - x2 - a2) % (2 * n)) - e) % (2 * n)
           = IF sum < n THEN 0 ELSE n
<1> USE DEF Summed, Masked, Opening, Carries
<1> DEFINE m2 == 2 * n
           c2 == IF zz < z2 THEN n ELSE 0
           t1 == z1 - x1 - a1
           t2 == z2 + c2 - x2 - a2
           v1 == t1 % m2
           v2 == t2 % m2
           t  == v1 + v2 - e
           vv == t % m2
<1>0. c2 \in {0, n} /\ z1 + z2 = zz + c2
  OBVIOUS
<1> HIDE DEF c2
<1>1. m2 \in Int /\ m2 > 0 /\ m2 = n + n /\ t1 \in Int /\ t2 \in Int
  BY <1>0
<1>2. -(3 * m2) <= t1 /\ t1 < 3 * m2 /\ -(3 * m2) <= t2 /\ t2 < 3 * m2
  BY <1>0
<1>3. t1 + t2 - e + sum - low \in {0, m2, -m2, -2 * m2}
  <2> DEFINE wraps == (a1 + a2 - mask) + (low + mask - zz) + e
             carries == c2 + c2
             rest == x1 + x2 - sum
  <2>1. wraps \in {0, m2} /\ rest \in {0, m2}
    OBVIOUS
  <2>2. carries \in {0, m2}
    BY <1>0
  <2>3. t1 + t2 - e + sum - low = carries - wraps - rest
    BY <1>0
  <2> HIDE DEF wraps, carries, rest
  <2> QED
    BY <1>1, <2>1, <2>2, <2>3
<1> HIDE DEF m2, t1, t2
<1>4. v1 \in 0..(m2 - 1) /\ v1 \in {t1 - 2 * m2, t1 - m2, t1, t1 + m2, t1 + 2 * m2, t1 + 3 * m2}
  BY <1>1, <1>2, ModRange, ModNear
<1>5. v2 \in 0..(m2 - 1) /\ v2 \in {t2 - 2 * m2, t2 - m2, t2, t2 + m2, t2 + 2 * m2, t2 + 3 * m2}
  BY <1>1, <1>2, ModRange, ModNear
<1> HIDE DEF v1, v2
<1>6. t \in Int /\ -(3 * m2) <= t /\ t < 3 * m2
  BY <1>1, <1>4, <1>5
<1>7. vv \in 0..(m2 - 1) /\ vv \in {t - 2 * m2, t - m2, t, t + m2, t + 2 * m2, t + 3 * m2}
  BY <1>1, <1>6, ModRange, ModNear
<1> HIDE DEF vv
<1>8. vv = IF sum < n THEN 0 ELSE n
  BY <1>1, <1>3, <1>4, <1>5, <1>7
<1> QED
  BY <1>8 DEF vv, t, v1, v2, t1, t2, c2, m2

(* A value shared with a random mask. *)
LEMMA SharedSum ==
  ASSUME NEW n \in Nat \ {0}, NEW mask \in 0..(2 * n - 1), NEW v \in 0..(2 * n - 1)
  PROVE  Shares(n, mask, (v - mask) % (2 * n), v)
<1> DEFINE m2 == 2 * n
           t == v - mask
           s == t % m2
<1>1. m2 \in Int /\ m2 > 0 /\ t \in Int
  OBVIOUS
<1>2. -(3 * m2) <= t /\ t < 3 * m2
  OBVIOUS
<1>3. mask \in 0..(m2 - 1) /\ v \in 0..(m2 - 1) /\ t + mask = v
  OBVIOUS
<1> HIDE DEF m2, t
<1>4. s \in 0..(m2 - 1) /\ s \in {t - 2 * m2, t - m2, t, t + m2, t + 2 * m2, t + 3 * m2}
  BY <1>1, <1>2, ModRange, ModNear
<1> HIDE DEF s
<1>5. (mask + s) % m2 = IF mask + s < m2 THEN mask + s ELSE mask + s - m2
  BY <1>1, <1>3, <1>4, ModOnce
<1>6. (mask + s) % m2 = v
  BY <1>1, <1>3, <1>4, <1>5
<1> QED
  BY <1>3, <1>4, <1>6 DEF Shares, s, t, m2

(* The shares of CMP: one minus a bit that two numbers share.               *)
LEMMA ComparedSum ==
  ASSUME NEW n \in Nat \ {0}, NEW one \in 1..(n - 1), NEW s \in {0, one},
         NEW m1 \in 0..(n - 1), NEW m2 \in 0..(n - 1), (m1 + m2) % n = s
  PROVE  (((0 - m1) % n) + ((one - m2) % n)) % n = one - s
<1> DEFINE t1 == 0 - m1
           t2 == one - m2
           c1 == t1 % n
           c2 == t2 % n
<1>1. n \in Int /\ n > 0 /\ t1 \in Int /\ t2 \in Int
  OBVIOUS
<1>2. -(3 * n) <= t1 /\ t1 < 3 * n /\ -(3 * n) <= t2 /\ t2 < 3 * n
  OBVIOUS
<1>3. m1 + m2 \in {s, s + n}
  BY ModOnce
<1>4. t1 + t2 \in {one - s, one - s - n}
  BY <1>3
<1> HIDE DEF t1, t2
<1>5. c1 \in 0..(n - 1) /\ c1 \in {t1 - 2 * n, t1 - n, t1, t1 + n, t1 + 2 * n, t1 + 3 * n}
  BY <1>1, <1>2, ModRange, ModNear
<1>6. c2 \in 0..(n - 1) /\ c2 \in {t2 - 2 * n, t2 - n, t2, t2 + n, t2 + 2 * n, t2 + 3 * n}
  BY <1>1, <1>2, ModRange, ModNear
<1> HIDE DEF c1, c2
<1>7. (c1 + c2) % n = IF c1 + c2 < n THEN c1 + c2 ELSE c1 + c2 - n
  BY <1>1, <1>5, <1>6, ModOnce
<1> QED
  BY <1>1, <1>4, <1>5, <1>6, <1>7 DEF c1, c2, t1, t2

-----------------------------------------------------------------------------
(* Two numbers compared from their highest bit down. *)

(* The bits of a number from t up, as a number.                             *)
From(v, t) == v \div Pow2[t]

LEMMA FromBits ==
  ASSUME NEW v \in Nat, NEW t \in Nat
  PROVE  /\ From(v, t) \in Nat /\ Bit(v, t) \in {0, 1}
         /\ Bit(v, t) = From(v, t) % 2
         /\ From(v, t + 1) = From(v, t) \div 2
         /\ From(v, t) = 2 * From(v, t + 1) + Bit(v, t)
<1> DEFINE n == Pow2[t]
           q == v \div n
           h == q \div 2
           b == q % 2
<1>1. n \in Nat \ {0} /\ Pow2[t + 1] = 2 * n
  BY PowersOfTwo
<1> HIDE DEF n
<1>2. q \in Nat /\ v % n \in 0..(n - 1) /\ v = q * n + (v % n)
  <2>0. v \in Int
    OBVIOUS
  <2>1. q \in Int /\ v % n \in 0..(n - 1) /\ v = q * n + (v % n)
    BY <1>1, <2>0, Division, Zenon
  <2> HIDE DEF q
  <2>2. ASSUME q < 0
        PROVE  FALSE
    <3>1. q * n <= -n
      BY <1>1, <2>1, <2>2, SMT
    <3> QED
      BY <1>1, <2>1, <3>1
  <2> QED
    BY <2>1, <2>2
<1> HIDE DEF q
<1>3. h \in Nat /\ b \in {0, 1} /\ q = 2 * h + b
  BY <1>2
<1> HIDE DEF h, b
<1>4. b * n + (v % n) \in 0..(2 * n - 1)
  <2>1. CASE b = 0
    BY <1>1, <1>2, <2>1
  <2>2. CASE b = 1
    BY <1>1, <1>2, <2>2
  <2> QED
    BY <1>3, <2>1, <2>2
<1>5. v = h * (2 * n) + (b * n + (v % n))
  <2>1. q * n = h * (2 * n) + b * n
    BY <1>1, <1>3
  <2>2. h * (2 * n) \in Int /\ b * n \in Int
    BY <1>1, <1>3
  <2> QED
    BY <1>1, <1>2, <2>1, <2>2
<1>6. v \div (2 * n) = h
  <2> DEFINE r == b * n + (v % n)
             m2 == 2 * n
  <2>1. m2 \in Nat \ {0} /\ r \in 0..(m2 - 1) /\ v = h * m2 + r /\ h \in Int
    BY <1>1, <1>3, <1>4, <1>5
  <2> HIDE DEF r, m2
  <2>2. v \div m2 = h
    BY <2>1, DivisionUnique
  <2> QED
    BY <2>2 DEF m2
<1> QED
  BY <1>1, <1>2, <1>3, <1>6 DEF From, Bit, n, q, h, b

LEMMA FromEnds ==
  ASSUME NEW v \in Nat, NEW k \in Nat, v < Pow2[k]
  PROVE  From(v, 0) = v /\ From(v, k) = 0
<1>1. From(v, 0) = v
  BY PowersOfTwo, DivisionUnique DEF From
<1>2. Pow2[k] \in Nat \ {0} /\ v \in 0..(Pow2[k] - 1)
  BY PowersOfTwo
<1>3. v \div Pow2[k] = 0
  BY <1>2, SmallRemainder
<1> QED
  BY <1>1, <1>3 DEF From

LEMMA FromGrows ==
  ASSUME NEW a \in Nat, NEW b \in Nat, NEW t \in Nat, From(a, t) > From(b, t)
  PROVE  a > b
<1> DEFINE n == Pow2[t]
<1>1. n \in Nat \ {0}
  BY PowersOfTwo
<1> HIDE DEF n
<1>2. /\ a = (a \div n) * n + (a % n) /\ a % n \in 0..(n - 1) /\ a \div n \in Int
      /\ b = (b \div n) * n + (b % n) /\ b % n \in 0..(n - 1) /\ b \div n \in Int
  BY <1>1, Division
<1>3. a \div n >= (b \div n) + 1
  BY <1>2 DEF From, n
<1>4. (a \div n) * n >= (b \div n) * n + n
  <2> DEFINE p == a \div n
             q == b \div n
  <2>1. p \in Int /\ q \in Int /\ p >= q + 1
    BY <1>2, <1>3
  <2> HIDE DEF p, q
  <2>2. p * n >= q * n + n
    BY <1>1, <2>1, SMT
  <2> QED
    BY <2>2 DEF p, q
<1> QED
  BY <1>1, <1>2, <1>4

(* a and b have the same bits from t up, to bit k.                          *)
SameFrom(a, b, t, k) == \A i \in Nat : t <= i /\ i < k => Bit(a, i) = Bit(b, i)

LEMMA SameBits ==
  ASSUME NEW a \in Nat, NEW b \in Nat, NEW k \in Nat, a < Pow2[k], b < Pow2[k],
         NEW t \in 0..k
  PROVE  SameFrom(a, b, t, k) <=> From(a, t) = From(b, t)
<1>1. ASSUME SameFrom(a, b, t, k)
      PROVE  From(a, t) = From(b, t)
  <2> DEFINE S == {j \in Nat : t <= k - j => From(a, k - j) = From(b, k - j)}
  <2>1. 0 \in S
    BY FromEnds
  <2>2. ASSUME NEW j \in Nat, j \in S
        PROVE  j + 1 \in S
    <3> SUFFICES ASSUME t <= k - (j + 1)
                 PROVE  From(a, k - (j + 1)) = From(b, k - (j + 1))
      OBVIOUS
    <3> DEFINE i == k - (j + 1)
    <3>1. i \in Nat /\ i + 1 = k - j /\ t <= i /\ i < k
      OBVIOUS
    <3>2. From(a, i + 1) = From(b, i + 1)
      BY <2>2, <3>1
    <3> HIDE DEF i
    <3>3. Bit(a, i) = Bit(b, i)
      BY <1>1, <3>1 DEF SameFrom
    <3>4. From(a, i) = From(b, i)
      BY <3>1, <3>2, <3>3, FromBits
    <3> QED
      BY <3>4 DEF i
  <2>3. Nat \subseteq S
    <3> HIDE DEF S
    <3> QED
      BY <2>1, <2>2, SetInduction
  <2>4. k - t \in S
    BY <2>3
  <2> QED
    BY <2>4
<1>2. ASSUME From(a, t) = From(b, t)
      PROVE  SameFrom(a, b, t, k)
  <2> DEFINE S == {j \in Nat : From(a, t + j) = From(b, t + j)}
  <2>1. 0 \in S
    BY <1>2
  <2>2. ASSUME NEW j \in Nat, j \in S
        PROVE  j + 1 \in S
    <3> DEFINE i == t + j
    <3>1. i \in Nat /\ From(a, i) = From(b, i)
      BY <2>2
    <3> HIDE DEF i
    <3>2. From(a, i + 1) = From(b, i + 1)
      BY <3>1, FromBits
    <3>3. i + 1 = t + (j + 1)
      BY DEF i
    <3> QED
      BY <3>2, <3>3
  <2>3. Nat \subseteq S
    <3> HIDE DEF S
    <3> QED
      BY <2>1, <2>2, SetInduction
  <2>4. ASSUME NEW i \in Nat, t <= i
        PROVE  From(a, i) = From(b, i)
    <3>1. i - t \in S /\ t + (i - t) = i
      BY <2>3, <2>4
    <3> QED
      BY <3>1
  <2>5. \A i \in Nat : t <= i => Bit(a, i) = Bit(b, i)
    BY <2>4, FromBits
  <2> QED
    BY <2>5 DEF SameFrom
<1> QED
  BY <1>1, <1>2

(* a is the larger from bit t on: the highest bit they differ in is t.      *)
Decides(a, b, t, k) ==
    Bit(a, t) = 1 /\ Bit(b, t) = 0 /\ SameFrom(a, b, t + 1, k)

LEMMA DecidesLarger ==
  ASSUME NEW a \in Nat, NEW b \in Nat, NEW k \in Nat, a < Pow2[k], b < Pow2[k],
         NEW t \in 0..(k - 1), Decides(a, b, t, k)
  PROVE  a > b
<1>1. From(a, t + 1) = From(b, t + 1)
  BY SameBits DEF Decides
<1>2. From(a, t) > From(b, t)
  BY <1>1, FromBits DEF Decides
<1> QED
  BY <1>2, FromGrows

LEMMA DecidesOnce ==
  ASSUME NEW a \in Nat, NEW b \in Nat, NEW k \in Nat,
         NEW t \in 0..(k - 1), NEW u \in 0..(k - 1),
         Decides(a, b, t, k), Decides(a, b, u, k)
  PROVE  t = u
<1>1. ASSUME NEW i \in 0..(k - 1), NEW j \in 0..(k - 1), i < j,
             Decides(a, b, i, k), Decides(a, b, j, k)
      PROVE  FALSE
  <2>1. j \in Nat /\ i + 1 <= j /\ j < k
    BY <1>1
  <2>2. Bit(a, j) = Bit(b, j)
    BY <1>1, <2>1 DEF Decides, SameFrom
  <2> QED
    BY <1>1, <2>2 DEF Decides
<1>2. t < u \/ u < t \/ t = u
  OBVIOUS
<1> QED
  BY <1>1, <1>2

LEMMA LargerDecided ==
  ASSUME NEW a \in Nat, NEW b \in Nat, NEW k \in Nat, a < Pow2[k], b < Pow2[k], a > b
  PROVE  \E t \in 0..(k - 1) : Decides(a, b, t, k)
<1> DEFINE T == {i \in 0..k : From(a, i) = From(b, i)}
<1>1. k \in T /\ T \in SUBSET Nat /\ T # {}
  BY FromEnds
<1>2. PICK s \in T : \A i \in T : s <= i
  BY <1>1, LeastNumber
<1>3. s # 0
  BY <1>2, FromEnds
<1> DEFINE t == s - 1
<1>4. t \in 0..(k - 1) /\ t \in Nat /\ t + 1 = s /\ t + 1 \in 0..k
  BY <1>2, <1>3
<1>5. From(a, t) # From(b, t) /\ From(a, t + 1) = From(b, t + 1)
  BY <1>2, <1>4
<1> HIDE DEF t
<1>6. SameFrom(a, b, t + 1, k)
  BY <1>4, <1>5, SameBits
<1>7. ~(From(b, t) > From(a, t))
  BY <1>4, FromGrows
<1>8. Bit(a, t) = 1 /\ Bit(b, t) = 0
  <2>1. /\ From(a, t) \in Nat /\ Bit(a, t) \in {0, 1}
        /\ From(a, t) = 2 * From(a, t + 1) + Bit(a, t)
    BY <1>4, FromBits
  <2>2. /\ From(b, t) \in Nat /\ Bit(b, t) \in {0, 1}
        /\ From(b, t) = 2 * From(b, t + 1) + Bit(b, t)
    BY <1>4, FromBits
  <2>3. From(a, t + 1) \in Nat /\ From(b, t + 1) \in Nat
    BY <1>4, FromBits
  <2> QED
    BY <1>5, <1>7, <2>1, <2>2, <2>3
<1> QED
  BY <1>4, <1>6, <1>8 DEF Decides

-----------------------------------------------------------------------------
(* The comparison: what the helper sees at a bit. *)

LEMMA Moduli ==
  /\ L1 \in Nat \ {0} /\ LP \in Nat \ {0} /\ LP > L1 + 1
  /\ Bits = 0..(L1 - 1) /\ P1 = 0 /\ P2 = 1 /\ Proxies = {0, 1}
  /\ N1 = Pow2[L1]
  BY L1Assumption, LPAssumption, N1Assumption DEF Bits, P1, P2, Proxies

(* The proxies' shares of the mask's bits. *)
BitShares ==
    /\ yb \in [Proxies -> [Bits -> Int]]
    /\ \A t \in Bits : Congruent(yb[P1][t] + yb[P2][t], Bit(y, t), LP)

Different(t) == IF Bit(y, t) = Bit(z, t) THEN 0 ELSE 1

LEMMA DifferShares ==
  ASSUME BitShares, y \in Nat, z \in Nat, NEW t \in Bits
  PROVE  /\ Differ(P1, t) \in Int /\ Differ(P2, t) \in Int
         /\ Congruent(Differ(P1, t) + Differ(P2, t), Different(t), LP)
<1> DEFINE s1 == yb[P1][t]
           s2 == yb[P2][t]
           u == Bit(y, t)
           v == Bit(z, t)
           g == 1 - 2 * v
           e1 == s1 - 2 * v * s1
           e2 == s2 + v - 2 * v * s2
<1>1. s1 \in Int /\ s2 \in Int /\ u \in {0, 1} /\ v \in {0, 1}
  <2>1. t \in Nat
    BY Moduli
  <2> QED
    BY <2>1, Moduli, FromBits DEF BitShares
<1>2. Congruent(s1 + s2, u, LP)
  BY DEF BitShares
<1>3. Differ(P1, t) = e1 % LP /\ Differ(P2, t) = e2 % LP
  <2>1. Differ(P1, t) = (s1 + 0 * v - 2 * v * s1) % LP
    BY Moduli DEF Differ
  <2>2. Differ(P2, t) = (s2 + 1 * v - 2 * v * s2) % LP
    BY Moduli DEF Differ
  <2> HIDE DEF s1, s2, v
  <2>3. s1 + 0 * v - 2 * v * s1 = e1 /\ s2 + 1 * v - 2 * v * s2 = e2
    BY <1>1
  <2> QED
    BY <2>1, <2>2, <2>3
<1>4. Different(t) = IF u = v THEN 0 ELSE 1
  BY DEF Different
<1> HIDE DEF s1, s2, u, v
<1>5. e1 \in Int /\ e2 \in Int /\ e1 + e2 = (s1 + s2) * g + v
  <2>1. CASE v = 0
    BY <1>1, <2>1
  <2>2. CASE v = 1
    BY <1>1, <2>2
  <2> QED
    BY <1>1, <2>1, <2>2
<1>6. u * g + v = Different(t)
  BY <1>1, <1>4
<1>7. g \in Int /\ s1 + s2 \in Int /\ u \in Int /\ v \in Int /\ LP \in Int
  BY <1>1, Moduli
<1> HIDE DEF g, e1, e2
<1>8. Congruent((s1 + s2) * g, u * g, LP)
  BY <1>2, <1>7, CongruentRefl, CongruentProduct
<1>9. Congruent((s1 + s2) * g + v, u * g + v, LP)
  <2>1. (s1 + s2) * g \in Int /\ u * g \in Int
    BY <1>7
  <2>2. Congruent(v, v, LP)
    BY <1>7, CongruentRefl
  <2> QED
    BY <1>7, <1>8, <2>1, <2>2, CongruentSum
<1>10. /\ Congruent(e1 % LP, e1, LP) /\ Congruent(e2 % LP, e2, LP)
       /\ e1 % LP \in Int /\ e2 % LP \in Int
  <2>1. LP \in Nat \ {0}
    BY Moduli
  <2> QED
    <3>1. e1 \in Int /\ e2 \in Int
      BY <1>5
    <3>2. Congruent(e1 % LP, e1, LP) /\ Congruent(e2 % LP, e2, LP)
      BY <2>1, <3>1, CongruentMod, Zenon
    <3>3. e1 % LP \in 0..(LP - 1) /\ e2 % LP \in 0..(LP - 1)
      BY <2>1, <3>1, Division, Zenon
    <3> QED
      BY <2>1, <3>2, <3>3
<1>11. Congruent((e1 % LP) + (e2 % LP), e1 + e2, LP)
  BY <1>5, <1>7, <1>10, CongruentSum
<1>12. (e1 % LP) + (e2 % LP) \in Int /\ e1 + e2 \in Int /\ Different(t) \in Int
  BY <1>4, <1>5, <1>10
<1>13. Congruent((e1 % LP) + (e2 % LP), Different(t), LP)
  BY <1>5, <1>6, <1>7, <1>9, <1>11, <1>12, CongruentTrans
<1> QED
  BY <1>3, <1>10, <1>13

(* w_sum starts at zero and takes in one bit after the other, downwards.    *)
LEMMA AboveStep ==
  ASSUME NEW p, \A t \in Bits : Differ(p, t) \in Int
  PROVE  /\ Above(p, L1 - 1) = 0
         /\ \A t \in 0..(L1 - 2) : Above(p, t) = (Above(p, t + 1) + Differ(p, t + 1)) % LP
<1> DEFINE Recurs(g) == g = [k \in Bits |->
               IF k = L1 - 1 THEN 0 ELSE (g[k + 1] + Differ(p, k + 1)) % LP]
           step == [q \in Nat \X Int |->
               IF q[1] < L1 THEN (q[2] + Differ(p, (L1 - 1) - q[1])) % LP ELSE 0]
<1>1. IsStep(step, Int)
  <2> SUFFICES ASSUME NEW q \in Nat \X Int, q[1] < L1
               PROVE  (q[2] + Differ(p, (L1 - 1) - q[1])) % LP \in Int
    BY DEF IsStep
  <2>1. (L1 - 1) - q[1] \in Bits
    BY Moduli
  <2>2. q[2] + Differ(p, (L1 - 1) - q[1]) \in Int
    BY <2>1
  <2>3. LP \in Nat \ {0}
    BY Moduli
  <2> QED
    BY <2>2, <2>3, Division
<1>2. PICK h : Follows(h, Int, 0, step)
  <2> HIDE DEF step
  <2> QED
    BY <1>1, Recursion
<1> DEFINE g == [k \in Bits |-> h[(L1 - 1) - k]]
<1>3. Recurs(g)
  <2>1. g[L1 - 1] = 0 /\ L1 - 1 \in Bits
    BY <1>2, Moduli DEF Follows
  <2>2. ASSUME NEW k \in Bits, k # L1 - 1
        PROVE  g[k] = (g[k + 1] + Differ(p, k + 1)) % LP
    <3> DEFINE n == (L1 - 1) - (k + 1)
    <3>1. n \in Nat /\ n < L1 /\ n + 1 = (L1 - 1) - k /\ (L1 - 1) - n = k + 1 /\ k + 1 \in Bits
      BY <2>2, Moduli
    <3>2. h[n + 1] = step[<<n, h[n]>>] /\ h[n] \in Int
      BY <1>2, <3>1 DEF Follows
    <3>3. g[k] = h[n + 1] /\ g[k + 1] = h[n]
      BY <3>1
    <3> HIDE DEF n, g
    <3>4. step[<<n, h[n]>>] = (h[n] + Differ(p, k + 1)) % LP
      BY <3>1, <3>2
    <3> QED
      BY <3>2, <3>3, <3>4
  <2>3. g = [k \in Bits |-> g[k]]
    OBVIOUS
  <2> HIDE DEF g
  <2>4. \A k \in Bits : g[k] = IF k = L1 - 1 THEN 0 ELSE (g[k + 1] + Differ(p, k + 1)) % LP
    BY <2>1, <2>2
  <2> QED
    BY <2>3, <2>4
<1> DEFINE sum == CHOOSE s : Recurs(s)
<1>4. Recurs(sum)
  <2> HIDE DEF Recurs, g
  <2> QED
    BY <1>3
<1>5. \A t \in Bits : Above(p, t) = sum[t]
  BY DEF Above
<1> HIDE DEF sum
<1>6. \A t \in Bits : sum[t] = IF t = L1 - 1 THEN 0 ELSE (sum[t + 1] + Differ(p, t + 1)) % LP
  BY <1>4
<1>7. L1 - 1 \in Bits /\ \A t \in 0..(L1 - 2) : t \in Bits /\ t # L1 - 1 /\ t + 1 \in Bits
  BY Moduli
<1> QED
  BY <1>5, <1>6, <1>7

(* The bits above t that differ. *)
Higher(t) == {k \in Bits : k > t /\ Bit(y, k) # Bit(z, k)}

LEMMA HigherCount ==
  /\ \A t \in Bits : IsFiniteSet(Higher(t)) /\ Cardinality(Higher(t)) \in 0..(L1 - 1)
  /\ \A t \in Bits : (Cardinality(Higher(t)) = 0) = (Higher(t) = {})
  /\ Cardinality(Higher(L1 - 1)) = 0
  /\ \A t \in 0..(L1 - 2) :
        Cardinality(Higher(t)) = Cardinality(Higher(t + 1)) + Different(t + 1)
<1>1. ASSUME NEW t \in Bits
      PROVE  IsFiniteSet(Higher(t)) /\ Cardinality(Higher(t)) \in 0..(L1 - 1)
  <2>1. /\ IsFiniteSet(1..(L1 - 1)) /\ Cardinality(1..(L1 - 1)) = L1 - 1
    <3>1. L1 - 1 \in Int /\ 1 \in Int /\ (IF 1 > L1 - 1 THEN 0 ELSE (L1 - 1) - 1 + 1) = L1 - 1
      BY Moduli
    <3> QED
      BY <3>1, FS_Interval
  <2>2. Higher(t) \subseteq 1..(L1 - 1)
    BY Moduli DEF Higher
  <2>3. /\ IsFiniteSet(Higher(t)) /\ Cardinality(Higher(t)) <= Cardinality(1..(L1 - 1))
    BY <2>1, <2>2, FS_Subset
  <2>4. Cardinality(Higher(t)) \in Nat
    BY <2>3, FS_CardinalityType
  <2> QED
    BY <2>1, <2>3, <2>4, Moduli
<1>2. \A t \in Bits : (Cardinality(Higher(t)) = 0) = (Higher(t) = {})
  BY <1>1, FS_EmptySet
<1>3. Higher(L1 - 1) = {}
  BY Moduli DEF Higher
<1>4. ASSUME NEW t \in 0..(L1 - 2)
      PROVE  Cardinality(Higher(t)) = Cardinality(Higher(t + 1)) + Different(t + 1)
  <2>1. t + 1 \in Bits /\ t \in Bits
    BY Moduli
  <2>2. t + 1 \notin Higher(t + 1)
    BY DEF Higher
  <2>3. CASE Bit(y, t + 1) = Bit(z, t + 1)
    <3>1. Higher(t) = Higher(t + 1)
      BY <2>1, <2>3, Moduli DEF Higher
    <3> QED
      BY <1>1, <2>1, <2>3, <3>1 DEF Different
  <2>4. CASE Bit(y, t + 1) # Bit(z, t + 1)
    <3>1. Higher(t) = Higher(t + 1) \cup {t + 1}
      BY <2>1, <2>4, Moduli DEF Higher
    <3>2. Cardinality(Higher(t)) = Cardinality(Higher(t + 1)) + 1
      BY <1>1, <2>1, <2>2, <3>1, FS_AddElement
    <3> QED
      BY <2>4, <3>2 DEF Different
  <2> QED
    BY <2>3, <2>4
<1> QED
  BY <1>1, <1>2, <1>3, <1>4, FS_EmptySet

(* The shares of w_sum add up to the number of higher bits that differ.     *)
LEMMA AboveShares ==
  ASSUME BitShares, y \in Nat, z \in Nat
  PROVE  \A t \in Bits :
             /\ Above(P1, t) \in Int /\ Above(P2, t) \in Int
             /\ Congruent(Above(P1, t) + Above(P2, t), Cardinality(Higher(t)), LP)
<1> DEFINE Adds(t) == /\ Above(P1, t) \in Int /\ Above(P2, t) \in Int
                      /\ Congruent(Above(P1, t) + Above(P2, t), Cardinality(Higher(t)), LP)
           S == {j \in 0..(L1 - 1) : Adds((L1 - 1) - j)}
<1>0. L1 \in Nat \ {0} /\ LP \in Nat \ {0} /\ Bits = 0..(L1 - 1)
  BY Moduli
<1>1. /\ \A t \in Bits : Differ(P1, t) \in Int /\ Differ(P2, t) \in Int
      /\ \A t \in Bits : Congruent(Differ(P1, t) + Differ(P2, t), Different(t), LP)
  BY DifferShares
<1>2. Adds(L1 - 1)
  <2>1. Above(P1, L1 - 1) = 0 /\ Above(P2, L1 - 1) = 0 /\ Cardinality(Higher(L1 - 1)) = 0
    BY <1>1, AboveStep, HigherCount
  <2>2. Congruent(0 + 0, 0, LP)
    BY <1>0, CongruentRefl
  <2> QED
    BY <2>1, <2>2
<1>3. ASSUME NEW t \in 0..(L1 - 2), Adds(t + 1)
      PROVE  Adds(t)
  <2> DEFINE a1 == Above(P1, t + 1)
             a2 == Above(P2, t + 1)
             e1 == Differ(P1, t + 1)
             e2 == Differ(P2, t + 1)
             hh == Cardinality(Higher(t + 1))
             ee == Different(t + 1)
  <2>1. t + 1 \in Bits /\ t \in Bits
    BY <1>0
  <2>2. /\ a1 \in Int /\ a2 \in Int /\ e1 \in Int /\ e2 \in Int /\ hh \in Int /\ ee \in Int
        /\ Congruent(a1 + a2, hh, LP) /\ Congruent(e1 + e2, ee, LP)
    BY <1>1, <1>3, <2>1, HigherCount DEF Different
  <2>3. Above(P1, t) = (a1 + e1) % LP /\ Above(P2, t) = (a2 + e2) % LP
    BY <1>1, AboveStep
  <2>4. Cardinality(Higher(t)) = hh + ee
    BY HigherCount
  <2> HIDE DEF a1, a2, e1, e2, hh, ee
  <2> DEFINE s1 == a1 + e1
             s2 == a2 + e2
             r1 == s1 % LP
             r2 == s2 % LP
  <2>5. s1 \in Int /\ s2 \in Int /\ s1 + s2 = (a1 + a2) + (e1 + e2)
    BY <2>2
  <2>6. Congruent(s1 + s2, hh + ee, LP)
    <3>1. a1 + a2 \in Int /\ e1 + e2 \in Int /\ LP \in Int
      BY <1>0, <2>2
    <3>2. Congruent((a1 + a2) + (e1 + e2), hh + ee, LP)
      BY <2>2, <3>1, CongruentSum
    <3> QED
      BY <2>5, <3>2
  <2> HIDE DEF s1, s2
  <2>7. /\ Congruent(r1, s1, LP) /\ Congruent(r2, s2, LP)
        /\ r1 \in 0..(LP - 1) /\ r2 \in 0..(LP - 1)
    BY <1>0, <2>5, CongruentMod, Division, Zenon
  <2> HIDE DEF r1, r2
  <2>8. Congruent(r1 + r2, hh + ee, LP)
    <3>1. r1 \in Int /\ r2 \in Int /\ LP \in Int /\ s1 + s2 \in Int /\ r1 + r2 \in Int /\ hh + ee \in Int
      BY <1>0, <2>2, <2>5, <2>7
    <3>2. Congruent(r1 + r2, s1 + s2, LP)
      BY <2>5, <2>7, <3>1, CongruentSum
    <3> QED
      BY <2>6, <3>1, <3>2, CongruentTrans
  <2>9. Above(P1, t) = r1 /\ Above(P2, t) = r2
    BY <2>3 DEF r1, r2, s1, s2
  <2> QED
    BY <1>0, <2>4, <2>7, <2>8, <2>9
<1>4. 0..(L1 - 1) \subseteq S
  <2>1. 0 \in S
    BY <1>0, <1>2
  <2>2. ASSUME NEW j \in 0..((L1 - 1) - 1), j \in S
        PROVE  j + 1 \in S
    <3>1. (L1 - 1) - (j + 1) \in 0..(L1 - 2) /\ ((L1 - 1) - (j + 1)) + 1 = (L1 - 1) - j
      BY <1>0
    <3>2. Adds((L1 - 1) - (j + 1))
      <4> HIDE DEF Adds
      <4> QED
        BY <1>3, <2>2, <3>1
    <3> HIDE DEF Adds
    <3> QED
      BY <1>0, <3>2
  <2>3. L1 - 1 \in Nat
    BY <1>0
  <2> HIDE DEF S
  <2> QED
    BY <2>1, <2>2, <2>3, BoundedInduction
<1>5. ASSUME NEW t \in Bits
      PROVE  Adds(t)
  <2>0. (L1 - 1) - t \in 0..(L1 - 1) /\ (L1 - 1) - ((L1 - 1) - t) = t
    BY <1>0
  <2>1. (L1 - 1) - t \in S
    <3> HIDE DEF S
    <3> QED
      BY <1>4, <2>0
  <2> HIDE DEF Adds
  <2> QED
    BY <2>0, <2>1
<1> QED
  BY <1>5

(* No blinding factor makes a zero, and none hides one.                     *)
LEMMA Blinding ==
  ASSUME NEW v \in 0..(LP - 1), NEW factor \in 1..(LP - 1)
  PROVE  ((v * factor) % LP = 0) = (v = 0)
<1>1. ASSUME v # 0
      PROVE  (v * factor) % LP # 0
  BY <1>1, LPAssumption
<1>2. LP \in Nat \ {0} /\ 0 \in 0..(LP - 1)
  BY LPAssumption
<1>3. 0 % LP = 0
  BY <1>2, SmallRemainder
<1>4. 0 * factor = 0
  OBVIOUS
<1> QED
  BY <1>1, <1>3, <1>4

(* The helper sees a zero at bit t just when t is the highest bit in which  *)
(* mask and opened value differ, and the mask has it.                       *)
LEMMA ComparedShares ==
  ASSUME BitShares, y \in Nat, z \in Nat, NEW t \in Bits, NEW factor \in 1..(LP - 1)
  PROVE  ((Compared(P1, t, factor) + Compared(P2, t, factor)) % LP = 0)
           = Decides(y, z, t, L1)
<1> DEFINE s1 == yb[P1][t]
           s2 == yb[P2][t]
           u == Bit(y, t)
           v == Bit(z, t)
           a1 == Above(P1, t)
           a2 == Above(P2, t)
           hh == Cardinality(Higher(t))
           e1 == a1 - s1
           e2 == v - s2 + 1 + a2
           q1 == e1 % LP
           q2 == e2 % LP
           vv == v - u + 1 + hh
<1>0. /\ L1 \in Nat \ {0} /\ LP \in Nat \ {0} /\ LP > L1 + 1
      /\ Bits = 0..(L1 - 1) /\ P1 = 0 /\ P2 = 1
  BY Moduli
<1>1. /\ s1 \in Int /\ s2 \in Int /\ u \in {0, 1} /\ v \in {0, 1}
      /\ a1 \in Int /\ a2 \in Int /\ hh \in 0..(L1 - 1)
  <2>1. t \in Nat
    BY <1>0
  <2>2. u \in {0, 1} /\ v \in {0, 1}
    BY <2>1, FromBits
  <2>3. s1 \in Int /\ s2 \in Int
    BY Moduli DEF BitShares
  <2>4. a1 \in Int /\ a2 \in Int /\ hh \in 0..(L1 - 1)
    BY AboveShares, HigherCount
  <2> QED
    BY <2>2, <2>3, <2>4
<1>2. Congruent(s1 + s2, u, LP) /\ Congruent(a1 + a2, hh, LP)
  BY AboveShares DEF BitShares
<1>3. Compared(P1, t, factor) = (q1 * factor) % LP /\ Compared(P2, t, factor) = (q2 * factor) % LP
  <2>1. Compared(P1, t, factor) = (((0 * v - s1 + 0 + a1) % LP) * factor) % LP
    BY <1>0 DEF Compared
  <2>2. Compared(P2, t, factor) = (((1 * v - s2 + 1 + a2) % LP) * factor) % LP
    BY <1>0 DEF Compared
  <2> HIDE DEF s1, s2, v, a1, a2
  <2>3. 0 * v - s1 + 0 + a1 = e1 /\ 1 * v - s2 + 1 + a2 = e2
    BY <1>1
  <2> QED
    BY <2>1, <2>2, <2>3
<1>4. (hh = 0) = (Higher(t) = {}) /\ (u = 1 /\ v = 0 /\ Higher(t) = {}) = Decides(y, z, t, L1)
  <2>1. (hh = 0) = (Higher(t) = {})
    BY HigherCount
  <2>2. (Higher(t) = {}) = SameFrom(y, z, t + 1, L1)
    <3>1. \A i \in Nat : (i \in Bits /\ i > t) = (t + 1 <= i /\ i < L1)
      BY <1>0
    <3>2. Higher(t) \subseteq Nat /\ Bits \subseteq Nat
      BY <1>0 DEF Higher
    <3>3. ASSUME Higher(t) = {}
          PROVE  SameFrom(y, z, t + 1, L1)
      BY <3>1, <3>3 DEF SameFrom, Higher
    <3>4. ASSUME SameFrom(y, z, t + 1, L1), NEW i \in Higher(t)
          PROVE  FALSE
      <4>1. i \in Nat /\ t + 1 <= i /\ i < L1 /\ Bit(y, i) # Bit(z, i)
        BY <3>1, <3>2 DEF Higher
      <4> QED
        BY <3>4, <4>1 DEF SameFrom
    <3>5. (Higher(t) = {}) <=> SameFrom(y, z, t + 1, L1)
      BY <3>3, <3>4
    <3> QED
      BY <3>5 DEF SameFrom
  <2> QED
    BY <2>1, <2>2 DEF Decides
<1> HIDE DEF s1, s2, u, v, a1, a2, hh
<1>5. vv \in 0..(LP - 1) /\ (vv = 0) = (u = 1 /\ v = 0 /\ hh = 0)
  BY <1>0, <1>1
<1>6. e1 \in Int /\ e2 \in Int /\ e1 + e2 = (v + 1) - (s1 + s2) + (a1 + a2)
  BY <1>1
<1>7. Congruent(e1 + e2, vv, LP)
  <2>1. /\ s1 + s2 \in Int /\ a1 + a2 \in Int /\ v + 1 \in Int /\ LP \in Int
        /\ u \in Int /\ hh \in Int
        /\ (v + 1) - (s1 + s2) \in Int /\ (v + 1) - u \in Int
    BY <1>0, <1>1
  <2>2. Congruent((v + 1) - (s1 + s2), (v + 1) - u, LP)
    BY <1>2, <2>1, CongruentRefl, CongruentSum
  <2>3. Congruent(((v + 1) - (s1 + s2)) + (a1 + a2), ((v + 1) - u) + hh, LP)
    BY <1>2, <2>1, <2>2, CongruentSum
  <2>4. ((v + 1) - u) + hh = vv
    BY <1>1
  <2> QED
    BY <1>6, <2>3, <2>4
<1> HIDE DEF e1, e2, vv
<1>8. /\ Congruent(q1, e1, LP) /\ Congruent(q2, e2, LP)
      /\ q1 \in 0..(LP - 1) /\ q2 \in 0..(LP - 1)
  BY <1>0, <1>6, CongruentMod, Division, Zenon
<1> HIDE DEF q1, q2
<1>9. LP \in Int /\ q1 \in Int /\ q2 \in Int /\ factor \in Int /\ vv \in Int
  BY <1>0, <1>5, <1>8
<1>10. Congruent(q1 + q2, vv, LP)
  <2>1. Congruent(q1 + q2, e1 + e2, LP)
    BY <1>6, <1>8, <1>9, CongruentSum
  <2>2. q1 + q2 \in Int /\ e1 + e2 \in Int
    BY <1>6, <1>9
  <2> QED
    BY <1>7, <1>9, <2>1, <2>2, CongruentTrans
<1> DEFINE p1 == q1 * factor
           p2 == q2 * factor
           c1 == p1 % LP
           c2 == p2 % LP
<1>11. p1 \in Int /\ p2 \in Int /\ p1 + p2 = (q1 + q2) * factor
  BY <1>9
<1>12. Congruent(p1 + p2, vv * factor, LP)
  <2>1. q1 + q2 \in Int /\ Congruent(factor, factor, LP)
    BY <1>9, CongruentRefl
  <2>2. Congruent((q1 + q2) * factor, vv * factor, LP)
    BY <1>9, <1>10, <2>1, CongruentProduct
  <2> QED
    BY <1>11, <2>2
<1> HIDE DEF p1, p2
<1>13. /\ Congruent(c1, p1, LP) /\ Congruent(c2, p2, LP)
       /\ c1 \in 0..(LP - 1) /\ c2 \in 0..(LP - 1)
  BY <1>0, <1>11, CongruentMod, Division, Zenon
<1> HIDE DEF c1, c2
<1>14. (c1 + c2) % LP = (vv * factor) % LP
  <2>1. c1 \in Int /\ c2 \in Int /\ c1 + c2 \in Int /\ p1 + p2 \in Int /\ vv * factor \in Int
    BY <1>9, <1>11, <1>13
  <2>2. Congruent(c1 + c2, p1 + p2, LP)
    BY <1>9, <1>11, <1>13, <2>1, CongruentSum
  <2>3. Congruent(c1 + c2, vv * factor, LP)
    BY <1>9, <1>12, <2>1, <2>2, CongruentTrans
  <2> QED
    BY <1>0, <2>1, <2>3, CongruentEqual
<1>15. ((vv * factor) % LP = 0) = (vv = 0)
  BY <1>5, Blinding
<1>16. Compared(P1, t, factor) = c1 /\ Compared(P2, t, factor) = c2
  BY <1>3 DEF c1, c2, p1, p2
<1> QED
  BY <1>4, <1>5, <1>14, <1>15, <1>16

-----------------------------------------------------------------------------
(* The invariant: what is known at each step of the protocol. *)

VectorSteps == {"deal", "open", "compare", "answer", "select", "done"}
ScalarSteps == (VectorSteps \ {"answer"}) \cup {"found", "convert", "offer", "divide"}

InTyped ==
    /\ x \in [Proxies -> Ring]
    /\ f \in {0, 1}
    /\ \/ version = "vector" /\ pc \in VectorSteps
       \/ version = "scalar" /\ pc \in ScalarSteps

Low == Value % N1
Shared(bit) == IF bit = 1 THEN N1 ELSE 0

DealtWell ==
    pc # "deal" =>
        /\ y \in Half
        /\ ya \in [Proxies -> Half]
        /\ w \in {0, 1}
        /\ ya[P1] + ya[P2] = y + Shared(w)
        /\ version = "scalar" =>
               wb \in [Proxies -> {0, 1}] /\ (wb[P1] # wb[P2]) = (w = 1)

OpenedWell ==
    pc \notin {"deal", "open"} =>
        /\ z_1 \in [Proxies -> Half]
        /\ z \in Half
        /\ z = IF Low + y < N1 THEN Low + y ELSE Low + y - N1
        /\ \A p \in Proxies : z_1[P1] + z_1[P2] = IF z < z_1[p] THEN z + N1 ELSE z

AnsweredWell ==
    pc = "answer" => val = [p \in Proxies |-> [k \in {0, 1} |-> Candidate(p, k)]]

FoundWell ==
    pc = "convert" =>
        /\ res \in {0, 1}
        /\ wc \in [Proxies -> {0, 1}] /\ (wc[P1] # wc[P2]) = (res = 1)

ConvertedWell ==
    pc \in {"offer", "divide"} =>
        d \in [Proxies -> Ring] /\ Shares(N1, d[P1], d[P2], Low)

OfferedWell ==
    pc = "divide" => Shares(N1, val[P1][f], val[P2][f], Shared(Sign(Value)))

SelectedWell ==
    pc = "select" => Shares(N1, ans[P1][f], ans[P2][f], Formatted(Sign(Value)))

SharedWell ==
    pc = "done" => Shares(N1, m[P1], m[P2], Formatted(Sign(Value)))

IInv ==
    /\ InTyped /\ DealtWell /\ OpenedWell /\ AnsweredWell /\ FoundWell
    /\ ConvertedWell /\ OfferedWell /\ SelectedWell /\ SharedWell

LEMMA Sizes ==
  /\ N1 \in Nat \ {0}
  /\ One \in 1..N1
  /\ RING = 2 * N1 /\ Ring = 0..(2 * N1 - 1) /\ Half = 0..(N1 - 1)
  /\ P1 = 0 /\ P2 = 1 /\ Proxies = {0, 1}
  BY N1Assumption, OneAssumption DEF RING, Ring, Half, P1, P2, Proxies

(* The value, its low bits and its sign, without remainders. *)
LEMMA Values ==
  ASSUME x \in [Proxies -> Ring]
  PROVE  /\ x[P1] \in 0..(2 * N1 - 1) /\ x[P2] \in 0..(2 * N1 - 1)
         /\ Value \in 0..(2 * N1 - 1)
         /\ x[P1] + x[P2] \in {Value, Value + 2 * N1}
         /\ Low \in 0..(N1 - 1) /\ Value \in {Low, Low + N1}
         /\ Sign(Value) = IF Value < N1 THEN 0 ELSE 1
<1>1. x[P1] \in 0..(2 * N1 - 1) /\ x[P2] \in 0..(2 * N1 - 1)
  BY Sizes
<1>2. Value = IF x[P1] + x[P2] < 2 * N1 THEN x[P1] + x[P2] ELSE x[P1] + x[P2] - 2 * N1
  <2> DEFINE s == x[P1] + x[P2]
             r == 2 * N1
  <2>1. r \in Int /\ r > 0 /\ s \in Int /\ 0 <= s /\ s < 2 * r
    BY <1>1, Sizes
  <2>2. Value = s % r
    BY Sizes DEF Value
  <2> HIDE DEF s, r
  <2>3. s % r = IF s < r THEN s ELSE s - r
    BY <2>1, ModOnce
  <2> QED
    BY <2>2, <2>3, <1>1, Sizes DEF s, r
<1>3. Value \in 0..(2 * N1 - 1)
  BY <1>1, <1>2, Sizes
<1>4. Low = IF Value < N1 THEN Value ELSE Value - N1
  BY <1>3, Sizes, ModOnce DEF Low
<1>5. Sign(Value) = IF Value < N1 THEN 0 ELSE 1
  BY <1>3, Sizes, DivBit DEF Sign
<1> QED
  BY <1>1, <1>2, <1>3, <1>4, <1>5, Sizes

(* Two shares of a bit by exclusive or differ when the bit is set. *)
LEMMA CoinsShare ==
  ASSUME NEW bit \in {0, 1}, NEW coin \in {0, 1}
  PROVE  /\ Coins(bit, coin) \in [Proxies -> {0, 1}]
         /\ (Coins(bit, coin)[P1] # Coins(bit, coin)[P2]) = (bit = 1)
<1>1. (bit + coin) % 2 = IF bit = coin THEN 0 ELSE 1
  OBVIOUS
<1> QED
  BY <1>1 DEF Coins, Proxies, P1, P2

LEMMA Answered ==
  ASSUME NEW cand \in {0, 1}
  PROVE  Formatted(cand) \in Ring
  BY Sizes DEF Formatted

-----------------------------------------------------------------------------
(* Each step establishes what the next one needs. *)

LEMMA DealStep ==
  ASSUME IInv, Deal
  PROVE  IInv'
<1> USE DEF IInv
<1>1. PICK mask \in Half, ya_1 \in Half :
        /\ y' = mask
        /\ ya' = [p \in Proxies |-> IF p = P1 THEN ya_1 ELSE (mask - ya_1) % N1]
        /\ w' = Wraps(mask, ya_1)
        /\ IF version = "vector" THEN UNCHANGED wb
           ELSE \E coin \in {0, 1} : wb' = Coins(Wraps(mask, ya_1), coin)
  BY DEF Deal
<1>2. pc = "deal" /\ pc' = "open" /\ UNCHANGED <<version, x, f>>
  BY DEF Deal
<1>3. (mask - ya_1) % N1 = IF mask < ya_1 THEN mask - ya_1 + N1 ELSE mask - ya_1
  <2>1. mask \in 0..(N1 - 1) /\ ya_1 \in 0..(N1 - 1)
    BY Sizes
  <2> QED
    BY <2>1, Sizes, ModNear, ModRange
<1>4. w' \in {0, 1} /\ (w' = 1 <=> mask < ya_1)
  BY <1>1 DEF Wraps
<1>5. InTyped'
  BY <1>2 DEF InTyped, VectorSteps, ScalarSteps
<1>6. DealtWell'
  <2>1. ya' \in [Proxies -> Half] /\ ya'[P1] = ya_1
          /\ ya'[P2] = IF mask < ya_1 THEN mask - ya_1 + N1 ELSE mask - ya_1
    <3>1. (IF mask < ya_1 THEN mask - ya_1 + N1 ELSE mask - ya_1) \in Half
      BY Sizes
    <3> QED
      BY <1>1, <1>3, <3>1, Sizes
  <2>2. ya'[P1] + ya'[P2] = y' + Shared(w')
    BY <1>1, <1>4, <2>1, Sizes DEF Shared
  <2>3. version' = "scalar" =>
          wb' \in [Proxies -> {0, 1}] /\ (wb'[P1] # wb'[P2]) = (w' = 1)
    BY <1>1, <1>2, <1>4, CoinsShare
  <2> QED
    BY <1>1, <1>4, <2>1, <2>2, <2>3 DEF DealtWell
<1>7. /\ OpenedWell' /\ AnsweredWell' /\ FoundWell' /\ ConvertedWell'
      /\ OfferedWell' /\ SelectedWell' /\ SharedWell'
  BY <1>2 DEF OpenedWell, AnsweredWell, FoundWell, ConvertedWell, OfferedWell,
              SelectedWell, SharedWell
<1> QED
  BY <1>5, <1>6, <1>7

LEMMA OpenStep ==
  ASSUME IInv, Open
  PROVE  IInv'
<1> USE DEF IInv
<1>1. /\ pc = "open" /\ pc' = "compare"
      /\ z_1' = [p \in Proxies |-> ((x[p] % N1) + ya[p]) % N1]
      /\ z' = (z_1'[P1] + z_1'[P2]) % N1
      /\ UNCHANGED <<version, x, y, ya, w, wb, f>>
  BY DEF Open, dealt
<1>2. InTyped'
  BY <1>1 DEF InTyped, VectorSteps, ScalarSteps
<1>3. DealtWell'
  BY <1>1 DEF DealtWell
<1>4. OpenedWell'
  <2>1. x \in [Proxies -> Ring]
    BY DEF InTyped
  <2>2. /\ y \in 0..(N1 - 1) /\ ya[P1] \in 0..(N1 - 1) /\ ya[P2] \in 0..(N1 - 1)
        /\ ya[P1] + ya[P2] \in {y, y + N1}
    BY <1>1, Sizes DEF DealtWell, Shared
  <2>3. z_1'[P1] = ((x[P1] % N1) + ya[P1]) % N1 /\ z_1'[P2] = ((x[P2] % N1) + ya[P2]) % N1
    BY <1>1, Sizes
  <2>4. /\ z_1'[P1] \in 0..(N1 - 1) /\ z_1'[P2] \in 0..(N1 - 1) /\ z' \in 0..(N1 - 1)
        /\ z' = IF Low + y < N1 THEN Low + y ELSE Low + y - N1
        /\ z_1'[P1] + z_1'[P2] = IF z' < z_1'[P1] THEN z' + N1 ELSE z'
        /\ z_1'[P1] + z_1'[P2] = IF z' < z_1'[P2] THEN z' + N1 ELSE z'
    <3>1. Summed(N1, x[P1], x[P2], Value, Low)
      BY <2>1, Values DEF Summed
    <3>2. Masked(N1, y, ya[P1], ya[P2])
      BY <2>2 DEF Masked
    <3>3. Opening(N1, Low, y, z_1'[P1], z_1'[P2], z')
      BY <1>1, <2>3, <3>1, <3>2, Sizes, OpenedSum
    <3> QED
      BY <3>3 DEF Opening
  <2>5. Low' = Low
    BY <1>1 DEF Low, Value
  <2>6. z_1' \in [Proxies -> Half]
    BY <1>1, <2>3, <2>4, Sizes
  <2> QED
    BY <1>1, <2>4, <2>5, <2>6, Sizes DEF OpenedWell
<1>5. /\ AnsweredWell' /\ FoundWell' /\ ConvertedWell' /\ OfferedWell'
      /\ SelectedWell' /\ SharedWell'
  BY <1>1 DEF AnsweredWell, FoundWell, ConvertedWell, OfferedWell, SelectedWell,
              SharedWell
<1> QED
  BY <1>2, <1>3, <1>4, <1>5

LEMMA CompareStep ==
  ASSUME IInv, Compare \/ PCB
  PROVE  IInv'
<1> USE DEF IInv
<1>1. /\ pc = "compare"
      /\ UNCHANGED <<version, x, f, y, ya, w, wb, z_1, z>>
  BY DEF Compare, PCB, dealt
<1>2. \/ version = "vector" /\ pc' = "answer"
      \/ version = "scalar" /\ pc' = "found"
  BY DEF Compare, PCB
<1>3. InTyped'
  BY <1>1, <1>2 DEF InTyped, VectorSteps, ScalarSteps
<1>4. DealtWell'
  BY <1>1 DEF DealtWell
<1>5. OpenedWell'
  BY <1>1 DEF OpenedWell, Low, Value
<1>6. AnsweredWell'
  BY <1>1, <1>2 DEF AnsweredWell, Compare, PCB, Candidate, Carried
<1>7. /\ FoundWell' /\ ConvertedWell' /\ OfferedWell' /\ SelectedWell' /\ SharedWell'
  BY <1>2 DEF FoundWell, ConvertedWell, OfferedWell, SelectedWell, SharedWell
<1> QED
  BY <1>3, <1>4, <1>5, <1>6, <1>7

LEMMA FoundStep ==
  ASSUME IInv, Found
  PROVE  IInv'
<1> USE DEF IInv
<1>1. PICK coin \in {0, 1} :
        /\ pc = "found" /\ pc' = "convert"
        /\ res' = FoundZero
        /\ wc' = Coins(FoundZero, coin)
        /\ UNCHANGED <<version, x, f, y, ya, w, wb, z_1, z>>
  BY DEF Found, dealt
<1>2. FoundZero \in {0, 1}
  BY DEF FoundZero
<1>3. InTyped'
  BY <1>1 DEF InTyped, VectorSteps, ScalarSteps
<1>4. DealtWell'
  BY <1>1 DEF DealtWell
<1>5. OpenedWell'
  BY <1>1 DEF OpenedWell, Low, Value
<1>6. FoundWell'
  BY <1>1, <1>2, CoinsShare DEF FoundWell
<1>7. /\ AnsweredWell' /\ ConvertedWell' /\ OfferedWell' /\ SelectedWell' /\ SharedWell'
  BY <1>1 DEF AnsweredWell, ConvertedWell, OfferedWell, SelectedWell, SharedWell
<1> QED
  BY <1>3, <1>4, <1>5, <1>6, <1>7

(* What the invariant says once the sum is open. *)
LEMMA OpenFacts ==
  ASSUME IInv, pc \notin {"deal", "open"}
  PROVE  /\ Summed(N1, x[P1], x[P2], Value, Low)
         /\ Masked(N1, y, ya[P1], ya[P2])
         /\ ya[P1] + ya[P2] = y + Shared(w) /\ w \in {0, 1}
         /\ Opening(N1, Low, y, z_1[P1], z_1[P2], z)
         /\ Sign(Value) = IF Value < N1 THEN 0 ELSE 1
<1>1. x \in [Proxies -> Ring]
  BY DEF IInv, InTyped
<1>2. Summed(N1, x[P1], x[P2], Value, Low)
  BY <1>1, Values DEF Summed
<1>3. /\ y \in Half /\ ya[P1] \in Half /\ ya[P2] \in Half /\ w \in {0, 1}
      /\ ya[P1] + ya[P2] = y + Shared(w)
  BY Sizes DEF IInv, DealtWell
<1>4. Masked(N1, y, ya[P1], ya[P2])
  BY <1>3, Sizes DEF Masked, Shared
<1>5. Opening(N1, Low, y, z_1[P1], z_1[P2], z)
  <2>1. /\ z_1 \in [Proxies -> Half]
        /\ z \in Half
        /\ z = IF Low + y < N1 THEN Low + y ELSE Low + y - N1
        /\ \A p \in Proxies : z_1[P1] + z_1[P2] = IF z < z_1[p] THEN z + N1 ELSE z
    BY DEF IInv, OpenedWell
  <2>2. Low \in 0..(N1 - 1)
    BY <1>1, Values
  <2> QED
    BY <1>3, <2>1, <2>2, Sizes DEF Opening
<1> QED
  BY <1>1, <1>2, <1>3, <1>4, <1>5, Values

LEMMA ConvertStep ==
  ASSUME IInv, Convert, ComparesMask
  PROVE  IInv'
<1>1. /\ pc = "convert" /\ pc' = "offer"
      /\ d' = [p \in Proxies |-> Converted(p)]
      /\ UNCHANGED <<version, x, f, y, ya, w, wb, z_1, z>>
  BY DEF Convert, dealt
<1>2. version = "scalar"
  BY <1>1 DEF IInv, InTyped, VectorSteps
<1> DEFINE e(p) == IF wb[p] = wc[p] THEN 0 ELSE N1
<1>3. \A p \in Proxies : wb[p] \in {0, 1} /\ wc[p] \in {0, 1}
  BY <1>1, <1>2 DEF IInv, DealtWell, FoundWell
<1>4. \A p \in Proxies : ((wb[p] + wc[p]) % 2) * N1 = e(p)
  <2> SUFFICES ASSUME NEW p \in Proxies
               PROVE  ((wb[p] + wc[p]) % 2) * N1 = e(p)
    OBVIOUS
  <2>1. (wb[p] + wc[p]) % 2 = IF wb[p] = wc[p] THEN 0 ELSE 1
    BY <1>3
  <2> QED
    BY <2>1, Sizes
<1>5. Carries(N1, y, ya[P1], ya[P2], z, e(P1), e(P2))
  <2>1. (wb[P1] # wb[P2]) = (w = 1) /\ (wc[P1] # wc[P2]) = (res = 1)
    BY <1>1, <1>2 DEF IInv, DealtWell, FoundWell
  <2>2. (res = 1) = (y > z)
    BY <1>1 DEF ComparesMask
  <2>3. (ya[P1] + ya[P2] # y) = (w = 1)
    BY <1>1, OpenFacts, Sizes DEF Shared, Masked
  <2>4. e(P1) \in {0, N1} /\ e(P2) \in {0, N1}
    OBVIOUS
  <2>5. (e(P1) # e(P2)) = ((wb[P1] # wb[P2]) # (wc[P1] # wc[P2]))
    BY <1>3, Sizes
  <2> QED
    BY <2>1, <2>2, <2>3, <2>4, <2>5 DEF Carries
<1>6. /\ Converted(P1) = (z_1[P1] + (IF z < z_1[P1] THEN N1 ELSE 0) - (ya[P1] + e(P1))) % (2 * N1)
      /\ Converted(P2) = (z_1[P2] - (ya[P2] + e(P2))) % (2 * N1)
  <2>1. /\ z_1[P1] \in Int /\ z_1[P2] \in Int /\ z \in Int
        /\ ya[P1] \in Int /\ ya[P2] \in Int /\ e(P1) \in Int /\ e(P2) \in Int
    <3>1. z_1[P1] \in 0..(N1 - 1) /\ z_1[P2] \in 0..(N1 - 1) /\ z \in 0..(N1 - 1)
      BY <1>1, OpenFacts DEF Opening
    <3>2. ya[P1] \in 0..(N1 - 1) /\ ya[P2] \in 0..(N1 - 1)
      BY <1>1, OpenFacts DEF Masked
    <3>3. e(P1) \in Int /\ e(P2) \in Int
      BY Sizes
    <3> QED
      BY <3>1, <3>2, <3>3, Sizes
  <2> HIDE DEF e
  <2>2. ((wb[P1] + wc[P1]) % 2) * N1 = e(P1) /\ ((wb[P2] + wc[P2]) % 2) * N1 = e(P2)
    BY <1>4, Sizes
  <2>3. Converted(P1) = (z_1[P1] + (IF z < z_1[P1] THEN N1 ELSE 0) - (ya[P1] + e(P1))) % (2 * N1)
    BY <2>1, <2>2, Sizes DEF Converted
  <2>4. Converted(P2) = (z_1[P2] + 0 - (ya[P2] + e(P2))) % (2 * N1)
    BY <2>1, <2>2, Sizes DEF Converted
  <2> QED
    BY <2>1, <2>3, <2>4
<1> HIDE DEF e
<1>7. Shares(N1, Converted(P1), Converted(P2), Low)
  BY <1>1, <1>5, <1>6, OpenFacts, ConvertedSum, Sizes
<1>8. d' \in [Proxies -> Ring] /\ d'[P1] = Converted(P1) /\ d'[P2] = Converted(P2)
  BY <1>1, <1>7, Sizes DEF Shares
<1>9. Low' = Low
  BY <1>1 DEF Low, Value
<1>10. ConvertedWell'
  BY <1>7, <1>8, <1>9 DEF ConvertedWell
<1>11. InTyped'
  BY <1>1 DEF IInv, InTyped, VectorSteps, ScalarSteps
<1>12. DealtWell' /\ OpenedWell'
  BY <1>1, <1>9 DEF IInv, DealtWell, OpenedWell
<1>13. AnsweredWell' /\ FoundWell' /\ OfferedWell' /\ SelectedWell' /\ SharedWell'
  BY <1>1 DEF AnsweredWell, FoundWell, OfferedWell, SelectedWell, SharedWell
<1> QED
  BY <1>10, <1>11, <1>12, <1>13 DEF IInv

LEMMA OfferStep ==
  ASSUME IInv, Offer
  PROVE  IInv'
<1>1. PICK bit \in {0, 1} :
        /\ pc = "offer" /\ pc' = "divide" /\ f' = bit
        /\ val' = [p \in Proxies |-> [k \in {0, 1} |->
                     (x[p] - d[p] + (IF p = P1 /\ k # bit THEN N1 ELSE 0)) % RING]]
        /\ UNCHANGED <<version, x, y, ya, w, wb, z_1, z, d>>
  BY DEF Offer, dealt
<1>2. InTyped'
  BY <1>1 DEF IInv, InTyped, VectorSteps, ScalarSteps
<1>3. DealtWell' /\ OpenedWell' /\ ConvertedWell'
  BY <1>1 DEF IInv, DealtWell, OpenedWell, ConvertedWell, Low, Value
<1>4. val'[P1][f'] = (x[P1] - d[P1]) % (2 * N1) /\ val'[P2][f'] = (x[P2] - d[P2]) % (2 * N1)
  <2>1. \A p \in Proxies : x[p] \in Int /\ d[p] \in Int
    BY <1>1, Sizes DEF IInv, InTyped, ConvertedWell
  <2>2. \A p \in Proxies : val'[p][f'] = (x[p] - d[p] + 0) % (2 * N1)
    BY <1>1, Sizes
  <2> QED
    BY <2>1, <2>2, Sizes
<1>5. Shares(N1, d[P1], d[P2], Low)
  BY <1>1 DEF IInv, ConvertedWell
<1>6. Shares(N1, val'[P1][f'], val'[P2][f'], IF Value < N1 THEN 0 ELSE N1)
  BY <1>1, <1>4, <1>5, OpenFacts, OfferedSum, Sizes
<1>7. Shared(Sign(Value)) = IF Value < N1 THEN 0 ELSE N1
  BY <1>1, OpenFacts DEF Shared
<1>8. Sign(Value)' = Sign(Value)
  BY <1>1 DEF Sign, Value
<1>9. OfferedWell'
  BY <1>6, <1>7, <1>8 DEF OfferedWell, Shared
<1>10. AnsweredWell' /\ FoundWell' /\ SelectedWell' /\ SharedWell'
  BY <1>1 DEF AnsweredWell, FoundWell, SelectedWell, SharedWell
<1> QED
  BY <1>2, <1>3, <1>9, <1>10 DEF IInv

(* A candidate that is the sign bit of x, divided and shared anew.          *)
LEMMA AnswersShare ==
  ASSUME NEW number, number = Shared(Sign(Value)), Sign(Value) \in {0, 1},
         NEW mask \in Ring, NEW first, NEW second,
         first = mask, second = (Formatted(number \div N1) - mask) % RING
  PROVE  Shares(N1, first, second, Formatted(Sign(Value)))
<1>1. number \div N1 = Sign(Value)
  <2>1. N1 \div N1 = 1 /\ 0 \div N1 = 0
    BY Sizes, DivBit
  <2> QED
    BY <2>1 DEF Shared
<1>2. Formatted(Sign(Value)) \in 0..(2 * N1 - 1)
  BY Answered, Sizes
<1>3. Shares(N1, mask, (Formatted(Sign(Value)) - mask) % (2 * N1), Formatted(Sign(Value)))
  BY <1>2, Sizes, SharedSum
<1> QED
  BY <1>1, <1>3, Sizes

LEMMA DivideStep ==
  ASSUME IInv, Divide
  PROVE  IInv'
<1>1. /\ pc = "divide" /\ pc' = "select"
      /\ UNCHANGED <<version, x, f, y, ya, w, wb, z_1, z>>
  BY DEF Divide, dealt
<1>2. PICK r0 \in AnswerMasks, r1 \in AnswerMasks :
        ans' = [p \in Proxies |-> [k \in {0, 1} |->
                  LET mask == IF k = 0 THEN r0 ELSE r1
                  IN  IF p = P1 THEN mask
                      ELSE (Formatted(Offered(k) \div N1) - mask) % RING]]
  BY DEF Divide, Answers
<1> DEFINE mask == IF f = 0 THEN r0 ELSE r1
<1>3. f \in {0, 1} /\ mask \in Ring
  BY RandomAssumption DEF IInv, InTyped
<1>4. ans'[P1][f] = mask /\ ans'[P2][f] = (Formatted(Offered(f) \div N1) - mask) % RING
  BY <1>2, <1>3, Sizes
<1>5. Offered(f) = Shared(Sign(Value))
  BY <1>1, Sizes DEF IInv, OfferedWell, Shares, Offered
<1>6. Sign(Value) \in {0, 1}
  BY <1>1, OpenFacts
<1> HIDE DEF mask
<1>7. Shares(N1, ans'[P1][f], ans'[P2][f], Formatted(Sign(Value)))
  BY <1>3, <1>4, <1>5, <1>6, AnswersShare
<1>8. Formatted(Sign(Value))' = Formatted(Sign(Value))
  BY <1>1 DEF Formatted, Sign, Value
<1>9. SelectedWell'
  BY <1>1, <1>7, <1>8 DEF SelectedWell
<1>10. InTyped'
  BY <1>1 DEF IInv, InTyped, VectorSteps, ScalarSteps
<1>11. DealtWell' /\ OpenedWell'
  BY <1>1 DEF IInv, DealtWell, OpenedWell, Low, Value
<1>12. AnsweredWell' /\ FoundWell' /\ ConvertedWell' /\ OfferedWell' /\ SharedWell'
  BY <1>1 DEF AnsweredWell, FoundWell, ConvertedWell, OfferedWell, SharedWell
<1> QED
  BY <1>9, <1>10, <1>11, <1>12 DEF IInv

LEMMA AnswerStep ==
  ASSUME IInv, Answer, ComparesMask'
  PROVE  IInv'
<1>1. /\ pc = "answer" /\ pc' = "select" /\ res' = FoundZero
      /\ UNCHANGED <<version, x, f, y, ya, w, wb, z_1, z>>
  BY DEF Answer, dealt
<1>2. PICK r0 \in AnswerMasks, r1 \in AnswerMasks :
        ans' = [p \in Proxies |-> [k \in {0, 1} |->
                  LET mask == IF k = 0 THEN r0 ELSE r1
                  IN  IF p = P1 THEN mask
                      ELSE (Formatted(Corrected(k) \div N1) - mask) % RING]]
  BY DEF Answer, Answers
<1> DEFINE mask == IF f = 0 THEN r0 ELSE r1
           e == IF w # FoundZero THEN N1 ELSE 0
<1>3. f \in {0, 1} /\ mask \in Ring
  BY RandomAssumption DEF IInv, InTyped
<1>4. ans'[P1][f] = mask /\ ans'[P2][f] = (Formatted(Corrected(f) \div N1) - mask) % RING
  BY <1>2, <1>3, Sizes
<1>5. Carries(N1, y, ya[P1], ya[P2], z, e, 0)
  <2>1. FoundZero \in {0, 1} /\ w \in {0, 1}
    BY <1>1, OpenFacts DEF FoundZero
  <2>2. (FoundZero = 1) = (y > z)
    BY <1>1 DEF ComparesMask
  <2>3. (ya[P1] + ya[P2] # y) = (w = 1)
    BY <1>1, OpenFacts, Sizes DEF Shared, Masked
  <2>4. e \in {0, N1} /\ (e # 0) = ((w = 1) # (FoundZero = 1))
    BY <2>1, Sizes
  <2> HIDE DEF e
  <2> QED
    BY <2>2, <2>3, <2>4 DEF Carries
<1>6. /\ val[P1][f] = (z_1[P1] - x[P1] - ya[P1]) % (2 * N1)
      /\ val[P2][f] = (z_1[P2] + (IF z < z_1[P2] THEN N1 ELSE 0) - x[P2] - ya[P2]) % (2 * N1)
  <2>1. /\ z_1[P1] \in 0..(N1 - 1) /\ z_1[P2] \in 0..(N1 - 1) /\ z \in 0..(N1 - 1)
        /\ ya[P1] \in 0..(N1 - 1) /\ ya[P2] \in 0..(N1 - 1)
        /\ x[P1] \in 0..(2 * N1 - 1) /\ x[P2] \in 0..(2 * N1 - 1)
    BY <1>1, OpenFacts DEF Opening, Masked, Summed
  <2>2. val[P1][f] = Candidate(P1, f) /\ val[P2][f] = Candidate(P2, f)
    BY <1>1, <1>3, Sizes DEF IInv, AnsweredWell
  <2>3. (IF f = 0 THEN f ELSE 1 - f) = 0
    BY <1>3
  <2>4. Carried(P1) = z_1[P1] /\ Carried(P2) = z_1[P2] + (IF z < z_1[P2] THEN N1 ELSE 0)
    BY <2>1, Sizes DEF Carried
  <2>5. Candidate(P1, f) = (0 - x[P1] + Carried(P1) - ya[P1]) % (2 * N1)
    BY <2>1, <2>3, <2>4, Sizes DEF Candidate
  <2>6. Candidate(P2, f) = (0 - x[P2] + Carried(P2) - ya[P2]) % (2 * N1)
    BY <2>1, <2>3, <2>4, Sizes DEF Candidate
  <2>7. 0 - x[P1] + z_1[P1] - ya[P1] = z_1[P1] - x[P1] - ya[P1]
    BY <2>1, Sizes
  <2> DEFINE carried == z_1[P2] + (IF z < z_1[P2] THEN N1 ELSE 0)
  <2>8. carried \in Int /\ Carried(P2) = carried
    BY <2>1, <2>4, Sizes
  <2> HIDE DEF carried
  <2>9. 0 - x[P2] + carried - ya[P2] = carried - x[P2] - ya[P2]
    BY <2>1, <2>8, Sizes
  <2>10. val[P1][f] = (z_1[P1] - x[P1] - ya[P1]) % (2 * N1)
    BY <2>2, <2>4, <2>5, <2>7, Zenon
  <2>11. val[P2][f] = (carried - x[P2] - ya[P2]) % (2 * N1)
    BY <2>2, <2>6, <2>8, <2>9, Zenon
  <2>12. carried - x[P2] - ya[P2]
           = z_1[P2] + (IF z < z_1[P2] THEN N1 ELSE 0) - x[P2] - ya[P2]
    BY <2>1, Sizes DEF carried
  <2> QED
    BY <2>10, <2>11, <2>12, Zenon
<1>7. Corrected(f) = (val[P1][f] + val[P2][f] - e) % (2 * N1)
  BY Sizes DEF Corrected
<1> HIDE DEF mask, e
<1>8. Corrected(f) = IF Value < N1 THEN 0 ELSE N1
  BY <1>1, <1>5, <1>6, <1>7, OpenFacts, CorrectedSum, Sizes
<1>9. Corrected(f) = Shared(Sign(Value)) /\ Sign(Value) \in {0, 1}
  BY <1>1, <1>8, OpenFacts DEF Shared
<1>10. Shares(N1, ans'[P1][f], ans'[P2][f], Formatted(Sign(Value)))
  BY <1>3, <1>4, <1>9, AnswersShare
<1>11. Formatted(Sign(Value))' = Formatted(Sign(Value))
  BY <1>1 DEF Formatted, Sign, Value
<1>12. SelectedWell'
  BY <1>1, <1>10, <1>11 DEF SelectedWell
<1>13. InTyped'
  BY <1>1 DEF IInv, InTyped, VectorSteps, ScalarSteps
<1>14. DealtWell' /\ OpenedWell'
  BY <1>1 DEF IInv, DealtWell, OpenedWell, Low, Value
<1>15. AnsweredWell' /\ FoundWell' /\ ConvertedWell' /\ OfferedWell' /\ SharedWell'
  BY <1>1 DEF AnsweredWell, FoundWell, ConvertedWell, OfferedWell, SharedWell
<1> QED
  BY <1>12, <1>13, <1>14, <1>15 DEF IInv

LEMMA SelectStep ==
  ASSUME IInv, Select
  PROVE  IInv'
<1>1. /\ pc = "select" /\ pc' = "done"
      /\ m' = [p \in Proxies |-> ans[p][f]]
      /\ UNCHANGED <<version, x, f, y, ya, w, wb, z_1, z>>
  BY DEF Select, Selected, dealt
<1>2. SharedWell'
  <2>1. m'[P1] = ans[P1][f] /\ m'[P2] = ans[P2][f]
    BY <1>1, Sizes
  <2>2. Formatted(Sign(Value))' = Formatted(Sign(Value))
    BY <1>1 DEF Formatted, Sign, Value
  <2> QED
    BY <1>1, <2>1, <2>2 DEF IInv, SelectedWell, SharedWell
<1>3. InTyped'
  BY <1>1 DEF IInv, InTyped, VectorSteps, ScalarSteps
<1>4. DealtWell' /\ OpenedWell'
  BY <1>1 DEF IInv, DealtWell, OpenedWell, Low, Value
<1>5. AnsweredWell' /\ FoundWell' /\ ConvertedWell' /\ OfferedWell' /\ SelectedWell'
  BY <1>1 DEF AnsweredWell, FoundWell, ConvertedWell, OfferedWell, SelectedWell
<1> QED
  BY <1>2, <1>3, <1>4, <1>5 DEF IInv

LEMMA InitIInv ==
  ASSUME Init
  PROVE  IInv
<1>1. pc = "deal"
  BY DEF Init
<1>2. InTyped
  BY DEF Init, InTyped, VectorSteps, ScalarSteps
<1> QED
  BY <1>1, <1>2 DEF IInv, DealtWell, OpenedWell, AnsweredWell, FoundWell,
       ConvertedWell, OfferedWell, SelectedWell, SharedWell

LEMMA NextIInv ==
  ASSUME IInv, ComparesMask, ComparesMask', [Next]_vars
  PROVE  IInv'
<1>1. CASE Deal
  BY <1>1, DealStep
<1>2. CASE Open
  BY <1>2, OpenStep
<1>3. CASE Compare \/ PCB
  BY <1>3, CompareStep
<1>4. CASE Answer
  BY <1>4, AnswerStep
<1>5. CASE Found
  BY <1>5, FoundStep
<1>6. CASE Convert
  BY <1>6, ConvertStep
<1>7. CASE Offer
  BY <1>7, OfferStep
<1>8. CASE Divide
  BY <1>8, DivideStep
<1>9. CASE Select
  BY <1>9, SelectStep
<1>10. CASE UNCHANGED vars
  BY <1>10 DEF vars, IInv, InTyped, DealtWell, OpenedWell, AnsweredWell, FoundWell,
       ConvertedWell, OfferedWell, SelectedWell, SharedWell, Low, Value, Sign,
       Candidate, Carried, Offered
<1> QED
  BY <1>1, <1>2, <1>3, <1>4, <1>5, <1>6, <1>7, <1>8, <1>9, <1>10 DEF Next, Done

-----------------------------------------------------------------------------
(* The comparison in the protocol. *)

BitsDealt ==
    /\ version = "vector" => rnd \in Int
    /\ pc # "deal" => BitShares

ComparedWell ==
    pc \in {"answer", "found"} =>
        \A t \in Bits : ((c[P1][t] + c[P2][t]) % LP = 0) = Decides(y, z, t, L1)

CInv == BitsDealt /\ ComparedWell /\ ComparesMask

LEMMA MaskAndOpened ==
  ASSUME IInv
  PROVE  /\ pc # "deal" => y \in Nat /\ y < Pow2[L1]
         /\ pc \notin {"deal", "open"} => z \in Nat /\ z < Pow2[L1]
<1>1. \A v \in Half : v \in Nat /\ v < Pow2[L1]
  <2>1. N1 \in Nat /\ N1 = Pow2[L1] /\ Half = 0..(N1 - 1)
    BY Sizes, Moduli
  <2> QED
    BY <2>1
<1>2. (pc # "deal" => y \in Half) /\ (pc \notin {"deal", "open"} => z \in Half)
  BY DEF IInv, DealtWell, OpenedWell
<1> QED
  BY <1>1, <1>2

(* The helper's answer, from what it sees at each bit.                      *)
LEMMA ZerosTell ==
  ASSUME IInv, CInv, pc \in {"answer", "found"}
  PROVE  /\ (FoundZero = 1) = (y > z)
         /\ \A t, u \in Zeros : t = u
<1>1. y \in Nat /\ z \in Nat /\ y < Pow2[L1] /\ z < Pow2[L1]
  BY MaskAndOpened
<1>2. Zeros = {t \in Bits : Decides(y, z, t, L1)}
  BY DEF CInv, ComparedWell, Zeros
<1>3. Bits = 0..(L1 - 1) /\ L1 \in Nat
  BY Moduli
<1>4. ASSUME y > z
      PROVE  Zeros # {}
  BY <1>1, <1>2, <1>3, <1>4, LargerDecided
<1>5. ASSUME NEW t \in Zeros
      PROVE  y > z
  BY <1>1, <1>2, <1>3, <1>5, DecidesLarger
<1>6. \A t, u \in Zeros : t = u
  BY <1>1, <1>2, <1>3, DecidesOnce
<1>7. FoundZero = 1 <=> Zeros # {}
  BY DEF FoundZero
<1>8. y > z <=> Zeros # {}
  BY <1>4, <1>5
<1> QED
  BY <1>1, <1>6, <1>7, <1>8

LEMMA DealBits ==
  ASSUME CInv, Deal
  PROVE  CInv'
<1>1. PICK mask \in Half,
           yb_1 \in [Bits -> IF version = "vector" THEN 0..(YbBound - 1) ELSE YbShares] :
        /\ y' = mask
        /\ yb' = [p \in Proxies |-> [t \in Bits |->
                    IF p = P1 THEN yb_1[t] ELSE OtherBit(yb_1[t], Bit(mask, t))]]
  BY DEF Deal
<1>2. pc' = "open" /\ UNCHANGED <<version, rnd>>
  BY DEF Deal
<1>3. LP \in Nat \ {0} /\ LP \in Int /\ P1 = 0 /\ P2 = 1 /\ Proxies = {0, 1} /\ Bits \subseteq Nat
  BY Moduli
<1>4. ASSUME NEW t \in Bits
      PROVE  /\ yb_1[t] \in Int /\ OtherBit(yb_1[t], Bit(mask, t)) \in Int
             /\ Congruent(yb_1[t] + OtherBit(yb_1[t], Bit(mask, t)), Bit(mask, t), LP)
  <2> DEFINE s == yb_1[t]
             b == Bit(mask, t)
  <2>1. s \in Int
    <3>1. CASE version = "vector"
      BY <3>1
    <3>2. CASE version # "vector"
      <4>1. s \in YbShares
        BY <3>2
      <4>2. s \in 0..(LP - 1)
        BY <4>1, MocAssumption, Zenon
      <4> QED
        BY <4>2
    <3> QED
      BY <3>1, <3>2
  <2>2. b \in {0, 1}
    <3>1. mask \in Nat
      BY Sizes
    <3> QED
      BY <1>3, <3>1, FromBits
  <2> HIDE DEF s, b
  <2>3. CASE version = "vector"
    <3>1. OtherBit(s, b) = LP - s + b
      BY <2>3 DEF OtherBit
    <3>2. s + (LP - s + b) = b + 1 * LP
      BY <1>3, <2>1, <2>2
    <3>3. Congruent(s + (LP - s + b), b, LP)
      BY <3>2 DEF Congruent
    <3> QED
      BY <1>3, <2>1, <2>2, <3>1, <3>3 DEF s, b
  <2>4. CASE version # "vector"
    <3> DEFINE e == b - s
               r == e % LP
    <3>1. OtherBit(s, b) = r
      BY <2>4 DEF OtherBit
    <3>2. e \in Int /\ s + e = b
      BY <2>1, <2>2
    <3> HIDE DEF e
    <3>3. Congruent(r, e, LP) /\ r \in 0..(LP - 1)
      BY <1>3, <3>2, CongruentMod, Division, Zenon
    <3> HIDE DEF r
    <3>4. r \in Int /\ Congruent(s, s, LP)
      BY <1>3, <2>1, <3>3, CongruentRefl
    <3>5. Congruent(s + r, s + e, LP)
      BY <1>3, <2>1, <3>2, <3>3, <3>4, CongruentSum
    <3> QED
      BY <2>1, <3>1, <3>2, <3>4, <3>5 DEF s, b
  <2> QED
    BY <2>3, <2>4
<1>5. BitShares'
  <2>1. yb' \in [Proxies -> [Bits -> Int]]
    BY <1>1, <1>4
  <2>2. ASSUME NEW t \in Bits
        PROVE  Congruent(yb'[P1][t] + yb'[P2][t], Bit(y', t), LP)
    <3>1. yb'[P1][t] = yb_1[t] /\ yb'[P2][t] = OtherBit(yb_1[t], Bit(mask, t))
      BY <1>1, <1>3
    <3> QED
      BY <1>1, <1>4, <3>1
  <2> QED
    BY <2>1, <2>2 DEF BitShares
<1> QED
  BY <1>2, <1>5 DEF CInv, BitsDealt, ComparedWell, ComparesMask

LEMMA CompareBits ==
  ASSUME IInv, CInv, Compare \/ PCB
  PROVE  CInv'
<1>1. /\ pc = "compare" /\ pc' \in {"answer", "found"}
      /\ UNCHANGED <<version, rnd, y, yb, z>>
  BY DEF Compare, PCB, dealt
<1>2. PICK factor \in [Bits -> 1..(LP - 1)] :
        c' = [p \in Proxies |-> [t \in Bits |-> Compared(p, t, factor[t])]]
  <2>1. CASE PCB
    BY <2>1, MocAssumption DEF PCB
  <2>2. CASE Compare
    <3> DEFINE factor == [t \in Bits |-> Factor(t)]
    <3>1. rnd \in Int
      BY <2>2 DEF Compare, CInv, BitsDealt
    <3>2. ASSUME NEW t \in Bits
          PROVE  Factor(t) \in 1..(LP - 1)
      <4> DEFINE e == rnd + 7 * (L1 - 1 - t)
                 g == e % 256
                 l == LP - 1
                 r == g % l
      <4>1. e \in Int /\ l \in Nat \ {0}
        BY <3>1, Moduli
      <4> HIDE DEF e, l
      <4>2. g \in Int
        BY <4>1
      <4> HIDE DEF g
      <4>3. r \in 0..(l - 1)
        BY <4>1, <4>2, Division, Zenon
      <4>4. Factor(t) = r + 1
        BY DEF Factor, e, g, l
      <4> HIDE DEF r
      <4> QED
        BY <4>1, <4>3, <4>4, Moduli DEF l
    <3>3. factor \in [Bits -> 1..(LP - 1)]
      BY <3>2
    <3>4. c' = [p \in Proxies |-> [t \in Bits |-> Compared(p, t, factor[t])]]
      BY <2>2 DEF Compare
    <3> HIDE DEF factor
    <3> QED
      BY <3>3, <3>4
  <2> QED
    BY <2>1, <2>2
<1>3. BitShares /\ y \in Nat /\ z \in Nat
  BY <1>1, MaskAndOpened DEF CInv, BitsDealt
<1>4. ASSUME NEW t \in Bits
      PROVE  ((c'[P1][t] + c'[P2][t]) % LP = 0) = Decides(y, z, t, L1)
  <2>1. c'[P1][t] = Compared(P1, t, factor[t]) /\ c'[P2][t] = Compared(P2, t, factor[t])
    BY <1>2, Moduli
  <2>2. factor[t] \in 1..(LP - 1)
    BY <1>2
  <2> QED
    BY <1>3, <2>1, <2>2, ComparedShares
<1>5. ComparedWell'
  BY <1>1, <1>4 DEF ComparedWell, Decides, SameFrom, Bit
<1>6. BitsDealt'
  BY <1>1 DEF CInv, BitsDealt, BitShares
<1>7. ComparesMask'
  BY <1>1 DEF ComparesMask
<1> QED
  BY <1>5, <1>6, <1>7 DEF CInv

LEMMA NextCInv ==
  ASSUME IInv, CInv, [Next]_vars
  PROVE  CInv'
<1>1. CASE Deal
  BY <1>1, DealBits
<1>2. CASE Compare \/ PCB
  BY <1>2, CompareBits
<1>3. CASE Open
  BY <1>3 DEF Open, dealt, CInv, BitsDealt, BitShares, ComparedWell, ComparesMask
<1>4. CASE Answer \/ Found
  <2>1. /\ pc \in {"answer", "found"} /\ pc' \in {"select", "convert"} /\ res' = FoundZero
        /\ UNCHANGED <<version, rnd, y, yb, z>>
    BY <1>4 DEF Answer, Found, dealt
  <2>2. (res' = 1) = (y' > z')
    BY <2>1, ZerosTell
  <2>3. ComparesMask'
    BY <2>2 DEF ComparesMask
  <2> QED
    BY <2>1, <2>3 DEF CInv, BitsDealt, BitShares, ComparedWell
<1>5. CASE Convert \/ Offer \/ Divide \/ Select
  <2>1. /\ pc \in {"convert", "offer", "divide", "select"}
        /\ pc' \in {"offer", "divide", "select", "done"}
        /\ UNCHANGED <<version, rnd, y, yb, z, res>>
    BY <1>5 DEF Convert, Offer, Divide, Select, dealt
  <2> QED
    BY <2>1 DEF CInv, BitsDealt, BitShares, ComparedWell, ComparesMask
<1>6. CASE UNCHANGED vars
  BY <1>6 DEF vars, CInv, BitsDealt, BitShares, ComparedWell, ComparesMask
<1> QED
  BY <1>1, <1>2, <1>3, <1>4, <1>5, <1>6 DEF Next, Done

(* The two invariants hold together: what the comparison finds is what the  *)
(* carries of MOC and MSB rest on.                                          *)
LEMMA Invariance == Spec => [](IInv /\ CInv)
<1>1. Init => IInv /\ CInv
  <2>1. Init => CInv
    <3> SUFFICES ASSUME Init
                 PROVE  CInv
      OBVIOUS
    <3>1. pc = "deal"
      BY DEF Init
    <3>2. version = "vector" => rnd \in Int
      <4>1. version = "vector" => rnd \in Seeds
        BY DEF Init
      <4>2. version = "vector" => rnd \in 0..255
        BY <4>1, SeedsAssumption, Zenon
      <4> QED
        BY <4>2
    <3> QED
      BY <3>1, <3>2 DEF CInv, BitsDealt, ComparedWell, ComparesMask
  <2> QED
    BY <2>1, InitIInv
<1>2. IInv /\ CInv /\ [Next]_vars => (IInv /\ CInv)'
  <2> SUFFICES ASSUME IInv, CInv, [Next]_vars
               PROVE  IInv' /\ CInv'
    OBVIOUS
  <2>1. CInv'
    BY NextCInv
  <2>2. ComparesMask /\ ComparesMask'
    BY <2>1 DEF CInv
  <2> QED
    BY <2>1, <2>2, NextIInv
<1> QED
  BY <1>1, <1>2, PTL DEF Spec

-----------------------------------------------------------------------------
(* The theorems. *)

(* The masked comparison: in every ring, for every mask, share and blinding *)
(* factor, the helper finds a zero just when the mask is above the opened   *)
(* value.                                                                   *)
THEOREM ComparisonCorrect == Spec => []ComparesMask
<1>1. CInv => ComparesMask
  BY DEF CInv
<1> QED
  BY <1>1, Invariance, PTL

(* It finds one zero at most: the early break of the helper's loop loses    *)
(* none.                                                                    *)
THEOREM AtMostOneZero == Spec => []OneZero
<1>1. ASSUME IInv, CInv
      PROVE  OneZero
  <2> SUFFICES ASSUME pc \in {"answer", "found"}
               PROVE  Cardinality(Zeros) <= 1
    BY DEF OneZero
  <2>1. \A t, u \in Zeros : t = u
    BY <1>1, ZerosTell
  <2>2. CASE Zeros = {}
    BY <2>2, FS_EmptySet
  <2>3. CASE Zeros # {}
    <3>1. PICK t \in Zeros : TRUE
      BY <2>3
    <3>2. Zeros = {t}
      BY <2>1, <3>1
    <3> QED
      BY <3>2, FS_Singleton
  <2> QED
    BY <2>2, <2>3
<1> QED
  BY <1>1, Invariance, PTL

(* MOC: the shares it makes of the low bits of x are right in every ring,   *)
(* whatever was drawn.                                                      *)
THEOREM MocCorrect == Spec => []MocConverts
<1>1. IInv => MocConverts
  BY Sizes DEF IInv, ConvertedWell, MocConverts, Shares, Low
<1> QED
  BY <1>1, Invariance, PTL

(* MSB and CMP: both versions end with shares of the sign bit of x, and     *)
(* CMP's with shares of the opposite, in every ring and for every mask,     *)
(* share, blinding factor and choice of f.                                  *)
THEOREM MsbCorrect == Spec => []SignIsShared
<1>1. ASSUME IInv
      PROVE  SignIsShared
  <2> SUFFICES ASSUME pc = "done"
               PROVE  /\ (m[P1] + m[P2]) % RING = Formatted(Sign(Value))
                      /\ (CMP(P1) + CMP(P2)) % RING = Formatted(1 - Sign(Value))
    BY DEF SignIsShared
  <2>1. /\ m[P1] \in 0..(2 * N1 - 1) /\ m[P2] \in 0..(2 * N1 - 1)
        /\ (m[P1] + m[P2]) % (2 * N1) = Formatted(Sign(Value))
    BY <1>1 DEF IInv, SharedWell, Shares
  <2>2. Sign(Value) \in {0, 1}
    BY <1>1, OpenFacts
  <2>3. /\ Formatted(Sign(Value)) \in {0, One}
        /\ One - Formatted(Sign(Value)) = Formatted(1 - Sign(Value))
    BY <2>2, Sizes DEF Formatted
  <2>4. CMP(P1) = (0 - m[P1]) % (2 * N1) /\ CMP(P2) = (One - m[P2]) % (2 * N1)
    BY <2>1, Sizes DEF CMP
  <2> DEFINE n == 2 * N1
             s == Formatted(Sign(Value))
             one == One
  <2>5. n \in Nat \ {0} /\ one \in 1..(n - 1) /\ s \in {0, one}
    BY <2>3, Sizes
  <2>6. m[P1] \in 0..(n - 1) /\ m[P2] \in 0..(n - 1) /\ (m[P1] + m[P2]) % n = s
    BY <2>1
  <2>7. CMP(P1) = (0 - m[P1]) % n /\ CMP(P2) = (one - m[P2]) % n
    BY <2>4
  <2> HIDE DEF n, s, one
  <2>8. (((0 - m[P1]) % n) + ((one - m[P2]) % n)) % n = one - s
    BY <2>5, <2>6, ComparedSum
  <2> QED
    BY <2>1, <2>3, <2>7, <2>8, Sizes DEF n, s, one
<1> QED
  BY <1>1, Invariance, PTL
=============================================================================
