-------------------------------- MODULE Msb --------------------------------
(***************************************************************************)
(* MSB (src/core/core.h): the shared sign bit of a shared ring element.     *)
(* The helper deals a mask y, in shares and bit by bit; the proxies open    *)
(* z = x + y modulo N1 and compare z with y under a blinding factor per     *)
(* bit.  The two versions go on differently.  The vector's proxies send two *)
(* candidates that differ in the bit f they agreed on, along with the       *)
(* comparison (MSB_SUB); the helper corrects both by the carries it learns  *)
(* and answers both.  The scalar's learn shares of the comparison (PCB),    *)
(* convert the low bits of x to the full ring (MOC), take them off x, and   *)
(* have the helper divide what is left.                                     *)
(* Elements of a vector are independent, so the module follows one, with    *)
(* the seed MSB_SUB may have reached at it; a command for MOC alone is the  *)
(* scalar version up to Convert.  Messages are those of module Session;     *)
(* here they carry values.                                                  *)
(***************************************************************************)
EXTENDS Binary, FiniteSets

CONSTANTS
    L1,         \* bits of a mask (L_BIT - 1 in the code)
    N1,         \* half the size of the ring (2^63 in the code)
    LP,         \* modulus of the bit shares (67 in the code)
    YbBound,    \* vector: bit shares of P1 are below this (0x3f in the code)
    YbShares,   \* MOC: bit shares of P1
    One,        \* the fixed-point number 1 (1 << FRAC)
    XShares,    \* shares of x that P1 may hold
    AnswerMasks,\* the helper's random shares of the answers
    Seeds,      \* seeds of MSB_SUB's blinding factors
    FactorRows  \* blinding factors PCB may draw, one per bit

ASSUME L1Assumption == L1 \in Nat \ {0}
ASSUME LPAssumption ==
    /\ LP \in Nat /\ LP > L1 + 1
    /\ \A a, b \in 1..(LP - 1) : (a * b) % LP # 0    \* LP is prime
ASSUME YbAssumption == YbBound \in 1..LP
ASSUME N1Assumption == N1 \in Nat \ {0} /\ N1 = Pow2[L1]
ASSUME OneAssumption == One \in 1..N1

RING == 2 * N1
Ring == 0..(RING - 1)
Half == 0..(N1 - 1)
Bits == 0..(L1 - 1)

P1 == 0
P2 == 1
Proxies == {P1, P2}

ASSUME RandomAssumption == XShares \subseteq Ring /\ AnswerMasks \subseteq Ring
ASSUME SeedsAssumption == Seeds \subseteq 0..255
ASSUME MocAssumption ==
    YbShares \subseteq 0..(LP - 1) /\ FactorRows \subseteq [Bits -> 1..(LP - 1)]

VARIABLES
    version,\* vector or scalar
    pc,     \* step of the protocol
    x,      \* x[p]: share of the element
    f,      \* the bit both proxies drew
    rnd,    \* vector: the seed both proxies drew
    y,      \* the helper's mask
    ya,     \* ya[p]: share of y modulo N1
    yb,     \* yb[p][t]: share of bit t of y modulo LP
    w,      \* the shares of y wrap around N1
    wb,     \* MOC: wb[p]: share of w by exclusive or
    z_1,    \* z_1[p]: share of x + y modulo N1
    z,      \* x + y modulo N1
    c,      \* c[p][t]: share of the comparison at bit t
    res,    \* the helper saw a zero among the comparisons
    wc,     \* PCB: wc[p]: share of res by exclusive or
    d,      \* MOC: d[p]: share of the low bits of x, modulo RING
    val,    \* val[p][k]: share of candidate k
    ans,    \* ans[p][k]: share of the answer for candidate k
    m       \* m[p]: share of the result

vars == <<version, pc, x, f, rnd, y, ya, yb, w, wb, z_1, z, c, res, wc, d, val,
          ans, m>>
dealt == <<version, x, y, ya, yb, w, wb>>

(* Bit t of v, and the sign bit of a ring element. *)
Bit(v, t) == (v \div Pow2[t]) % 2
Sign(v) == v \div N1
Value == (x[P1] + x[P2]) % RING

-----------------------------------------------------------------------------
Init ==
    /\ x \in [Proxies -> Ring]
    /\ x[P1] \in XShares
    /\ \/ version = "vector" /\ f \in {0, 1} /\ rnd \in Seeds
       \/ version = "scalar" /\ f = 0 /\ rnd = 0
    /\ pc = "deal"
    /\ y = 0 /\ w = 0 /\ z = 0 /\ res = 0
    /\ ya = [p \in Proxies |-> 0]
    /\ z_1 = [p \in Proxies |-> 0]
    /\ m = [p \in Proxies |-> 0]
    /\ wb = [p \in Proxies |-> 0]
    /\ wc = [p \in Proxies |-> 0]
    /\ d = [p \in Proxies |-> 0]
    /\ yb = [p \in Proxies |-> [t \in Bits |-> 0]]
    /\ c = [p \in Proxies |-> [t \in Bits |-> 0]]
    /\ val = [p \in Proxies |-> [k \in {0, 1} |-> 0]]
    /\ ans = [p \in Proxies |-> [k \in {0, 1} |-> 0]]

(* The shares of y wrap when y is below P1's. *)
Wraps(v, share) == IF v < share THEN 1 ELSE 0

(* P2's share of a bit, when P1's is yb_1. *)
OtherBit(yb_1, bit) ==
    IF version = "vector" THEN LP - yb_1 + bit ELSE (bit - yb_1) % LP

(* Two shares of a bit by exclusive or. *)
Coins(bit, coin) ==
    [p \in Proxies |-> IF p = P1 THEN coin ELSE (bit + coin) % 2]

(* The helper deals shares of a random y modulo N1 and of its bits; MOC's   *)
(* also of the wrap, which the vector's helper keeps to itself.             *)
Deal ==
    /\ pc = "deal"
    /\ \E mask \in Half, ya_1 \in Half,
          yb_1 \in [Bits -> IF version = "vector" THEN 0..(YbBound - 1) ELSE YbShares] :
          /\ y' = mask
          /\ ya' = [p \in Proxies |-> IF p = P1 THEN ya_1 ELSE (mask - ya_1) % N1]
          /\ yb' = [p \in Proxies |-> [t \in Bits |->
                       IF p = P1 THEN yb_1[t] ELSE OtherBit(yb_1[t], Bit(mask, t))]]
          /\ w' = Wraps(mask, ya_1)
          /\ IF version = "vector" THEN UNCHANGED wb
             ELSE \E coin \in {0, 1} : wb' = Coins(Wraps(mask, ya_1), coin)
    /\ pc' = "open"
    /\ UNCHANGED <<version, x, f, rnd, z_1, z, c, res, wc, d, val, ans, m>>

(* REC of z_1 modulo N1. *)
Open ==
    /\ pc = "open"
    /\ z_1' = [p \in Proxies |-> ((x[p] % N1) + ya[p]) % N1]
    /\ z' = (z_1'[P1] + z_1'[P2]) % N1
    /\ pc' = "compare"
    /\ UNCHANGED <<dealt, f, rnd, c, res, wc, d, val, ans, m>>

-----------------------------------------------------------------------------
(* The comparison of y with z, bit by bit. *)

(* Share of the exclusive or of bit t of y with bit t of z. *)
MutantDiffer(p, t) == (yb[p][t] + p * Bit(z, t)) % LP
Differ(p, t) == (yb[p][t] + p * Bit(z, t) - 2 * Bit(z, t) * yb[p][t]) % LP

(* w_sum: share of the number of bits above t that differ. *)
Above(p, t) ==
    LET sum[k \in Bits] ==
            IF k = L1 - 1 THEN 0 ELSE (sum[k + 1] + Differ(p, k + 1)) % LP
    IN  sum[t]

(* The comparison at bit t is zero when bit t is set in y, clear in z, and  *)
(* no higher bit differs; a factor that is not zero hides the rest.         *)
Compared(p, t, factor) ==
    (((p * Bit(z, t) - yb[p][t] + p + Above(p, t)) % LP) * factor) % LP

(* The helper's side: is y above z? *)
Zeros == {t \in Bits : (c[P1][t] + c[P2][t]) % LP = 0}
FoundZero == IF Zeros = {} THEN 0 ELSE 1

-----------------------------------------------------------------------------
(* The vector version: MSB_SUB and the helper's answer to it. *)

(* The seed grows by 7 from bit to bit, from the highest one down, in eight *)
(* bits.  The factor is never zero.                                         *)
MutantFactor(t) == ((rnd + 7 * (L1 - 1 - t)) % 256) % LP
Factor(t) == (((rnd + 7 * (L1 - 1 - t)) % 256) % (LP - 1)) + 1

(* z_1 with the carry of the opening, which only P2 adds. *)
MutantCarried(p) == z_1[p]
Carried(p) == z_1[p] + p * (IF z < z_1[p] THEN 1 ELSE 0) * N1

(* Candidate 0 has f added to the sign, candidate 1 the opposite of f. *)
Candidate(p, k) ==
    LET bit == IF k = 0 THEN f ELSE 1 - f
    IN  (p * bit * N1 - x[p] + Carried(p) - ya[p]) % RING

Compare ==
    /\ version = "vector" /\ pc = "compare"
    /\ c' = [p \in Proxies |-> [t \in Bits |-> Compared(p, t, Factor(t))]]
    /\ val' = [p \in Proxies |-> [k \in {0, 1} |-> Candidate(p, k)]]
    /\ pc' = "answer"
    /\ UNCHANGED <<dealt, f, rnd, z_1, z, res, wc, d, ans, m>>

(* The candidate without the carries: (w ^ res) * N1 is taken off. *)
Corrected(k) ==
    (val[P1][k] + val[P2][k] - (IF w # FoundZero THEN N1 ELSE 0)) % RING

(* format: the bit becomes the fixed-point number 0 or 1. *)
Formatted(bit) == IF bit = 1 THEN One ELSE 0

(* Shares of the bits of both candidates: a function of their numbers.      *)
Answers(cand) ==
    \E r0, r1 \in AnswerMasks :
        ans' = [p \in Proxies |-> [k \in {0, 1} |->
                   LET mask == IF k = 0 THEN r0 ELSE r1
                   IN  IF p = P1 THEN mask
                       ELSE (Formatted(cand[k] \div N1) - mask) % RING]]

Answer ==
    /\ version = "vector" /\ pc = "answer"
    /\ res' = FoundZero
    /\ Answers([k \in {0, 1} |-> Corrected(k)])
    /\ pc' = "select"
    /\ UNCHANGED <<dealt, f, rnd, z_1, z, c, wc, d, val, m>>

-----------------------------------------------------------------------------
(* The scalar version: PCB, the end of MOC, and MSB's candidates. *)

(* The factors are drawn one by one; the common swaps of the bits change    *)
(* nothing in what the helper looks for.                                    *)
PCB ==
    /\ version = "scalar" /\ pc = "compare"
    /\ \E factor \in FactorRows :
          c' = [p \in Proxies |-> [t \in Bits |-> Compared(p, t, factor[t])]]
    /\ pc' = "found"
    /\ UNCHANGED <<dealt, f, rnd, z_1, z, res, wc, d, val, ans, m>>

Found ==
    /\ pc = "found"
    /\ res' = FoundZero
    /\ \E coin \in {0, 1} : wc' = Coins(FoundZero, coin)
    /\ pc' = "convert"
    /\ UNCHANGED <<dealt, f, rnd, z_1, z, c, d, val, ans, m>>

(* P1 adds the carry of the opening; each proxy takes off its share of y    *)
(* and of the wrap, whose two shares may add up to two: N1 twice is nothing.*)
MutantConverted(p) ==
    (z_1[p] + (IF p = P1 /\ z < z_1[p] THEN N1 ELSE 0)
        - (ya[p] + wb[p] * N1)) % RING
Converted(p) ==
    (z_1[p] + (IF p = P1 /\ z < z_1[p] THEN N1 ELSE 0)
        - (ya[p] + ((wb[p] + wc[p]) % 2) * N1)) % RING

Convert ==
    /\ pc = "convert"
    /\ d' = [p \in Proxies |-> Converted(p)]
    /\ pc' = "offer"
    /\ UNCHANGED <<dealt, f, rnd, z_1, z, c, res, wc, val, ans, m>>

(* What is left of x is its sign bit; P1 flips it in the candidate that is  *)
(* not at the common bit.                                                   *)
Offer ==
    /\ pc = "offer"
    /\ \E bit \in {0, 1} :
          /\ f' = bit
          /\ val' = [p \in Proxies |-> [k \in {0, 1} |->
                        (x[p] - d[p] + (IF p = P1 /\ k # bit THEN N1 ELSE 0)) % RING]]
    /\ pc' = "divide"
    /\ UNCHANGED <<dealt, rnd, z_1, z, c, res, wc, d, ans, m>>

Offered(k) == (val[P1][k] + val[P2][k]) % RING
Divide ==
    /\ pc = "divide"
    /\ Answers([k \in {0, 1} |-> Offered(k)])
    /\ pc' = "select"
    /\ UNCHANGED <<dealt, f, rnd, z_1, z, c, res, wc, d, val, m>>

-----------------------------------------------------------------------------
(* m = val[f] *)
Selected(p) == ans[p][f]
Select ==
    /\ pc = "select"
    /\ m' = [p \in Proxies |-> Selected(p)]
    /\ pc' = "done"
    /\ UNCHANGED <<dealt, f, rnd, z_1, z, c, res, wc, d, val, ans>>

(* The comparison of two numbers is one minus the sign of their difference; *)
(* of the one only P2 has a share.                                          *)
CMP(p) == ((IF p = P1 THEN 0 ELSE One) - m[p]) % RING

Done == pc = "done" /\ UNCHANGED vars

Next ==
    \/ Deal \/ Open \/ Select \/ Done
    \/ Compare \/ Answer
    \/ PCB \/ Found \/ Convert \/ Offer \/ Divide
Spec == Init /\ [][Next]_vars

-----------------------------------------------------------------------------
(* Properties. *)

(* The shares the proxies end with add up to the sign of x, as a            *)
(* fixed-point 0 or 1, for every mask, share, factor and choice of f, in    *)
(* both versions; and CMP's shares to the opposite.                         *)
SignIsShared ==
    pc = "done" =>
        /\ (m[P1] + m[P2]) % RING = Formatted(Sign(Value))
        /\ (CMP(P1) + CMP(P2)) % RING = Formatted(1 - Sign(Value))

(* The masked comparison tells exactly whether y is above the opened z,     *)
(* that is, whether adding the mask to x's low bits wrapped.                *)
ComparesMask ==
    pc \in {"convert", "offer", "divide", "select", "done"} => (res = 1) = (y > z)

(* At most one bit position reconstructs to zero, and no blinding factor    *)
(* makes a further one: the helper's early break loses nothing.             *)
OneZero == pc \in {"answer", "found"} => Cardinality(Zeros) <= 1

(* MOC: two shares of the low bits of x in the half ring become two shares  *)
(* of the same number in the full ring, whichever of the three additions    *)
(* (of y's shares, of the mask, of the opened shares) wrapped around N1.    *)
MocConverts ==
    pc \in {"offer", "divide"} => (d[P1] + d[P2]) % RING = Value % N1
=============================================================================
