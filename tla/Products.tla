------------------------------ MODULE Products ------------------------------
(***************************************************************************)
(* MUX, and MUL by a multiplication triple (src/core/core.h), on the shares *)
(* of one element: masks, what the helper computes, and the division by     *)
(* 2^FRAC that either proxy does on its own share of the product.  MUX      *)
(* divides by a logical shift, MUL by an arithmetic one, and the second     *)
(* proxy does either on its negated share.  Modules Sort and Curve use both *)
(* operations by what they return; this one shows what that is.  NORM, the   *)
(* division bit by bit, is built of MSB (module Msb) and of MUL, whose       *)
(* product is a fresh sharing that each proxy then truncates.                *)
(***************************************************************************)
EXTENDS Binary

CONSTANTS
    W,          \* bits of a ring element (L_BIT in the code)
    FRAC,       \* fractional bits
    Operands,   \* signed values of x and y, and of MUL's factors
    Ratios,     \* numerators x and denominators y of NORM
    Shares,     \* shares of P1
    Masks       \* values of the common stream and of the helper's triple

ASSUME WAssumption == W \in Nat \ {0}
ASSUME FRACAssumption == FRAC \in 0..(W - 1)

RING == Pow2[W]
Ring == 0..(RING - 1)
HALF == RING \div 2
One == Pow2[FRAC]

ASSUME OperandsAssumption == Operands \subseteq (-HALF)..(HALF - 1)
ASSUME RatiosAssumption ==
    \A q \in Ratios :
        q.y \in Nat /\ q.x \in 0..q.y /\ One * q.y < HALF /\ q.y % One = 0
ASSUME RandomAssumption == Shares \subseteq Ring /\ Masks \subseteq Ring

P1 == 0
P2 == 1
Proxies == {P1, P2}

VARIABLES
    op,     \* MUX, MUL or NORM
    value,  \* value[v]: what the operands are: x, y, and the bit; or two factors
    share,  \* share[p][v]: p's share of them
    r,      \* MUX: the four common masks
    mt,     \* MUL: mt[p]: p's shares of the triple
    sent,   \* sent[p]: what p has sent: to the helper, or of e and f to the other
    prod,   \* prod[p]: p's share of the product
    res,    \* res[p]: p's share of the result (div in NORM)
    round,  \* NORM: rounds done
    u,      \* NORM: u[p]: share of what has been taken off the numerator
    apart,  \* NORM: the shares of a number it truncated crossed
    pc

norm == <<round, u, apart>>
vars == <<op, value, share, r, mt, sent, prod, res, norm, pc>>

Mod(v) == v % RING
Signed(v) == IF v >= HALF THEN v - RING ELSE v
Total(f) == Mod(f[P1] + f[P2])
Split(v, s) == [p \in Proxies |-> IF p = P1 THEN s ELSE Mod(v - s)]

Init ==
    /\ op \in {"MUX", "MUL", "NORM"}
    /\ IF op = "NORM"
       THEN value \in {[x |-> q.x, y |-> q.y, b |-> 0] : q \in Ratios}
       ELSE value \in [x : Operands, y : Operands,
                       b : IF op = "MUX" THEN {0, One} ELSE {0}]
    /\ \E s \in [x : Shares, y : Shares, b : Shares] :
          share = [p \in Proxies |-> [x |-> Split(value.x, s.x)[p],
                                      y |-> Split(value.y, s.y)[p],
                                      b |-> Split(value.b, s.b)[p]]]
    /\ r \in [1..4 -> IF op = "MUX" THEN Masks ELSE {0}]
    /\ mt = [p \in Proxies |-> [k \in 0..2 |-> 0]]
    /\ sent = [p \in Proxies |-> <<0, 0>>]
    /\ prod = [p \in Proxies |-> 0]
    /\ res = [p \in Proxies |-> 0]
    /\ round = 0
    /\ u = [p \in Proxies |-> 0]
    /\ apart = FALSE
    /\ pc = "start"

-----------------------------------------------------------------------------
(* Truncation of one share. *)

LogicalShift(v) == v \div One
AS(v, bits) == Mod(Signed(v) \div Pow2[bits])

MutantDivided(p, v) == LogicalShift(v)
Divided(p, v) ==
    IF p = P1 THEN LogicalShift(v) ELSE Mod(-LogicalShift(Mod(-v)))

MutantTruncate(p, v, bits) == AS(v, bits)
Truncate(p, v, bits) ==
    IF p = P1 THEN AS(v, bits) ELSE Mod(-AS(Mod(-v), bits))

-----------------------------------------------------------------------------
(* MUX: x - b * (x - y), of which each proxy has the products of its own    *)
(* shares and the helper gets the others under masks.                       *)

Diff(p) == Mod(share[p].x - share[p].y)

Own(p) ==
    LET b == share[p].b
    IN  Mod(IF p = P1 THEN b * Diff(p) - r[2] * b - r[3] * Diff(p) - r[3] * r[4]
                      ELSE b * Diff(p) - r[1] * Diff(p) - r[1] * r[2] - r[4] * b)

(* P1 sends its bit first, P2 its difference. *)
Masked(p) ==
    IF p = P1 THEN <<Mod(share[p].b + r[1]), Mod(Diff(p) + r[4])>>
              ELSE <<Mod(Diff(p) + r[2]), Mod(share[p].b + r[3])>>

Mask ==
    /\ op = "MUX" /\ pc = "start"
    /\ prod' = [p \in Proxies |-> Own(p)]
    /\ sent' = [p \in Proxies |-> Masked(p)]
    /\ pc' = "serve"
    /\ UNCHANGED <<norm, op, value, share, r, mt, res>>

(* The helper multiplies what it got and shares the sum out again. *)
Serve ==
    /\ pc = "serve"
    /\ \E s \in Ring :
          LET m    == Mod(sent[P1][1] * sent[P2][1] + sent[P1][2] * sent[P2][2])
              back == Split(m, s)
          IN  prod' = [p \in Proxies |-> Mod(prod[p] + back[p])]
    /\ pc' = "select"
    /\ UNCHANGED <<norm, op, value, share, r, mt, sent, res>>

Select ==
    /\ pc = "select"
    /\ res' = [p \in Proxies |-> Mod(share[p].x - Divided(p, prod[p]))]
    /\ pc' = "done"
    /\ UNCHANGED <<norm, op, value, share, r, mt, sent, prod>>

-----------------------------------------------------------------------------
(* MUL: the product of x and y by a triple of the helper. *)

Deal ==
    /\ op = "MUL" /\ pc = "start"
    /\ \E a, b, a1, b1 \in Masks, c1 \in Ring :
          mt' = [p \in Proxies |->
                    [k \in 0..2 |-> CASE k = 0 -> Split(a, a1)[p]
                                      [] k = 1 -> Split(b, b1)[p]
                                      [] k = 2 -> Split(Mod(a * b), c1)[p]]]
    /\ pc' = "open"
    /\ UNCHANGED <<norm, op, value, share, r, sent, prod, res>>

(* REC of e and f. *)
Open ==
    /\ pc = "open"
    /\ sent' = [p \in Proxies |-> <<Mod(share[p].x - mt[p][0]),
                                    Mod(share[p].y - mt[p][1])>>]
    /\ pc' = "multiply"
    /\ UNCHANGED <<norm, op, value, share, r, mt, prod, res>>

Product(p, e, f) == Mod(p * e * f + f * mt[p][0] + e * mt[p][1] + mt[p][2])

Multiply ==
    /\ pc = "multiply"
    /\ LET e == Mod(sent[P1][1] + sent[P2][1])
           f == Mod(sent[P1][2] + sent[P2][2])
       IN  /\ prod' = [p \in Proxies |-> Product(p, e, f)]
           /\ res' = [p \in Proxies |-> Truncate(p, Product(p, e, f), FRAC)]
    /\ pc' = "done"
    /\ UNCHANGED <<norm, op, value, share, r, mt, sent>>

-----------------------------------------------------------------------------
(* NORM: the bits of x / y after the point, from the first one down.        *)

(* The two shares of a number, one of them negated, cross when they are not *)
(* that number apart.                                                       *)
Cross(f, number) == Signed(f[P1]) - Signed(Mod(-f[P2])) # number

(* What is left of the numerator, one bit further, less the denominator.    *)
MutantRemainder(p, i) == Mod((share[p].x - u[p]) * 2 - share[p].y)
Remainder(p, i) == Mod((share[p].x - u[p]) * Pow2[i] - share[p].y)

(* The bit is one when that is not negative; then it counts in the result,  *)
(* and the denominator, shifted as far down, comes off the numerator.       *)
Round ==
    /\ op = "NORM" /\ pc = "start" /\ round < FRAC
    /\ LET i    == round + 1
           z    == [p \in Proxies |-> Remainder(p, i)]
           take == [p \in Proxies |-> Truncate(p, share[p].y, i)]
           keep == IF Total(z) >= HALF THEN 0 ELSE One
           gain == keep * Pow2[FRAC - i]
           cost == Mod(keep * Total(take))
       IN  \E s, t \in Masks :
              /\ res' = [p \in Proxies |->
                            Mod(res[p] + Truncate(p, Split(gain, s)[p], FRAC))]
              /\ u' = [p \in Proxies |->
                          Mod(u[p] + Truncate(p, Split(cost, t)[p], FRAC))]
              /\ apart' = (apart \/ Cross([p \in Proxies |-> share[p].y], value.y)
                               \/ Cross(Split(gain, s), gain)
                               \/ Cross(Split(cost, t), cost))
    /\ round' = round + 1
    /\ UNCHANGED <<op, value, share, r, mt, sent, prod, pc>>

Return ==
    /\ op = "NORM" /\ pc = "start" /\ round = FRAC
    /\ pc' = "done"
    /\ UNCHANGED <<norm, op, value, share, r, mt, sent, prod, res>>

Done == pc = "done" /\ UNCHANGED vars

Next == Mask \/ Serve \/ Select \/ Deal \/ Open \/ Multiply
            \/ Round \/ Return \/ Done
Spec == Init /\ [][Next]_vars

-----------------------------------------------------------------------------
(* Properties. *)

(* The product before it is divided, as a number. *)
Exact ==
    IF op = "MUX" THEN value.b * (value.x - value.y) ELSE value.x * value.y

Finished(o) == pc = "done" /\ op = o

(* How many times the shares of MUX's product wrapped around the ring.      *)
Wraps == (prod[P1] - Mod(-prod[P2]) - Exact) \div RING

(* A MUX that keeps x returns x, whatever the shares are: the two divisions *)
(* of opposite shares cancel exactly.  One that takes y returns y without   *)
(* any rounding, unless its shares wrapped; then it is off by the ring      *)
(* divided by 2^FRAC for each time they did, which they do once, up or down, *)
(* when x and y are less than that far apart.                               *)
MuxSelects ==
    Finished("MUX") =>
        /\ value.b = 0 => Total(res) = Mod(value.x)
        /\ value.b = One => Total(res) = Mod(value.y - Wraps * (RING \div One))
        /\ One * (value.x - value.y) \in (1 - RING)..(RING - 1) => Wraps \in -1..1

(* MUL's shares add up to the product, and truncated to that product        *)
(* rounded down or one unit more, and a whole product exactly, unless they  *)
(* crossed.                                                                 *)
MulRounds ==
    Finished("MUL") =>
        /\ Total(prod) = Mod(Exact)
        /\ ~Cross(prod, Exact) =>
              IF Exact % One = 0 THEN Total(res) = Mod(Exact \div One)
              ELSE Total(res) \in {Mod(Exact \div One), Mod(Exact \div One + 1)}

(* NORM of a numerator not above a whole denominator returns the quotient   *)
(* rounded down, though each proxy truncates shares of the denominator and  *)
(* of both products on its own in every round, unless one of them crossed.  *)
(* There is no bit for a whole: a quotient of one, and zero over zero, come  *)
(* out as the greatest fraction.                                            *)
NormDivides ==
    Finished("NORM") /\ ~apart =>
        Total(res) = IF value.x = value.y THEN One - 1
                   ELSE (value.x * One) \div value.y
=============================================================================
