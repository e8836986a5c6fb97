------------------------------- MODULE Curve -------------------------------
(***************************************************************************)
(* The three metrics of src/core/auc.h over the sorted list: ROCNOTIE,      *)
(* ROCWITHTIE and PRCURVE, as the values the proxies' shares reconstruct    *)
(* to.  Labels and counts are fixed-point integers, so their products lose  *)
(* nothing to the truncation of MUL and the module counts in whole units;   *)
(* precisions are in units of 2^-FRAC.  MUL, MUX and MRound are used by     *)
(* what they return; NORM is modelled bit by bit.                           *)
(***************************************************************************)
EXTENDS Binary, FiniteSets, FiniteSetsExt

CONSTANTS
    Size,       \* samples of the list
    Values,     \* predictions that occur
    FRAC,       \* fractional bits
    RING,       \* size of the ring of predictions
    Scalars     \* values of generateCommonRandom() & MAXSCALAR

ASSUME SizeAssumption == Size \in Nat \ {0}
ASSUME FRACAssumption == FRAC \in Nat \ {0}
ASSUME RINGAssumption == RING \in Nat \ {0} /\ Values \subseteq 0..((RING \div 2) - 1)
ASSUME ScalarsAssumption == Scalars \subseteq Nat

Metrics == {"ROCNOTIE", "ROCWITHTIE", "PRCURVE"}
Index == 1..Size
One == Pow2[FRAC]

VARIABLES
    metric,     \* the metric that was asked for
    val,        \* predictions, descending
    label,      \* labels
    scalar,     \* the common factor of each sample
    conf,       \* conf[k]: 1 when sample k ends a group of equal predictions
    precs,      \* precs[k]: precision after k samples
    i,          \* samples processed
    TP,         \* true positives so far
    pre_FP, pre_TP,         \* counts at the last threshold
    pre_prec,               \* precision there
    numerator, numerator2,  \* the area's rectangles and triangles
    auc,        \* the result
    pc

input == <<metric, val, label, scalar>>
loop == <<i, TP, pre_FP, pre_TP, pre_prec, numerator, numerator2>>
vars == <<input, conf, precs, loop, auc, pc>>

Init ==
    /\ metric \in Metrics
    /\ val \in {v \in [Index -> Values] : \A a, b \in Index : a <= b => v[a] >= v[b]}
    /\ label \in [Index -> {0, 1}]
    /\ scalar \in [Index -> Scalars]
    /\ conf = [k \in Index |-> 0]
    /\ precs = [k \in Index |-> 0]
    /\ i = 0 /\ TP = 0 /\ pre_FP = 0 /\ pre_TP = 0
    /\ pre_prec = One       \* 0.5 in the share of either proxy
    /\ numerator = 0 /\ numerator2 = 0
    /\ auc = 0
    /\ pc = IF metric = "ROCNOTIE" THEN "loop" ELSE "group"

-----------------------------------------------------------------------------
(* NORM: the binary fraction a / b, one bit per round.  Both operands have  *)
(* FRAC fractional bits.                                                    *)
MutantNormRound(a, b, s, k) ==
    IF (a - s.u) * Pow2[k] > b
    THEN [u |-> s.u + (b \div Pow2[k]), div |-> s.div + Pow2[FRAC - k]]
    ELSE s
NormRound(a, b, s, k) ==
    IF (a - s.u) * Pow2[k] >= b
    THEN [u |-> s.u + (b \div Pow2[k]), div |-> s.div + Pow2[FRAC - k]]
    ELSE s
NORM(a, b) ==
    LET round[k \in 0..FRAC] ==
            IF k = 0 THEN [u |-> 0, div |-> 0] ELSE NormRound(a, b, round[k - 1], k)
    IN  round[FRAC].div

-----------------------------------------------------------------------------
(* MRound over the blinded differences of neighbours: zero stays zero, all  *)
(* else becomes one.  The last sample has the constant 2 from both proxies. *)
Difference(k) == IF k = Size THEN 4 * One ELSE val[k] - val[k + 1]
Grouped(k) == IF (Difference(k) * scalar[k]) % RING = 0 THEN 0 ELSE 1

FindGroups ==
    /\ pc = "group"
    /\ conf' = [k \in Index |-> Grouped(k)]
    /\ pc' = IF metric = "PRCURVE" THEN "prec" ELSE "loop"
    /\ UNCHANGED <<input, precs, loop, auc>>

PositivesIn(n) == Cardinality({k \in 1..n : label[k] = 1})

(* NORM over all prefixes at once. *)
Precisions ==
    /\ pc = "prec"
    /\ precs' = [k \in Index |-> NORM(PositivesIn(k) * One, k * One)]
    /\ pc' = "loop"
    /\ UNCHANGED <<input, conf, loop, auc>>

-----------------------------------------------------------------------------
(* The loop over the samples.  FP is computed from the 0-based index.       *)
FP(k, tp) == (k - 1) - tp

(* MUX by the confidence of sample k. *)
MutantAtThreshold(k, old, new) == IF conf[k] = 1 THEN old ELSE new
AtThreshold(k, old, new) == IF conf[k] = 0 THEN old ELSE new

(* TP with sample k. *)
MutantWithSample(k) == IF k = 1 THEN 0 ELSE TP + label[k - 1]
WithSample(k) == TP + label[k]

(* The trapezoid between two thresholds is a rectangle and a triangle. *)
MutantTriangle(k, dx, dy) == dx * dy
Triangle(k, dx, dy) == conf[k] * dx * dy

More == pc = "loop" /\ i < Size

SampleNoTie ==
    /\ More /\ metric = "ROCNOTIE"
    /\ LET k == i + 1
           tp == WithSample(k)
           fp == FP(k, tp)
       IN  /\ TP' = tp
           /\ numerator' = numerator + tp * (fp - pre_FP)
           /\ pre_FP' = fp
           /\ i' = k
    /\ UNCHANGED <<input, conf, precs, pre_TP, pre_prec, numerator2, auc, pc>>

SampleWithTie ==
    /\ More /\ metric = "ROCWITHTIE"
    /\ LET k == i + 1
           tp == WithSample(k)
           fp == FP(k, tp)
       IN  /\ TP' = tp
           /\ numerator' = numerator + conf[k] * pre_TP * (fp - pre_FP)
           /\ numerator2' = numerator2 + Triangle(k, tp - pre_TP, fp - pre_FP)
           /\ pre_FP' = AtThreshold(k, pre_FP, fp)
           /\ pre_TP' = AtThreshold(k, pre_TP, tp)
           /\ i' = k
    /\ UNCHANGED <<input, conf, precs, pre_prec, auc, pc>>

(* Recall is counted in true positives: pre_TP is pre_reca. *)
SamplePR ==
    /\ More /\ metric = "PRCURVE"
    /\ LET k == i + 1
           reca == WithSample(k)
       IN  /\ TP' = reca
           /\ numerator' = numerator + conf[k] * pre_prec * (reca - pre_TP)
           /\ numerator2' =
                numerator2 + Triangle(k, reca - pre_TP, precs[k] - pre_prec)
           /\ pre_prec' = AtThreshold(k, pre_prec, precs[k])
           /\ pre_TP' = AtThreshold(k, pre_TP, reca)
           /\ i' = k
    /\ UNCHANGED <<input, conf, precs, pre_FP, auc, pc>>

(* What NORM divides in the end, in units of One. *)
Dividend ==
    IF metric = "ROCNOTIE" THEN numerator * One
    ELSE IF metric = "ROCWITHTIE" THEN (2 * numerator + numerator2) * One
    ELSE 2 * numerator + numerator2
Divisor ==
    IF metric = "ROCNOTIE" THEN TP * (Size - TP) * One
    ELSE IF metric = "ROCWITHTIE" THEN 2 * TP * (Size - TP) * One
    ELSE 2 * TP * One

Close ==
    /\ pc = "loop" /\ i = Size
    /\ auc' = NORM(Dividend, Divisor)
    /\ pc' = "done"
    /\ UNCHANGED <<input, conf, precs, loop>>

Done == pc = "done" /\ UNCHANGED vars

Next == FindGroups \/ Precisions \/ SampleNoTie \/ SampleWithTie \/ SamplePR
            \/ Close \/ Done
Spec == Init /\ [][Next]_vars

-----------------------------------------------------------------------------
(* The reference: what the areas are, over sets of samples. *)

Positive == {k \in Index : label[k] = 1}
Negative == Index \ Positive

(* Pairs of a positive and a negative sample in their right order. *)
OrderedPairs == Cardinality({e \in Positive \X Negative : e[1] < e[2]})

(* Twice the Mann-Whitney statistic: a tie counts half. *)
TwiceMannWhitney ==
    2 * Cardinality({e \in Positive \X Negative : val[e[1]] > val[e[2]]})
      + Cardinality({e \in Positive \X Negative : val[e[1]] = val[e[2]]})

(* Thresholds: the last samples of the groups of equal predictions. *)
Thresholds == {k \in Index : k = Size \/ val[k] # val[k + 1]}
Previous(k) == LET below == {e \in Thresholds : e < k}
               IN  IF below = {} THEN 0 ELSE Max(below)

(* Precision after k samples, in units of One; one is not representable by  *)
(* NORM and is a unit short.                                                *)
PrecisionAt(k) ==
    IF k = 0 THEN One
    ELSE IF PositivesIn(k) = k THEN One - 1
    ELSE (PositivesIn(k) * One) \div k

(* Twice the area under the precision-recall curve by the trapezoid rule,   *)
(* recall in true positives, from precision one at recall zero.             *)
Trapezoid(k) ==
    (PositivesIn(k) - PositivesIn(Previous(k))) * (PrecisionAt(k) + PrecisionAt(Previous(k)))
AreaTo[k \in 0..Size] ==
    IF k = 0 THEN 0
    ELSE AreaTo[k - 1] + IF k \in Thresholds THEN Trapezoid(k) ELSE 0
TwiceAreaPR == AreaTo[Size]

Finished(m) == pc = "done" /\ metric = m
Blinded == \A k \in Index : scalar[k] # 0 /\ (4 * One * scalar[k]) % RING # 0
               /\ \A v \in 1..((RING \div 2) - 1) : (v * scalar[k]) % RING # 0

-----------------------------------------------------------------------------
(* Properties. *)

(* ROCNOTIE's sum of rectangles counts the ordered pairs, less one when the *)
(* first sample is positive, because FP is counted from index 0.            *)
NoTieCounts ==
    Finished("ROCNOTIE") => numerator + label[1] = OrderedPairs

(* With ties, the loop's sums are twice the Mann-Whitney statistic, less    *)
(* the positives of the first group, for the same reason: the flags of the  *)
(* groups and the MUX of the counts make each group one threshold.          *)
WithTieCounts ==
    (Finished("ROCWITHTIE") /\ Blinded) =>
        2 * numerator + numerator2 + PositivesIn(Min(Thresholds)) = TwiceMannWhitney

(* PRCURVE's sums are twice the trapezoid area over the thresholds of the   *)
(* list, whatever the order of labels within a group.                       *)
PRIsTrapezoid ==
    (Finished("PRCURVE") /\ Blinded) => Dividend = TwiceAreaPR

(* NORM returns the quotient rounded down to FRAC bits wherever its         *)
(* documented assumption 0 <= a < b holds.                                  *)
NormRoundsDown ==
    (pc = "done" /\ Dividend \in 0..(Divisor - 1)) =>
        auc = (Dividend * One) \div Divisor

-----------------------------------------------------------------------------
(* What the documentation says and the code does not do. *)

(* ROCNOTIE computes the area under the ROC curve: its numerator is the     *)
(* number of ordered pairs.                                                 *)
ComputesAUROC == Finished("ROCNOTIE") => numerator = OrderedPairs

(* NORM is only called with numerators below their denominators.            *)
NormAssumption ==
    pc = "prec" => \A k \in Index : PositivesIn(k) * One < k * One

(* The last prediction is a threshold of the curve. *)
LastListed == (pc = "done" /\ metric # "ROCNOTIE") => conf[Size] = 1
=============================================================================
