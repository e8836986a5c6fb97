----------------------------- MODULE SortProofs -----------------------------
(***************************************************************************)
(* Theorems about SORT for every number of stations, every delta, every     *)
(* ring and all descending inputs, and that SORT implements RunMerge when   *)
(* no two input samples are the same one.                                   *)
(***************************************************************************)
EXTENDS SortRefinement, FiniteSetTheorems, TLAPS

USE DEF Paired, NextPair, Halved, ArraySize, Compacted, Exhausted, SamePosition,
        LastIsLonger, MuxedLast, Draining

(* The two drains of the code: of the first list and of the last one. *)
DrainFirst == pc = "drain_fl" /\ Drain
DrainLast  == pc = "drain_ll" /\ Drain

LEMMA TwoDrains == Drain <=> DrainFirst \/ DrainLast
BY DEF Drain, DrainFirst, DrainLast


-----------------------------------------------------------------------------
(* Comparisons in the ring. *)

LEMMA ModSmall ==
    ASSUME NEW m \in Nat \ {0}, NEW d \in 0..(m - 1)
    PROVE  d % m = d
BY SMT

LEMMA ModNegative ==
    ASSUME NEW m \in Nat \ {0}, NEW d \in Int, -m <= d, d < 0
    PROVE  d % m = d + m
BY SMT

(* Predictions are less than half the ring apart, so the sign bit of their *)
(* difference compares them.                                               *)
LEMMA CmpCompares ==
    ASSUME NEW x \in Sample, NEW y \in Sample
    PROVE  /\ Cmp(x, y) = 0 => x.val >= y.val
           /\ Cmp(x, y) # 0 => x.val < y.val
<1> DEFINE d == x.val - y.val
<1>1. /\ N1 \in Nat \ {0}
      /\ 2 * N1 \in Nat \ {0}
      /\ x.val \in 0..(N1 - 1)
      /\ y.val \in 0..(N1 - 1)
  BY N1Assumption DEF Sample
<1>2. CASE d >= 0
  <2>1. d \in 0..(2 * N1 - 1)
    BY <1>1, <1>2
  <2>2. d % (2 * N1) = d
    BY <2>1, <1>1, ModSmall
  <2> QED
    BY <1>1, <1>2, <2>2 DEF Cmp, MSB
<1>3. CASE d < 0
  <2>1. d \in Int /\ -(2 * N1) <= d
    BY <1>1, <1>3
  <2>2. d % (2 * N1) = d + 2 * N1
    BY <2>1, <1>1, <1>3, ModNegative
  <2> QED
    BY <1>1, <1>3, <2>2 DEF Cmp, MSB
<1> QED
  BY <1>1, <1>2, <1>3

-----------------------------------------------------------------------------
(* Descending lists. *)

LEMMA TailDescends ==
    ASSUME NEW list \in Seq(Sample), Desc(list), Len(list) > 0
    PROVE  /\ Head(list) \in Sample
           /\ Head(list) = list[1]
           /\ Tail(list) \in Seq(Sample)
           /\ Len(Tail(list)) = Len(list) - 1
           /\ \A k \in 1..(Len(list) - 1) : Tail(list)[k] = list[k + 1]
           /\ Desc(Tail(list))
           /\ \A k \in 1..Len(list) : Head(list).val >= list[k].val
<1>1. /\ Head(list) \in Sample
      /\ Head(list) = list[1]
      /\ Tail(list) \in Seq(Sample)
      /\ Len(Tail(list)) = Len(list) - 1
      /\ \A k \in 1..(Len(list) - 1) : Tail(list)[k] = list[k + 1]
  BY SMT
<1>2. Desc(Tail(list))
  BY <1>1 DEF Desc
<1>3. \A k \in 1..Len(list) : Head(list).val >= list[k].val
  BY <1>1 DEF Desc
<1> QED
  BY <1>1, <1>2, <1>3

LEMMA AppendDescends ==
    ASSUME NEW list \in Seq(Sample), Desc(list), NEW x \in Sample,
           \A k \in 1..Len(list) : list[k].val >= x.val
    PROVE  /\ Append(list, x) \in Seq(Sample)
           /\ Len(Append(list, x)) = Len(list) + 1
           /\ \A k \in 1..Len(list) : Append(list, x)[k] = list[k]
           /\ Append(list, x)[Len(list) + 1] = x
           /\ Desc(Append(list, x))
<1>1. /\ Append(list, x) \in Seq(Sample)
      /\ Len(Append(list, x)) = Len(list) + 1
      /\ \A k \in 1..Len(list) : Append(list, x)[k] = list[k]
      /\ Append(list, x)[Len(list) + 1] = x
  BY SMT
<1>2. ASSUME NEW a \in 1..Len(Append(list, x)), NEW b \in 1..Len(Append(list, x)), a <= b
      PROVE  Append(list, x)[a].val >= Append(list, x)[b].val
  <2>0. x.val >= x.val
    BY N1Assumption DEF Sample
  <2>1. CASE b <= Len(list)
    BY <1>1, <1>2, <2>1 DEF Desc
  <2>2. CASE b = Len(list) + 1 /\ a <= Len(list)
    BY <1>1, <2>2
  <2>3. CASE b = Len(list) + 1 /\ a = Len(list) + 1
    BY <1>1, <2>0, <2>3
  <2> QED
    BY <1>1, <1>2, <2>1, <2>2, <2>3
<1> QED
  BY <1>1, <1>2 DEF Desc

LEMMA FunctionIsSeq ==
    ASSUME NEW S, NEW n \in Nat, NEW f \in [1..n -> S]
    PROVE  f \in Seq(S) /\ Len(f) = n
BY SMT

LEMMA ValuesAreIntegers == \A x \in Sample : x.val \in Int
BY N1Assumption DEF Sample

(* The lists a shuffle writes: position by position, the two samples in    *)
(* descending order; beyond the last list's end, the first list unchanged. *)
Bits(fl, ll) == [k \in 1..Lesser(Len(fl), Len(ll)) |-> Cmp(fl[k], ll[k])]
Up(fl, ll)   == Muxed(fl, ll, Bits(fl, ll), Lesser(Len(fl), Len(ll)))
Low(fl, ll)  == Muxed(ll, fl, Bits(fl, ll), Lesser(Len(fl), Len(ll)))

Shuffled(fl, ll, up, low) ==
    /\ up \in Seq(Sample) /\ Len(up) = Len(fl)
    /\ low \in Seq(Sample) /\ Len(low) = Len(ll)
    /\ \A k \in 1..Len(ll) :
         \/ up[k] = fl[k] /\ low[k] = ll[k] /\ fl[k].val >= ll[k].val
         \/ up[k] = ll[k] /\ low[k] = fl[k] /\ fl[k].val < ll[k].val
    /\ \A k \in 1..Len(fl) : k > Len(ll) => up[k] = fl[k]

LEMMA MuxedPositions ==
    ASSUME NEW fl \in Seq(Sample), NEW ll \in Seq(Sample), Len(fl) >= Len(ll)
    PROVE  Shuffled(fl, ll, Up(fl, ll), Low(fl, ll))
<1> DEFINE n == Lesser(Len(fl), Len(ll))
           diff == Bits(fl, ll)
           up == Up(fl, ll)
           low == Low(fl, ll)
<1>0. diff = [k \in 1..n |-> Cmp(fl[k], ll[k])]
  BY DEF Bits
<1>1. n = Len(ll) /\ n \in Nat /\ Len(ll) \in Nat /\ Len(fl) \in Nat
  BY DEF Lesser
<1>2. /\ up = [k \in 1..Len(fl) |-> IF k <= n THEN MUX(fl[k], ll[k], diff[k]) ELSE fl[k]]
      /\ low = [k \in 1..Len(ll) |-> IF k <= n THEN MUX(ll[k], fl[k], diff[k]) ELSE ll[k]]
  BY DEF Up, Low, Muxed
<1> HIDE DEF n, diff, up, low
<1>3. ASSUME NEW k \in 1..Len(ll)
      PROVE  /\ up[k] = MUX(fl[k], ll[k], Cmp(fl[k], ll[k]))
             /\ low[k] = MUX(ll[k], fl[k], Cmp(fl[k], ll[k]))
             /\ fl[k] \in Sample /\ ll[k] \in Sample
  <2>1. k \in 1..n /\ k \in 1..Len(fl)
    BY <1>1
  <2>2. diff[k] = Cmp(fl[k], ll[k])
    BY <1>0, <2>1
  <2>3. up[k] = MUX(fl[k], ll[k], diff[k]) /\ low[k] = MUX(ll[k], fl[k], diff[k])
    BY <1>1, <1>2, <2>1
  <2> QED
    BY <2>1, <2>2, <2>3
<1>4. ASSUME NEW k \in 1..Len(ll)
      PROVE  \/ up[k] = fl[k] /\ low[k] = ll[k] /\ fl[k].val >= ll[k].val
             \/ up[k] = ll[k] /\ low[k] = fl[k] /\ fl[k].val < ll[k].val
  BY <1>3, CmpCompares DEF MUX
<1>5. ASSUME NEW k \in 1..Len(fl), k > Len(ll)
      PROVE  up[k] = fl[k]
  <2>1. ~(k <= n)
    BY <1>1, <1>5
  <2> QED
    BY <1>2, <2>1
<1>6. up \in [1..Len(fl) -> Sample] /\ low \in [1..Len(ll) -> Sample]
  <2>1. \A k \in 1..Len(fl) : up[k] \in Sample
    BY <1>1, <1>3, <1>4, <1>5
  <2>2. \A k \in 1..Len(ll) : low[k] \in Sample
    BY <1>3, <1>4
  <2> QED
    BY <1>2, <2>1, <2>2
<1>7. up \in Seq(Sample) /\ Len(up) = Len(fl)
  <2>1. Len(fl) \in Nat /\ up \in [1..Len(fl) -> Sample]
    BY <1>1, <1>6
  <2> QED
    BY ONLY <2>1, FunctionIsSeq, Zenon
<1>8. low \in Seq(Sample) /\ Len(low) = Len(ll)
  <2>1. Len(ll) \in Nat /\ low \in [1..Len(ll) -> Sample]
    BY <1>1, <1>6
  <2> QED
    BY ONLY <2>1, FunctionIsSeq, Zenon
<1> QED
  BY <1>4, <1>5, <1>7, <1>8 DEF Shuffled, up, low

(* Reordering two descending lists position by position leaves both of     *)
(* them descending, the first one above the last one everywhere.           *)
LEMMA ShuffleOrders ==
    ASSUME NEW fl \in Seq(Sample), NEW ll \in Seq(Sample), NEW up, NEW low,
           Desc(fl), Desc(ll), Len(fl) >= Len(ll), Shuffled(fl, ll, up, low)
    PROVE  /\ Desc(up)
           /\ Desc(low)
           /\ \A k \in 1..Len(ll) : up[k].val >= low[k].val
<1> USE DEF Shuffled
<1>1. Len(ll) \in Nat /\ Len(fl) \in Nat
  OBVIOUS
<1>2. /\ \A k \in 1..Len(fl) : fl[k].val \in Int /\ up[k].val \in Int
      /\ \A k \in 1..Len(ll) : ll[k].val \in Int /\ low[k].val \in Int
  BY ValuesAreIntegers
<1>3. \A k \in 1..Len(fl) : up[k].val >= fl[k].val
  BY <1>1, <1>2
<1>4. \A k \in 1..Len(ll) : up[k].val >= ll[k].val
  BY <1>1, <1>2
<1>5. Desc(up)
  <2> SUFFICES ASSUME NEW a \in 1..Len(fl), NEW b \in 1..Len(fl), a <= b
               PROVE  up[a].val >= up[b].val
    BY DEF Desc
  <2>1. fl[a].val >= fl[b].val
    BY DEF Desc
  <2>2. CASE up[b] = fl[b]
    BY <1>2, <1>3, <2>1, <2>2
  <2>3. CASE up[b] = ll[b] /\ b <= Len(ll)
    <3>1. a \in 1..Len(ll) /\ b \in 1..Len(ll) /\ ll[a].val >= ll[b].val
      BY <1>1, <2>3 DEF Desc
    <3> QED
      BY <1>2, <1>4, <2>3, <3>1
  <2> QED
    BY <1>1, <2>2, <2>3
<1>6. Desc(low)
  <2> SUFFICES ASSUME NEW a \in 1..Len(ll), NEW b \in 1..Len(ll), a <= b
               PROVE  low[a].val >= low[b].val
    BY DEF Desc
  <2>1. a \in 1..Len(fl) /\ b \in 1..Len(fl)
    BY <1>1
  <2>2. fl[a].val >= fl[b].val /\ ll[a].val >= ll[b].val
    BY <2>1 DEF Desc
  <2>3. low[b].val <= fl[b].val /\ low[b].val <= ll[b].val
    BY <1>2, <2>1
  <2>4. low[a] = fl[a] \/ low[a] = ll[a]
    OBVIOUS
  <2> QED
    BY <1>2, <2>1, <2>2, <2>3, <2>4
<1>7. \A k \in 1..Len(ll) : up[k].val >= low[k].val
  BY <1>1, <1>2
<1> QED
  BY <1>5, <1>6, <1>7

-----------------------------------------------------------------------------
(* The shape of the state: types, slots and sizes. *)

ShapeInv == TypeOK /\ PairSlots /\ HeadsExist

LEMMA SlotsAreStations ==
    ASSUME TypeOK, PairSlots, pc \in Merging
    PROVE  /\ i \in Station /\ i + 1 \in Station /\ i # i + 1
           /\ fl_index # ll_index
           /\ c_data[fl_index] \in Seq(Sample)
           /\ c_data[ll_index] \in Seq(Sample)
<1>1. c_data[fl_index] \in Seq(Sample) /\ c_data[ll_index] \in Seq(Sample)
  BY DEF TypeOK
<1>2. i \in Nat /\ i + 1 < nstation /\ nstation <= NStation
  BY NStationAssumption DEF TypeOK, PairSlots
<1>3. i \in Station /\ i + 1 \in Station /\ i # i + 1
  BY <1>2, NStationAssumption DEF Station, TypeOK
<1>4. fl_index # ll_index
  BY <1>3 DEF PairSlots
<1> QED
  BY <1>1, <1>3, <1>4

LEMMA PairFits ==
    ASSUME NEW n \in Nat, NEW k \in Nat, k % 2 = 0, k < n - (n % 2)
    PROVE  k + 1 < n /\ k + 2 <= n - (n % 2) /\ (k + 2) % 2 = 0
BY SMT

LEMMA TypeStep == ShapeInv /\ [Next]_vars => TypeOK'
<1> SUFFICES ASSUME ShapeInv, [Next]_vars PROVE TypeOK'
  OBVIOUS
<1> USE NStationAssumption DEF ShapeInv
<1>1. CASE BeginRound
  BY <1>1 DEF BeginRound, TypeOK, pairVars, selectVars, Merging, Selecting
<1>2. CASE Return
  BY <1>2 DEF Return, TypeOK, pairVars, selectVars, Merging, Selecting
<1>3. CASE BeginPair
  <2>0. i + 1 < nstation /\ i \in Nat /\ nstation \in 1..NStation
    <3>1. /\ i \in Nat /\ nstation \in Nat /\ nstation \in 1..NStation
          /\ i < nstation - (nstation % 2) /\ i % 2 = 0
      BY <1>3 DEF BeginPair, TypeOK, PairSlots
    <3>2. i + 1 < nstation
      BY ONLY <3>1, PairFits
    <3> QED
      BY <3>1, <3>2
  <2>1. i + 1 \in Station /\ i \in Station
    BY <2>0 DEF Station
  <2>2. fl_index' \in Station /\ ll_index' \in Station
    BY <1>3, <2>1 DEF BeginPair
  <2>3. alloc' \in Nat
    BY <1>3, <2>2 DEF BeginPair, TypeOK
  <2> QED
    BY <1>3, <2>2, <2>3 DEF BeginPair, TypeOK, selectVars, Merging, Selecting
<1>4. CASE Shuffle
  <2> DEFINE fl == c_data[fl_index]
             ll == c_data[ll_index]
  <2>1. pc \in Merging /\ Len(fl) >= Len(ll)
    BY <1>4 DEF Shuffle, HeadsExist, Merging, Size
  <2>2. fl \in Seq(Sample) /\ ll \in Seq(Sample)
    BY <2>1, SlotsAreStations
  <2>3. Up(fl, ll) \in Seq(Sample) /\ Low(fl, ll) \in Seq(Sample)
    BY <2>1, <2>2, MuxedPositions DEF Shuffled
  <2>4. c_data' = [c_data EXCEPT ![fl_index] = Up(fl, ll), ![ll_index] = Low(fl, ll)]
    BY <1>4 DEF Shuffle, Up, Low, Bits, Size
  <2>5. c_data' \in [Station -> Seq(Sample)]
    BY <2>3, <2>4 DEF TypeOK
  <2> QED
    BY <1>4, <2>5 DEF Shuffle, TypeOK, pairVars, selectVars, Merging, Selecting
<1>5. CASE TakeMax
  <2>1. c_data[fl_index] \in Seq(Sample) /\ Len(c_data[fl_index]) > 0
    BY <1>5 DEF TakeMax, TypeOK, HeadsExist, Size
  <2>2. sorted' \in Seq(Sample) /\ c_data' \in [Station -> Seq(Sample)]
    BY <1>5, <2>1 DEF TakeMax, TypeOK
  <2>3. min_val' \in Int
    BY <1>5 DEF TakeMax, TypeOK, Lesser, Size
  <2> QED
    BY <1>5, <2>2, <2>3 DEF TakeMax, TypeOK, pairVars, Merging, Selecting
<1>6. CASE SelectStop
  BY <1>6 DEF SelectStop, TypeOK, selectVars, Merging, Selecting
<1>7. CASE SelectCompare \/ SelectFront
  <2>1. PICK s \in {fl_index, ll_index} : SelectFrom(s)
    BY <1>7 DEF SelectCompare, SelectFront
  <2>2. c_data[s] \in Seq(Sample) /\ Len(c_data[s]) > 0
    BY <1>7 DEF SelectCompare, SelectFront, TypeOK, HeadsExist, Size, Lesser
  <2>3. sorted' \in Seq(Sample) /\ c_data' \in [Station -> Seq(Sample)]
    BY <2>1, <2>2 DEF SelectFrom, TypeOK
  <2>4. j' \in Nat /\ fl_pop' \in Nat /\ ll_pop' \in Nat
    BY <1>7 DEF SelectCompare, SelectFront, TypeOK
  <2>5. UNCHANGED <<nstation, i, tmp_delta, pairVars, min_val, pc>>
    BY <1>7 DEF SelectCompare, SelectFront
  <2> QED
    BY <2>3, <2>4, <2>5 DEF TypeOK, pairVars
<1>8. CASE SelectEnd
  BY <1>8 DEF SelectEnd, TypeOK, pairVars, selectVars, Merging, Selecting
<1>9. CASE Exchange
  BY <1>9 DEF Exchange, TypeOK, selectVars, Merging, Selecting
<1>10. CASE BeginDrain
  BY <1>10 DEF BeginDrain, TypeOK, pairVars, selectVars, Merging, Selecting
<1>11. CASE DrainFirst \/ DrainLast
  <2>1. Drain /\ Draining \in {fl_index, ll_index}
    BY <1>11 DEF DrainFirst, DrainLast
  <2>2. c_data[Draining] \in Seq(Sample) /\ Len(c_data[Draining]) > 0
    BY <2>1 DEF Drain, TypeOK, Size
  <2>3. sorted' \in Seq(Sample) /\ c_data' \in [Station -> Seq(Sample)]
    BY <2>1, <2>2 DEF Drain, SelectFrom, TypeOK
  <2> QED
    BY <2>1, <2>3 DEF Drain, TypeOK, pairVars, selectVars
<1>12. CASE EndPair
  <2>1. c_data' = [c_data EXCEPT ![i] = sorted, ![i + 1] = <<>>]
    BY <1>12 DEF EndPair
  <2>2. <<>> \in Seq(Sample) /\ sorted \in Seq(Sample)
    BY DEF TypeOK
  <2>3. c_data' \in [Station -> Seq(Sample)]
    BY <2>1, <2>2 DEF TypeOK
  <2>4. /\ sorted' = <<>> /\ i' = i + 2 /\ pc' = "pair"
        /\ UNCHANGED <<nstation, tmp_delta, pairVars, selectVars>>
    BY <1>12 DEF EndPair
  <2> QED
    BY <2>2, <2>3, <2>4 DEF TypeOK, pairVars, selectVars
<1>13. CASE BeginCompact
  <2>1. <<>> \in Seq(Sample)
    OBVIOUS
  <2>2. c_data' \in [Station -> Seq(Sample)]
    BY <1>13, <2>1 DEF BeginCompact, TypeOK
  <2> QED
    BY <1>13, <2>2 DEF BeginCompact, TypeOK, pairVars, selectVars
<1>14. CASE CompactOne
  <2>1. i \in Station /\ c_data[i] \in Seq(Sample)
    BY <1>14 DEF CompactOne, TypeOK, Station
  <2>2. <<>> \in Seq(Sample)
    OBVIOUS
  <2>3. c_data' = [c_data EXCEPT ![i \div 2] = c_data[i], ![i] = <<>>]
        \/ c_data' = [c_data EXCEPT ![i] = <<>>]
    BY <1>14 DEF CompactOne
  <2>4. c_data' \in [Station -> Seq(Sample)]
    BY <2>1, <2>2, <2>3 DEF TypeOK
  <2> QED
    BY <1>14, <2>4 DEF CompactOne, TypeOK, pairVars, selectVars
<1>15. CASE EndRound
  <2>1. nstation' \in 1..NStation
    BY <1>15 DEF EndRound, TypeOK, PairSlots
  <2> QED
    BY <1>15, <2>1 DEF EndRound, TypeOK, pairVars, selectVars, Merging, Selecting
<1>16. CASE Done \/ UNCHANGED vars
  BY <1>16 DEF Done, vars, TypeOK
<1> QED
  BY <1>1, <1>2, <1>3, <1>4, <1>5, <1>6, <1>7, <1>8, <1>9, <1>10, <1>11, <1>12,
     <1>13, <1>14, <1>15, <1>16, TwoDrains DEF Next

-----------------------------------------------------------------------------
(* What the steps do to the lists. *)

LEMMA ShuffledLists ==
    ASSUME ShapeInv, Shuffle
    PROVE  LET fl == c_data[fl_index]
               ll == c_data[ll_index]
           IN /\ fl \in Seq(Sample) /\ ll \in Seq(Sample)
              /\ Len(fl) >= Len(ll) /\ Len(ll) > 0
              /\ Shuffled(fl, ll, c_data'[fl_index], c_data'[ll_index])
              /\ \A s \in Station \ {fl_index, ll_index} : c_data'[s] = c_data[s]
<1> DEFINE fl == c_data[fl_index]
           ll == c_data[ll_index]
<1>1. pc \in Merging /\ Len(fl) >= Len(ll) /\ Len(ll) > 0
  BY DEF ShapeInv, Shuffle, HeadsExist, Merging, Size
<1>2. fl \in Seq(Sample) /\ ll \in Seq(Sample) /\ fl_index # ll_index
      /\ fl_index \in Station /\ ll_index \in Station
  BY <1>1, SlotsAreStations DEF ShapeInv, TypeOK
<1>3. c_data' = [c_data EXCEPT ![fl_index] = Up(fl, ll), ![ll_index] = Low(fl, ll)]
  BY DEF Shuffle, Up, Low, Bits, Size
<1>4. /\ c_data'[fl_index] = Up(fl, ll)
      /\ c_data'[ll_index] = Low(fl, ll)
      /\ \A s \in Station \ {fl_index, ll_index} : c_data'[s] = c_data[s]
  BY <1>2, <1>3 DEF ShapeInv, TypeOK
<1>5. Shuffled(fl, ll, Up(fl, ll), Low(fl, ll))
  BY <1>1, <1>2, MuxedPositions
<1> QED
  BY <1>1, <1>2, <1>4, <1>5

LEMMA PoppedList ==
    ASSUME TypeOK, NEW s \in Station, Size(s) > 0, SelectFrom(s)
    PROVE  /\ c_data[s] \in Seq(Sample)
           /\ Head(c_data[s]) \in Sample
           /\ c_data'[s] = Tail(c_data[s])
           /\ c_data'[s] \in Seq(Sample)
           /\ Len(c_data'[s]) = Len(c_data[s]) - 1
           /\ \A t \in Station \ {s} : c_data'[t] = c_data[t]
           /\ sorted \in Seq(Sample)
           /\ sorted' = Append(sorted, Head(c_data[s]))
<1>1. c_data[s] \in Seq(Sample) /\ Len(c_data[s]) > 0 /\ sorted \in Seq(Sample)
  BY DEF TypeOK, Size
<1>2. /\ c_data'[s] = Tail(c_data[s])
      /\ \A t \in Station \ {s} : c_data'[t] = c_data[t]
      /\ sorted' = Append(sorted, Head(c_data[s]))
  BY DEF TypeOK, SelectFrom
<1>3. /\ Head(c_data[s]) \in Sample
      /\ Tail(c_data[s]) \in Seq(Sample)
      /\ Len(Tail(c_data[s])) = Len(c_data[s]) - 1
  BY <1>1
<1> QED
  BY <1>1, <1>2, <1>3

(* TakeMax, the two selections and the two drains take the head of one of  *)
(* the pair's lists.                                                       *)
Takes(s) == Size(s) > 0 /\ SelectFrom(s) /\ UNCHANGED <<fl_index, ll_index>>

LEMMA TakingSteps ==
    ASSUME ShapeInv
    PROVE  /\ TakeMax => pc = "max" /\ pc' = "select" /\ Takes(fl_index)
           /\ SelectCompare => /\ pc = "select" /\ pc' = "select"
                               /\ Takes(fl_index) \/ Takes(ll_index)
           /\ SelectFront => pc = "select" /\ pc' = "select" /\ Takes(fl_index)
           /\ DrainFirst => pc = "drain_fl" /\ pc' = "drain_fl" /\ Takes(fl_index)
           /\ DrainLast => pc = "drain_ll" /\ pc' = "drain_ll" /\ Takes(ll_index)
<1>1. c_data[fl_index] \in Seq(Sample) /\ c_data[ll_index] \in Seq(Sample)
  BY DEF ShapeInv, TypeOK
<1>2. pc = "max" => Size(fl_index) > 0
  BY <1>1 DEF ShapeInv, HeadsExist, Size
<1>3. pc = "select" /\ j < min_val => Size(fl_index) > 0 /\ Size(ll_index) > 0
  BY <1>1 DEF ShapeInv, TypeOK, HeadsExist, Size, Lesser
<1> QED
  BY <1>2, <1>3 DEF TakeMax, SelectCompare, SelectFront, DrainFirst, DrainLast,
                    Drain, SelectFrom, Takes, pairVars

(* A step that is none of the takes, Shuffle, EndPair and the compaction's *)
(* leaves the lists alone.                                                 *)
QuietStep ==
    \/ BeginRound \/ Return \/ BeginPair \/ SelectStop \/ SelectEnd \/ Exchange
    \/ BeginDrain \/ EndRound \/ Done \/ UNCHANGED vars

LEMMA QuietKeeps == QuietStep => UNCHANGED <<c_data, sorted>>
BY DEF QuietStep, BeginRound, Return, BeginPair, SelectStop, SelectEnd, Exchange,
       BeginDrain, EndRound, Done, vars

LEMMA NextCases ==
    ASSUME [Next]_vars
    PROVE  \/ QuietStep
           \/ TakeMax \/ SelectCompare \/ SelectFront \/ DrainFirst \/ DrainLast
           \/ Shuffle \/ EndPair \/ BeginCompact \/ CompactOne
BY TwoDrains DEF Next, QuietStep

LEMMA PairSlotsStep == ShapeInv /\ [Next]_vars => PairSlots'
<1> SUFFICES ASSUME ShapeInv, [Next]_vars PROVE PairSlots'
  OBVIOUS
<1> USE NStationAssumption DEF ShapeInv, Merging, Selecting
<1>1. CASE BeginRound
  BY <1>1 DEF BeginRound, PairSlots, TypeOK
<1>2. CASE BeginPair
  <2>1. /\ i \in Nat /\ nstation \in Nat /\ i < nstation - (nstation % 2)
        /\ i % 2 = 0 /\ nstation >= 2
    BY <1>2 DEF BeginPair, TypeOK, PairSlots
  <2>2. i + 1 < nstation
    BY ONLY <2>1, PairFits
  <2>3. \/ fl_index' = i /\ ll_index' = i + 1
        \/ fl_index' = i + 1 /\ ll_index' = i
    BY <1>2 DEF BeginPair
  <2> QED
    BY <1>2, <2>1, <2>2, <2>3 DEF BeginPair, PairSlots
<1>3. CASE Shuffle
  BY <1>3 DEF Shuffle, PairSlots, pairVars
<1>4. CASE TakeMax \/ SelectCompare \/ SelectFront \/ DrainFirst \/ DrainLast
  BY <1>4 DEF TakeMax, SelectCompare, SelectFront, DrainFirst, DrainLast, Drain,
              PairSlots, pairVars
<1>5. CASE SelectStop \/ SelectEnd \/ BeginDrain
  BY <1>5 DEF SelectStop, SelectEnd, BeginDrain, PairSlots, pairVars
<1>6. CASE Exchange
  BY <1>6 DEF Exchange, PairSlots
<1>7. CASE EndPair
  <2>1. i \in Nat /\ i % 2 = 0 /\ nstation >= 2 /\ nstation' = nstation
        /\ pc' = "pair" /\ i' = i + 2
    BY <1>7 DEF EndPair, PairSlots, TypeOK
  <2>2. (i + 2) % 2 = 0
    BY <2>1
  <2> QED
    BY <2>1, <2>2 DEF PairSlots
<1>8. CASE BeginCompact \/ CompactOne
  BY <1>8 DEF BeginCompact, CompactOne, PairSlots, TypeOK
<1>9. CASE Return \/ EndRound
  BY <1>9 DEF Return, EndRound, PairSlots
<1>10. CASE Done \/ UNCHANGED vars
  BY <1>10 DEF Done, vars, PairSlots
<1> QED
  BY <1>1, <1>2, <1>3, <1>4, <1>5, <1>6, <1>7, <1>8, <1>9, <1>10, TwoDrains DEF Next

LEMMA HeadsExistStep == ShapeInv /\ [Next]_vars => HeadsExist'
<1> SUFFICES ASSUME ShapeInv, [Next]_vars PROVE HeadsExist'
  OBVIOUS
<1>0. Size(fl_index) \in Nat /\ Size(ll_index) \in Nat
  BY DEF ShapeInv, TypeOK, Size
<1>1. CASE Shuffle
  <2>1. /\ Size(fl_index)' = Size(fl_index) /\ Size(ll_index)' = Size(ll_index)
        /\ Size(fl_index) >= Size(ll_index) /\ Size(ll_index) > 0
    BY <1>1, ShuffledLists DEF Shuffled, Shuffle, Size, pairVars
  <2> QED
    BY <1>1, <2>1 DEF Shuffle, HeadsExist
<1>2. CASE TakeMax
  <2>1. /\ Takes(fl_index) /\ fl_index \in Station /\ ll_index \in Station
        /\ fl_index # ll_index
    BY <1>2, TakingSteps, SlotsAreStations DEF ShapeInv, TypeOK, Merging, Selecting
  <2>2. Size(fl_index)' = Size(fl_index) - 1 /\ Size(ll_index)' = Size(ll_index)
    BY <2>1, PoppedList DEF Takes, Size, ShapeInv
  <2>3. /\ pc' = "select" /\ j' = 0
        /\ min_val' = Lesser(delta, Lesser(Size(fl_index) - 1, Size(ll_index)))
        /\ delta \in Int
    BY <1>2 DEF TakeMax, ShapeInv, TypeOK
  <2> QED
    BY <1>0, <2>2, <2>3 DEF HeadsExist, Lesser
<1>3. CASE SelectCompare \/ SelectFront
  <2>1. /\ Takes(fl_index) \/ Takes(ll_index)
        /\ fl_index \in Station /\ ll_index \in Station /\ fl_index # ll_index
        /\ pc = "select" /\ pc' = "select" /\ j' = j + 1 /\ min_val' = min_val
    BY <1>3, TakingSteps, SlotsAreStations
    DEF ShapeInv, TypeOK, Merging, Selecting, SelectCompare, SelectFront
  <2>2. \/ Size(fl_index)' = Size(fl_index) - 1 /\ Size(ll_index)' = Size(ll_index)
        \/ Size(ll_index)' = Size(ll_index) - 1 /\ Size(fl_index)' = Size(fl_index)
    BY <2>1, PoppedList DEF Takes, Size, ShapeInv
  <2>3. min_val - j <= Lesser(Size(fl_index), Size(ll_index)) /\ min_val \in Int /\ j \in Nat
    BY <2>1 DEF ShapeInv, HeadsExist, TypeOK
  <2> QED
    BY <1>0, <2>1, <2>2, <2>3 DEF HeadsExist, Lesser
<1>4. CASE BeginPair
  <2>1. /\ c_data' = c_data /\ pc' = "merge"
        /\ IF Size(i) < Size(i + 1) THEN fl_index' = i + 1 /\ ll_index' = i
                                     ELSE fl_index' = i /\ ll_index' = i + 1
    BY <1>4 DEF BeginPair
  <2>2. fl_index' \in Station /\ ll_index' \in Station
    BY TypeStep DEF TypeOK
  <2>3. Size(fl_index)' \in Nat /\ Size(ll_index)' \in Nat
    BY <2>1, <2>2 DEF Size, ShapeInv, TypeOK
  <2>4. Size(fl_index)' >= Size(ll_index)'
    BY <2>1, <2>3 DEF Size
  <2> QED
    BY <2>1, <2>4 DEF HeadsExist
<1>5. CASE Exchange
  <2>1. /\ c_data' = c_data /\ pc' = "merge"
        /\ IF Size(ll_index) > Size(fl_index)
             THEN fl_index' = ll_index /\ ll_index' = fl_index
             ELSE fl_index' = fl_index /\ ll_index' = ll_index
    BY <1>5 DEF Exchange
  <2>2. Size(fl_index)' >= Size(ll_index)'
    BY <1>0, <2>1 DEF Size
  <2> QED
    BY <2>1, <2>2 DEF HeadsExist
<1>6. CASE pc' \notin {"merge", "max", "select"}
  BY <1>6 DEF HeadsExist
<1>7. CASE UNCHANGED vars
  BY <1>7 DEF vars, HeadsExist, ShapeInv, Size
<1> QED
  <2>1. BeginRound \/ Return \/ SelectStop \/ SelectEnd \/ BeginDrain \/ DrainFirst
        \/ DrainLast \/ EndPair \/ BeginCompact \/ CompactOne \/ EndRound \/ Done
        => pc' \notin {"merge", "max", "select"}
    BY DEF BeginRound, Return, SelectStop, SelectEnd, BeginDrain, DrainFirst, DrainLast,
           Drain, EndPair, BeginCompact, CompactOne, EndRound, Done, vars
  <2> QED
    BY <1>1, <1>2, <1>3, <1>4, <1>5, <1>6, <1>7, <2>1, TwoDrains DEF Next

LEMMA ShapeStep == ShapeInv /\ [Next]_vars => ShapeInv'
BY TypeStep, PairSlotsStep, HeadsExistStep DEF ShapeInv

LEMMA BuffersStep == ShapeInv /\ BuffersHold /\ [Next]_vars => BuffersHold'
<1> SUFFICES ASSUME ShapeInv, BuffersHold, [Next]_vars PROVE BuffersHold'
  OBVIOUS
<1>0. /\ Size(fl_index) \in Nat /\ Size(ll_index) \in Nat /\ alloc \in Nat
      /\ fl_index \in Station /\ ll_index \in Station
  BY DEF ShapeInv, TypeOK, Size
<1>1. CASE Shuffle
  <2>1. /\ Size(ll_index)' = Size(ll_index) /\ alloc' = alloc /\ pc' = "max"
        /\ pc \in Merging
    BY <1>1, ShuffledLists DEF Shuffled, Shuffle, Size, pairVars, Merging, Selecting
  <2> QED
    BY <1>0, <2>1 DEF BuffersHold
<1>2. CASE TakeMax \/ SelectCompare \/ SelectFront \/ DrainFirst \/ DrainLast
  <2>1. /\ Takes(fl_index) \/ Takes(ll_index)
        /\ fl_index # ll_index /\ pc \in Merging /\ alloc' = alloc
    BY <1>2, TakingSteps, SlotsAreStations
    DEF ShapeInv, Merging, Selecting, TakeMax, SelectCompare, SelectFront,
        DrainFirst, DrainLast, Drain, pairVars
  <2>2. Size(ll_index)' = Size(ll_index) \/ Size(ll_index)' = Size(ll_index) - 1
    BY <1>0, <2>1, PoppedList DEF Takes, Size, ShapeInv
  <2>3. 2 * Size(ll_index)' <= alloc'
    BY <1>0, <2>1, <2>2 DEF BuffersHold
  <2>4. pc' = "select" /\ j' < min_val' => Size(ll_index)' > 0
    <3>1. HeadsExist' /\ TypeOK'
      BY ShapeStep DEF ShapeInv
    <3>2. /\ Size(fl_index)' \in Nat /\ Size(ll_index)' \in Nat
          /\ min_val' \in Int /\ j' \in Nat
      BY <3>1 DEF TypeOK, Size
    <3>3. pc' = "select" => min_val' - j' <= Lesser(Size(fl_index)', Size(ll_index)')
      BY <3>1 DEF HeadsExist
    <3> QED
      BY <3>2, <3>3 DEF Lesser
  <2> QED
    BY <1>0, <2>1, <2>2, <2>3, <2>4 DEF BuffersHold
<1>3. CASE SelectStop \/ SelectEnd \/ BeginDrain
  <2>1. /\ Size(ll_index)' = Size(ll_index) /\ alloc' = alloc
        /\ pc \in Merging /\ pc' # "select"
    BY <1>3 DEF SelectStop, SelectEnd, BeginDrain, Size, pairVars, Merging, Selecting
  <2> QED
    BY <2>1 DEF BuffersHold
<1>4. CASE Exchange
  <2>1. /\ Size(ll_index)' <= Size(ll_index) /\ alloc' = alloc
        /\ pc \in Merging /\ pc' # "select" /\ Size(ll_index)' \in Nat
    BY <1>0, <1>4 DEF Exchange, Size, Merging
  <2> QED
    BY <1>0, <2>1 DEF BuffersHold
<1>5. CASE BeginPair
  BY <1>5 DEF BeginPair, BuffersHold, Size, TypeOK, ShapeInv
<1>6. CASE pc' \notin Merging
  BY <1>6 DEF BuffersHold, Merging, Selecting
<1>7. CASE UNCHANGED vars
  BY <1>7 DEF vars, BuffersHold, Size
<1> QED
  <2>1. BeginRound \/ Return \/ EndPair \/ BeginCompact \/ CompactOne \/ EndRound
        \/ Done => pc' \notin Merging
    BY DEF BeginRound, Return, EndPair, BeginCompact, CompactOne, EndRound, Done, vars,
           Merging, Selecting
  <2> QED
    BY <1>1, <1>2, <1>3, <1>4, <1>5, <1>6, <1>7, <2>1, TwoDrains DEF Next

LEMMA DrainsStep == ShapeInv /\ DrainsAll /\ [Next]_vars => DrainsAll'
<1> SUFFICES ASSUME ShapeInv, DrainsAll, [Next]_vars PROVE DrainsAll'
  OBVIOUS
<1>0. /\ Size(fl_index) \in Nat /\ Size(ll_index) \in Nat
      /\ fl_index \in Station /\ ll_index \in Station
  BY DEF ShapeInv, TypeOK, Size
<1>1. CASE BeginDrain
  <2>1. /\ Size(fl_index) >= Size(ll_index)
        /\ Size(fl_index)' = Size(fl_index) /\ Size(ll_index)' = Size(ll_index)
    BY <1>1 DEF BeginDrain, ShapeInv, HeadsExist, Size, pairVars
  <2> QED
    BY <1>0, <1>1, <2>1 DEF BeginDrain, DrainsAll
<1>2. CASE DrainFirst \/ DrainLast
  <2>1. /\ pc' = pc /\ fl_index' = fl_index /\ ll_index' = ll_index /\ fl_index # ll_index
        /\ \/ pc = "drain_fl" /\ Takes(fl_index)
           \/ pc = "drain_ll" /\ Takes(ll_index)
    BY <1>2, TakingSteps, SlotsAreStations DEF Takes, ShapeInv, Merging
  <2>2. CASE pc = "drain_fl"
    BY <1>0, <2>1, <2>2, PoppedList DEF Takes, Size, ShapeInv, DrainsAll
  <2>3. CASE pc = "drain_ll"
    BY <1>0, <2>1, <2>3, PoppedList DEF Takes, Size, ShapeInv, DrainsAll
  <2> QED
    BY <2>1, <2>2, <2>3
<1>3. CASE pc' \notin {"drain_fl", "drain_ll"}
  BY <1>3 DEF DrainsAll
<1>4. CASE UNCHANGED vars
  BY <1>4 DEF vars, DrainsAll, Size
<1> QED
  <2>1. BeginRound \/ Return \/ BeginPair \/ Shuffle \/ TakeMax \/ SelectCompare
        \/ SelectFront \/ SelectStop \/ SelectEnd \/ Exchange \/ EndPair
        \/ BeginCompact \/ CompactOne \/ EndRound \/ Done
        => pc' \notin {"drain_fl", "drain_ll"}
    BY DEF BeginRound, Return, BeginPair, Shuffle, TakeMax, SelectCompare, SelectFront,
           SelectStop, SelectEnd, Exchange, EndPair, BeginCompact, CompactOne, EndRound,
           Done, vars
  <2> QED
    BY <1>1, <1>2, <1>3, <1>4, <2>1, TwoDrains DEF Next

-----------------------------------------------------------------------------
(* The slots that must be empty stay so. *)

LEMMA SlotsClearedStep == ShapeInv /\ SlotsCleared /\ [Next]_vars => SlotsCleared'
<1> SUFFICES ASSUME ShapeInv, SlotsCleared, [Next]_vars,
                    NEW s \in Station,
                    \/ s >= nstation'
                    \/ pc' \in Merging \cup {"pair"} /\ s < i' /\ s % 2 = 1
                    \/ pc' = "compact" /\ s < i' /\ 2 * s >= i'
                    \/ pc' = "compact" /\ s >= i' /\ s % 2 = 1
             PROVE  c_data'[s] = <<>>
  BY DEF SlotsCleared
<1>0. s \in Nat /\ i \in Nat /\ nstation \in Nat /\ nstation <= NStation
  BY NStationAssumption DEF ShapeInv, TypeOK, Station
<1>1. CASE Shuffle \/ TakeMax \/ SelectCompare \/ SelectFront \/ DrainFirst \/ DrainLast
  <2>1. /\ pc \in Merging /\ pc' \in Merging /\ i' = i /\ nstation' = nstation
        /\ fl_index \in {i, i + 1} /\ ll_index \in {i, i + 1}
        /\ i % 2 = 0 /\ i + 1 < nstation
    BY <1>1 DEF Shuffle, TakeMax, SelectCompare, SelectFront, DrainFirst, DrainLast,
                Drain, Merging, Selecting, ShapeInv, PairSlots
  <2>2. pc' # "compact"
    BY <2>1 DEF Merging, Selecting
  <2>3. s \notin {fl_index, ll_index}
    BY <1>0, <2>1, <2>2
  <2>4. c_data'[s] = c_data[s]
    <3>1. Shuffle => c_data'[s] = c_data[s]
      BY <2>3, ShuffledLists
    <3>2. Takes(fl_index) \/ Takes(ll_index) => c_data'[s] = c_data[s]
      BY <2>3, PoppedList DEF Takes, ShapeInv, TypeOK
    <3> QED
      BY <1>1, <3>1, <3>2, TakingSteps
  <2> QED
    BY <1>0, <2>1, <2>2, <2>4 DEF SlotsCleared
<1>2. CASE EndPair
  <2>1. /\ pc \in Merging /\ pc' = "pair" /\ i' = i + 2 /\ nstation' = nstation
        /\ i % 2 = 0 /\ i + 1 < nstation
        /\ c_data' = [c_data EXCEPT ![i] = sorted, ![i + 1] = <<>>]
    BY <1>2 DEF EndPair, Merging, ShapeInv, PairSlots
  <2>2. s # i
    BY <1>0, <2>1
  <2>3. CASE s = i + 1
    BY <1>0, <2>1, <2>3 DEF ShapeInv, TypeOK
  <2>4. CASE s # i + 1
    <3>1. c_data'[s] = c_data[s]
      BY <2>1, <2>2, <2>4 DEF ShapeInv, TypeOK
    <3>2. s >= nstation \/ (s < i /\ s % 2 = 1)
      BY <1>0, <2>1, <2>4
    <3> QED
      BY <2>1, <3>1, <3>2 DEF SlotsCleared
  <2> QED
    BY <2>3, <2>4
<1>3. CASE BeginCompact
  <2>1. /\ pc = "pair" /\ pc' = "compact" /\ i' = 1 /\ nstation' = nstation
        /\ i >= nstation - (nstation % 2)
        /\ c_data' = [c_data EXCEPT ![1] = <<>>]
    BY <1>3 DEF BeginCompact
  <2>2. CASE s = 1
    BY <2>1, <2>2 DEF ShapeInv, TypeOK
  <2>3. CASE s # 1
    <3>1. c_data'[s] = c_data[s]
      BY <2>1, <2>3 DEF ShapeInv, TypeOK
    <3>2. s >= nstation \/ s % 2 = 1
      BY <1>0, <2>1
    <3>3. s % 2 = 1 /\ s < nstation => s < i
      BY <1>0, <2>1
    <3> QED
      BY <1>0, <2>1, <3>1, <3>2, <3>3 DEF SlotsCleared
  <2> QED
    BY <2>2, <2>3
<1>4. CASE CompactOne
  <2>1. /\ pc = "compact" /\ pc' = "compact" /\ i' = i + 1 /\ nstation' = nstation
        /\ i >= 1 /\ i < nstation
        /\ IF i % 2 = 0
             THEN c_data' = [c_data EXCEPT ![i \div 2] = c_data[i], ![i] = <<>>]
             ELSE c_data' = [c_data EXCEPT ![i] = <<>>]
    BY <1>4 DEF CompactOne, ShapeInv, PairSlots
  <2>0. s >= nstation \/ (s < i + 1 /\ 2 * s >= i + 1) \/ (s >= i + 1 /\ s % 2 = 1)
    BY <2>1 DEF Merging, Selecting
  <2>2. CASE s = i
    <3>1. i \div 2 # i
      BY <1>0, <2>1
    <3> QED
      BY <2>1, <2>2, <3>1 DEF ShapeInv, TypeOK
  <2>3. CASE s # i
    <3>1. ~(i % 2 = 0 /\ s = i \div 2)
      BY <1>0, <2>0, <2>1, <2>3
    <3>2. c_data'[s] = c_data[s]
      BY <2>1, <2>3, <3>1 DEF ShapeInv, TypeOK
    <3>3. s >= nstation \/ (s < i /\ 2 * s >= i) \/ (s >= i /\ s % 2 = 1)
      BY <1>0, <2>0, <2>1, <2>3
    <3> QED
      BY <2>1, <3>2, <3>3 DEF SlotsCleared
  <2> QED
    BY <2>2, <2>3
<1>5. CASE EndRound
  <2>1. /\ pc = "compact" /\ pc' = "round" /\ c_data' = c_data /\ i >= nstation
        /\ nstation' = (nstation \div 2) + (nstation % 2)
    BY <1>5 DEF EndRound
  <2>2. s >= nstation'
    BY <2>1 DEF Merging, Selecting
  <2>3. s >= nstation \/ (s < i /\ 2 * s >= i)
    <3>1. i = nstation
      BY <1>0, <2>1 DEF ShapeInv, PairSlots
    <3> QED
      BY <1>0, <2>1, <2>2, <3>1
  <2> QED
    BY <1>0, <2>1, <2>3 DEF SlotsCleared
<1>6. CASE QuietStep /\ ~EndRound
  <2>1. c_data' = c_data
    BY <1>6, QuietKeeps
  <2>2. /\ nstation' = nstation
        /\ pc' = "compact" => pc = "compact" /\ i' = i
        /\ pc' \in Merging \cup {"pair"} =>
              (pc \in Merging \cup {"pair"} /\ i' = i) \/ i' = 0
    BY <1>6 DEF QuietStep, BeginRound, Return, BeginPair, SelectStop, SelectEnd, Exchange,
                BeginDrain, Done, vars, Merging, Selecting
  <2> QED
    BY <1>0, <2>1, <2>2 DEF SlotsCleared
<1> QED
  BY <1>1, <1>2, <1>3, <1>4, <1>5, <1>6, NextCases

-----------------------------------------------------------------------------
(* The order of what is merged. *)

OrderInv == ListsDescend /\ PrefixAbove /\ PositionsOrdered

(* The head of slot s is taken and is not below any sample of slot t. *)
TakesTop(s, t) ==
    /\ Takes(s)
    /\ \A k \in 1..Size(t) : Head(c_data[s]).val >= c_data[t][k].val

LEMMA PairLists ==
    ASSUME ShapeInv, OrderInv, pc \in Merging, NEW s \in {fl_index, ll_index}
    PROVE  /\ c_data[s] \in Seq(Sample) /\ Desc(c_data[s]) /\ Size(s) = Len(c_data[s])
           /\ s \in Station /\ Size(s) \in Nat
           /\ Size(s) > 0 => Head(c_data[s]) = c_data[s][1]
           /\ Size(s) > 0 => Head(c_data[s]) \in Sample
           /\ Size(s) > 0 => \A k \in 1..Size(s) : Head(c_data[s]).val >= c_data[s][k].val
           /\ \A k \in 1..Size(s) : c_data[s][k].val \in Int
<1>1. /\ c_data[s] \in Seq(Sample) /\ Desc(c_data[s]) /\ Size(s) = Len(c_data[s])
      /\ s \in Station /\ Size(s) \in Nat
  BY DEF ShapeInv, TypeOK, OrderInv, ListsDescend, Size
<1>2. \A k \in 1..Size(s) : c_data[s][k].val \in Int
  BY <1>1, ValuesAreIntegers
<1>3. CASE Size(s) > 0
  BY <1>1, <1>2, <1>3, TailDescends
<1> QED
  BY <1>1, <1>2, <1>3

LEMMA TakesFromTop ==
    ASSUME ShapeInv, OrderInv, DrainsAll
    PROVE  /\ TakeMax => TakesTop(fl_index, ll_index)
           /\ SelectCompare =>
                \/ /\ TakesTop(fl_index, ll_index)
                   /\ fl_pop' = fl_pop + 1 /\ ll_pop' = ll_pop
                \/ /\ TakesTop(ll_index, fl_index)
                   /\ ll_pop' = ll_pop + 1 /\ fl_pop' = fl_pop
           /\ SelectFront => TakesTop(fl_index, ll_index)
           /\ DrainFirst => TakesTop(fl_index, ll_index)
           /\ DrainLast => TakesTop(ll_index, fl_index)
<1> DEFINE fl == c_data[fl_index]
           ll == c_data[ll_index]
<1>1. ASSUME TakeMax PROVE TakesTop(fl_index, ll_index)
  <2>1. Takes(fl_index) /\ pc = "max" /\ pc \in Merging
    BY <1>1, TakingSteps DEF Merging, Selecting
  <2>2. Size(fl_index) > 0 /\ Size(ll_index) > 0
    BY <1>1, <2>1 DEF Takes, ShapeInv, HeadsExist
  <2>3. Head(fl).val >= Head(ll).val
    <3>1. 1 \in 1..Size(fl_index) /\ 1 <= Size(ll_index)
      BY <2>1, <2>2, PairLists
    <3>2. fl[1].val >= ll[1].val
      BY <2>1, <3>1 DEF OrderInv, PositionsOrdered
    <3> QED
      BY <2>1, <2>2, <3>2, PairLists
  <2>4. Head(fl).val \in Int /\ Head(ll).val \in Int
    BY <2>1, <2>2, PairLists, ValuesAreIntegers
  <2> QED
    BY <2>1, <2>2, <2>3, <2>4, PairLists DEF TakesTop
<1>2. ASSUME SelectCompare
      PROVE  \/ TakesTop(fl_index, ll_index) /\ fl_pop' = fl_pop + 1 /\ ll_pop' = ll_pop
             \/ TakesTop(ll_index, fl_index) /\ ll_pop' = ll_pop + 1 /\ fl_pop' = fl_pop
  <2>1. /\ pc = "select" /\ pc \in Merging /\ j < min_val
        /\ UNCHANGED <<fl_index, ll_index>>
    BY <1>2 DEF SelectCompare, Merging, Selecting, pairVars
  <2>2. Size(fl_index) > 0 /\ Size(ll_index) > 0
    BY <2>1, PairLists DEF ShapeInv, TypeOK, HeadsExist, Lesser
  <2>3. Head(fl) \in Sample /\ Head(ll) \in Sample
    BY <2>1, <2>2, PairLists
  <2>4. Head(fl).val \in Int /\ Head(ll).val \in Int
    BY <2>3, ValuesAreIntegers
  <2>5. CASE Cmp(Head(fl), Head(ll)) = 0
    <3>1. Head(fl).val >= Head(ll).val
      BY <2>3, <2>5, CmpCompares
    <3>2. Takes(fl_index) /\ fl_pop' = fl_pop + 1 /\ ll_pop' = ll_pop
      BY <1>2, <2>1, <2>2, <2>5 DEF SelectCompare, Takes
    <3> QED
      BY <2>1, <2>2, <2>4, <3>1, <3>2, PairLists DEF TakesTop
  <2>6. CASE Cmp(Head(fl), Head(ll)) # 0
    <3>1. Head(fl).val < Head(ll).val
      BY <2>3, <2>6, CmpCompares
    <3>2. Takes(ll_index) /\ ll_pop' = ll_pop + 1 /\ fl_pop' = fl_pop
      BY <1>2, <2>1, <2>2, <2>6 DEF SelectCompare, Takes
    <3> QED
      BY <2>1, <2>2, <2>4, <3>1, <3>2, PairLists DEF TakesTop
  <2> QED
    BY <2>5, <2>6
<1>3. ASSUME SelectFront PROVE TakesTop(fl_index, ll_index)
  <2>1. Takes(fl_index) /\ pc = "select" /\ pc \in Merging /\ j < min_val
        /\ fl_pop = ll_pop /\ fl_pop \in Nat
    BY <1>3, TakingSteps DEF Merging, Selecting, SelectFront, ShapeInv, TypeOK
  <2>2. Size(fl_index) > 0 /\ Size(ll_index) > 0
    BY <2>1, PairLists DEF ShapeInv, TypeOK, HeadsExist, Lesser
  <2>3. Head(fl).val >= Head(ll).val
    <3>1. 1 \in 1..Size(fl_index) /\ 1 + (fl_pop - ll_pop) = 1 /\ 1 <= Size(ll_index)
      BY <2>1, <2>2, PairLists
    <3>2. fl[1].val >= ll[1].val
      BY <2>1, <3>1 DEF OrderInv, PositionsOrdered
    <3> QED
      BY <2>1, <2>2, <3>2, PairLists
  <2>4. Head(fl).val \in Int /\ Head(ll).val \in Int
    BY <2>1, <2>2, PairLists, ValuesAreIntegers
  <2> QED
    BY <2>1, <2>2, <2>3, <2>4, PairLists DEF TakesTop
<1>4. ASSUME DrainFirst PROVE TakesTop(fl_index, ll_index)
  BY <1>4, TakingSteps DEF TakesTop, DrainsAll
<1>5. ASSUME DrainLast PROVE TakesTop(ll_index, fl_index)
  BY <1>5, TakingSteps DEF TakesTop, DrainsAll
<1> QED
  BY <1>1, <1>2, <1>3, <1>4, <1>5

(* Taking such a head keeps the lists and the prefix in order. *)
LEMMA TakingKeepsOrder ==
    ASSUME ShapeInv, OrderInv, pc \in Merging,
           NEW s \in {fl_index, ll_index}, NEW t \in {fl_index, ll_index}, s # t,
           TakesTop(s, t), pc' \in Merging
    PROVE  ListsDescend' /\ PrefixAbove'
<1> DEFINE x == Head(c_data[s])
<1>1. /\ Takes(s) /\ s \in Station /\ t \in Station /\ Size(s) > 0
      /\ fl_index' = fl_index /\ ll_index' = ll_index
      /\ {fl_index, ll_index} = {s, t}
  BY DEF TakesTop, Takes, ShapeInv, TypeOK
<1>2. /\ c_data[s] \in Seq(Sample) /\ x \in Sample /\ Desc(c_data[s]) /\ Len(c_data[s]) > 0
      /\ \A k \in 1..Len(c_data[s]) : x.val >= c_data[s][k].val
  BY <1>1, PairLists
<1>3. /\ c_data'[s] = Tail(c_data[s])
      /\ \A u \in Station \ {s} : c_data'[u] = c_data[u]
      /\ sorted \in Seq(Sample) /\ Desc(sorted)
      /\ sorted' = Append(sorted, x)
  BY <1>1, PoppedList DEF Takes, ShapeInv, OrderInv, ListsDescend
<1>4. /\ Desc(Tail(c_data[s]))
      /\ Len(Tail(c_data[s])) = Len(c_data[s]) - 1
      /\ \A k \in 1..(Len(c_data[s]) - 1) : Tail(c_data[s])[k] = c_data[s][k + 1]
  BY <1>2, TailDescends
<1>5. \A m \in 1..Len(sorted) :
        /\ \A k \in 1..Len(c_data[s]) : sorted[m].val >= c_data[s][k].val
        /\ \A k \in 1..Len(c_data[t]) : sorted[m].val >= c_data[t][k].val
  BY DEF OrderInv, PrefixAbove, Size
<1>6. \A m \in 1..Len(sorted) : sorted[m].val >= x.val
  BY <1>1, <1>2, <1>5, PairLists
<1>7. /\ Len(sorted') = Len(sorted) + 1 /\ Len(sorted) \in Nat
      /\ \A m \in 1..Len(sorted) : sorted'[m] = sorted[m]
      /\ sorted'[Len(sorted) + 1] = x
      /\ Desc(sorted')
  BY <1>2, <1>3, <1>6, AppendDescends
<1>8. ListsDescend'
  <2>1. \A u \in Station : Desc(c_data'[u])
    BY <1>3, <1>4 DEF OrderInv, ListsDescend
  <2> QED
    BY <1>7, <2>1 DEF ListsDescend
<1>9. ASSUME NEW m \in 1..Len(sorted'), NEW u \in {s, t}, NEW k \in 1..Len(c_data'[u])
      PROVE  sorted'[m].val >= c_data'[u][k].val
  <2>1. \E v \in {s, t} : \E q \in 1..Len(c_data[v]) : c_data'[u][k] = c_data[v][q]
    <3>1. CASE u = s
      <4>0. /\ Len(c_data'[s]) = Len(c_data[s]) - 1 /\ Len(c_data[s]) \in Nat
            /\ k \in 1..Len(c_data'[s])
        <5>1. Len(c_data[s]) \in Nat
          BY <1>2
        <5>2. Len(c_data'[s]) = Len(c_data[s]) - 1
          BY <1>3, <1>4
        <5> QED
          BY <3>1, <5>1, <5>2
      <4>1. k \in 1..(Len(c_data[s]) - 1) /\ k + 1 \in 1..Len(c_data[s])
        BY <4>0
      <4> QED
        BY <1>3, <1>4, <3>1, <4>1
    <3>2. CASE u = t
      BY <1>1, <1>3, <3>2
    <3> QED
      BY <3>1, <3>2
  <2>2. PICK v \in {s, t} : \E q \in 1..Len(c_data[v]) : c_data'[u][k] = c_data[v][q]
    BY <2>1
  <2>3. PICK q \in 1..Len(c_data[v]) : c_data'[u][k] = c_data[v][q]
    BY <2>2
  <2>4. CASE m \in 1..Len(sorted)
    BY <1>5, <1>7, <2>3, <2>4
  <2>5. CASE m = Len(sorted) + 1
    <3>1. \A r \in 1..Len(c_data[t]) : x.val >= c_data[t][r].val
      BY DEF TakesTop, Size
    <3> QED
      BY <1>2, <1>7, <2>3, <2>5, <3>1
  <2> QED
    BY <1>7, <2>4, <2>5
<1> QED
  BY <1>1, <1>8, <1>9 DEF PrefixAbove, Size

LEMMA ShuffleKeepsOrder ==
    ASSUME ShapeInv, OrderInv, Shuffle
    PROVE  ListsDescend' /\ PrefixAbove' /\ PositionsOrdered'
<1> DEFINE fl == c_data[fl_index]
           ll == c_data[ll_index]
           up == c_data'[fl_index]
           low == c_data'[ll_index]
<1>1. /\ pc \in Merging /\ pc' = "max" /\ pc' \in Merging /\ sorted' = sorted
      /\ fl_index' = fl_index /\ ll_index' = ll_index
  BY DEF Shuffle, Merging, Selecting, pairVars
<1>2. /\ fl \in Seq(Sample) /\ ll \in Seq(Sample)
      /\ Len(fl) >= Len(ll) /\ Shuffled(fl, ll, up, low)
      /\ \A s \in Station \ {fl_index, ll_index} : c_data'[s] = c_data[s]
  BY ShuffledLists
<1>3. Desc(fl) /\ Desc(ll)
  BY <1>1, PairLists
<1>4. /\ Desc(up) /\ Desc(low)
      /\ \A k \in 1..Len(ll) : up[k].val >= low[k].val
  BY <1>2, <1>3, ShuffleOrders
<1>5. ListsDescend'
  BY <1>1, <1>2, <1>4 DEF ListsDescend, OrderInv
<1>6. PositionsOrdered'
  BY <1>1, <1>2, <1>4 DEF PositionsOrdered, Shuffled, Size
<1>7. ASSUME NEW m \in 1..Len(sorted)
      PROVE  /\ \A k \in 1..Len(up) : sorted[m].val >= up[k].val
             /\ \A k \in 1..Len(low) : sorted[m].val >= low[k].val
  <2>1. /\ \A k \in 1..Len(fl) : sorted[m].val >= fl[k].val
        /\ \A k \in 1..Len(ll) : sorted[m].val >= ll[k].val
    BY <1>1 DEF OrderInv, PrefixAbove, Size
  <2>2. /\ \A k \in 1..Len(ll) : k \in 1..Len(fl)
        /\ \A k \in 1..Len(fl) : k \in 1..Len(ll) \/ k > Len(ll)
    BY <1>2
  <2> QED
    BY <1>2, <2>1, <2>2 DEF Shuffled
<1>8. PrefixAbove'
  BY <1>1, <1>7 DEF PrefixAbove, Size
<1> QED
  BY <1>5, <1>6, <1>8

LEMMA PositionsStep ==
    ASSUME ShapeInv, OrderInv, TakeMax \/ SelectCompare \/ SelectFront
    PROVE  PositionsOrdered'
<1> DEFINE fl == c_data[fl_index]
           ll == c_data[ll_index]
<1>1. /\ pc \in Merging /\ pc' = "select"
      /\ fl_index' = fl_index /\ ll_index' = ll_index /\ fl_index # ll_index
      /\ fl_index \in Station /\ ll_index \in Station
  BY TakingSteps, SlotsAreStations
  DEF TakeMax, SelectCompare, SelectFront, pairVars, Merging, Selecting, ShapeInv, TypeOK
<1>2. /\ fl \in Seq(Sample) /\ ll \in Seq(Sample)
      /\ Len(fl) \in Nat /\ Len(ll) \in Nat /\ fl_pop \in Nat /\ ll_pop \in Nat
  BY DEF ShapeInv, TypeOK
<1>3. ASSUME NEW s \in Station, Takes(s)
      PROVE  /\ Len(c_data[s]) > 0
             /\ Len(c_data'[s]) = Len(c_data[s]) - 1
             /\ \A k \in 1..(Len(c_data[s]) - 1) : c_data'[s][k] = c_data[s][k + 1]
             /\ \A t \in Station \ {s} : c_data'[t] = c_data[t]
  <2>1. c_data[s] \in Seq(Sample) /\ Len(c_data[s]) > 0
    BY <1>3 DEF ShapeInv, TypeOK, Takes, Size
  <2>2. \A k \in 1..(Len(c_data[s]) - 1) : Tail(c_data[s])[k] = c_data[s][k + 1]
    BY <2>1
  <2> QED
    BY <1>3, <2>1, <2>2, PoppedList DEF ShapeInv, Takes
<1>4. SUFFICES /\ fl_pop' >= ll_pop'
               /\ \A k \in 1..Len(c_data'[fl_index]) :
                    k + (fl_pop' - ll_pop') <= Len(c_data'[ll_index]) =>
                      c_data'[fl_index][k].val
                        >= c_data'[ll_index][k + (fl_pop' - ll_pop')].val
  BY <1>1 DEF PositionsOrdered, Size
<1>5. CASE TakeMax
  <2>1. Takes(fl_index) /\ fl_pop' = 1 /\ ll_pop' = 0 /\ pc = "max"
    BY <1>5, TakingSteps DEF TakeMax
  <2>2. \A k \in 1..Len(fl) : k <= Len(ll) => fl[k].val >= ll[k].val
    BY <2>1 DEF OrderInv, PositionsOrdered, Size
  <2>3. ASSUME NEW k \in 1..(Len(fl) - 1), k + 1 <= Len(ll)
        PROVE  c_data'[fl_index][k].val >= c_data'[ll_index][k + 1].val
    <3>1. k + 1 \in 1..Len(fl)
      BY <1>2
    <3>2. c_data'[fl_index][k] = fl[k + 1] /\ c_data'[ll_index] = ll
      BY <1>1, <1>3, <2>1
    <3> QED
      BY <2>2, <2>3, <3>1, <3>2
  <2> QED
    BY <1>1, <1>2, <1>3, <2>1, <2>3
<1>6. CASE /\ SelectCompare \/ SelectFront
           /\ Takes(fl_index) /\ fl_pop' = fl_pop + 1 /\ ll_pop' = ll_pop
  <2>1. /\ fl_pop >= ll_pop
        /\ \A k \in 1..Len(fl) : k + (fl_pop - ll_pop) <= Len(ll) =>
              fl[k].val >= ll[k + (fl_pop - ll_pop)].val
    BY <1>6 DEF SelectCompare, SelectFront, OrderInv, PositionsOrdered, Size
  <2>2. ASSUME NEW k \in 1..(Len(fl) - 1), k + (fl_pop + 1 - ll_pop) <= Len(ll)
        PROVE  c_data'[fl_index][k].val >= c_data'[ll_index][k + (fl_pop + 1 - ll_pop)].val
    <3>1. /\ k + 1 \in 1..Len(fl)
          /\ (k + 1) + (fl_pop - ll_pop) = k + (fl_pop + 1 - ll_pop)
      BY <1>2
    <3>2. c_data'[fl_index][k] = fl[k + 1] /\ c_data'[ll_index] = ll
      BY <1>1, <1>3, <1>6
    <3>3. fl[k + 1].val >= ll[(k + 1) + (fl_pop - ll_pop)].val
      BY <2>1, <2>2, <3>1
    <3> QED
      BY <3>1, <3>2, <3>3
  <2>3. Len(c_data'[fl_index]) = Len(fl) - 1 /\ c_data'[ll_index] = ll
    BY <1>1, <1>3, <1>6
  <2>4. fl_pop' - ll_pop' = fl_pop + 1 - ll_pop /\ fl_pop' >= ll_pop'
    BY <1>2, <1>6, <2>1
  <2> QED
    BY <2>2, <2>3, <2>4
<1>7. CASE /\ SelectCompare
           /\ Takes(ll_index) /\ ll_pop' = ll_pop + 1 /\ fl_pop' = fl_pop
  <2>1. /\ fl_pop > ll_pop
        /\ \A k \in 1..Len(fl) : k + (fl_pop - ll_pop) <= Len(ll) =>
              fl[k].val >= ll[k + (fl_pop - ll_pop)].val
    BY <1>2, <1>7 DEF SelectCompare, OrderInv, PositionsOrdered, Size
  <2>2. ASSUME NEW k \in 1..Len(fl), k + (fl_pop - (ll_pop + 1)) <= Len(ll) - 1
        PROVE  c_data'[fl_index][k].val
                 >= c_data'[ll_index][k + (fl_pop - (ll_pop + 1))].val
    <3>1. /\ k + (fl_pop - (ll_pop + 1)) \in 1..(Len(ll) - 1)
          /\ (k + (fl_pop - (ll_pop + 1))) + 1 = k + (fl_pop - ll_pop)
          /\ k + (fl_pop - ll_pop) <= Len(ll)
      BY <1>2, <2>1, <2>2
    <3>2. /\ c_data'[fl_index] = fl
          /\ c_data'[ll_index][k + (fl_pop - (ll_pop + 1))] = ll[k + (fl_pop - ll_pop)]
      BY <1>1, <1>3, <1>7, <3>1
    <3> QED
      BY <2>1, <3>1, <3>2
  <2> QED
    BY <1>1, <1>2, <1>3, <1>7, <2>1, <2>2
<1> QED
  <2>1. SelectCompare =>
          \/ Takes(fl_index) /\ fl_pop' = fl_pop + 1 /\ ll_pop' = ll_pop
          \/ Takes(ll_index) /\ ll_pop' = ll_pop + 1 /\ fl_pop' = fl_pop
    <3> SUFFICES ASSUME SelectCompare
                 PROVE  \/ Takes(fl_index) /\ fl_pop' = fl_pop + 1 /\ ll_pop' = ll_pop
                        \/ Takes(ll_index) /\ ll_pop' = ll_pop + 1 /\ fl_pop' = fl_pop
      OBVIOUS
    <3>1. Size(fl_index) > 0 /\ Size(ll_index) > 0
      BY DEF SelectCompare, ShapeInv, TypeOK, HeadsExist, Lesser, Size
    <3> QED
      BY <3>1 DEF SelectCompare, Takes, pairVars
  <2>2. SelectFront => Takes(fl_index) /\ fl_pop' = fl_pop + 1 /\ ll_pop' = ll_pop
    BY TakingSteps DEF SelectFront
  <2> QED
    BY <1>5, <1>6, <1>7, <2>1, <2>2

LEMMA OrderStep == ShapeInv /\ DrainsAll /\ OrderInv /\ [Next]_vars => OrderInv'
<1> SUFFICES ASSUME ShapeInv, DrainsAll, OrderInv, [Next]_vars PROVE OrderInv'
  OBVIOUS
<1>1. CASE Shuffle
  BY <1>1, ShuffleKeepsOrder DEF OrderInv
<1>2. CASE TakeMax \/ SelectCompare \/ SelectFront \/ DrainFirst \/ DrainLast
  <2>1. /\ pc \in Merging /\ pc' \in Merging
        /\ DrainFirst \/ DrainLast => pc' \notin Selecting
    BY <1>2, TakingSteps DEF Merging, Selecting
  <2>2. fl_index # ll_index
    BY <2>1, SlotsAreStations DEF ShapeInv
  <2>3. TakesTop(fl_index, ll_index) \/ TakesTop(ll_index, fl_index)
    BY <1>2, TakesFromTop
  <2>4. ListsDescend' /\ PrefixAbove'
    BY <2>1, <2>2, <2>3, TakingKeepsOrder
  <2>5. PositionsOrdered'
    <3>1. CASE DrainFirst \/ DrainLast
      BY <2>1, <3>1 DEF PositionsOrdered, Selecting
    <3> QED
      BY <1>2, <3>1, PositionsStep
  <2> QED
    BY <2>4, <2>5 DEF OrderInv
<1>3. CASE EndPair
  <2>1. c_data' = [c_data EXCEPT ![i] = sorted, ![i + 1] = <<>>] /\ sorted' = <<>>
        /\ pc' = "pair"
    BY <1>3 DEF EndPair
  <2>2. Desc(<<>>) /\ Desc(sorted) /\ \A s \in Station : Desc(c_data[s])
    BY DEF Desc, OrderInv, ListsDescend
  <2>3. ListsDescend'
    BY <2>1, <2>2 DEF ListsDescend, ShapeInv, TypeOK
  <2>4. PrefixAbove' /\ PositionsOrdered'
    BY <2>1 DEF PrefixAbove, PositionsOrdered, Merging, Selecting
  <2> QED
    BY <2>3, <2>4 DEF OrderInv
<1>4. CASE BeginCompact \/ CompactOne
  <2>1. /\ pc \notin Merging /\ pc' = "compact" /\ sorted' = sorted
        /\ \/ c_data' = [c_data EXCEPT ![1] = <<>>]
           \/ c_data' = [c_data EXCEPT ![i] = <<>>]
           \/ i \in Station /\ c_data' = [c_data EXCEPT ![i \div 2] = c_data[i], ![i] = <<>>]
    BY <1>4, NStationAssumption
    DEF BeginCompact, CompactOne, Merging, Selecting, ShapeInv, TypeOK, Station
  <2>2. Desc(<<>>) /\ Desc(sorted) /\ \A s \in Station : Desc(c_data[s])
    BY DEF Desc, OrderInv, ListsDescend
  <2>3. ListsDescend'
    BY <2>1, <2>2 DEF ListsDescend, ShapeInv, TypeOK
  <2>4. PrefixAbove' /\ PositionsOrdered'
    BY <2>1 DEF PrefixAbove, PositionsOrdered, OrderInv, Merging, Selecting
  <2> QED
    BY <2>3, <2>4 DEF OrderInv
<1>5. CASE QuietStep
  <2>1. c_data' = c_data /\ sorted' = sorted
    BY <1>5, QuietKeeps
  <2>2. ListsDescend'
    BY <2>1 DEF ListsDescend, OrderInv
  <2>3. PositionsOrdered'
    <3>1. UNCHANGED vars \/ pc' \notin Selecting
      BY <1>5 DEF QuietStep, BeginRound, Return, BeginPair, SelectStop, SelectEnd, Exchange,
                  BeginDrain, EndRound, Done, Selecting
    <3>2. CASE UNCHANGED vars
      BY <3>2 DEF vars, PositionsOrdered, OrderInv, Size
    <3>3. CASE pc' \notin Selecting
      BY <3>3 DEF PositionsOrdered, Selecting
    <3> QED
      BY <3>1, <3>2, <3>3
  <2>4. PrefixAbove'
    <3>1. CASE BeginPair
      <4>1. sorted' = <<>>
        BY <2>1, <3>1 DEF BeginPair, OrderInv, PrefixAbove, Merging, Selecting
      <4> QED
        BY <4>1 DEF PrefixAbove
    <3>2. CASE ~BeginPair
      <4>1. /\ pc \in Merging <=> pc' \in Merging
            /\ pc \in Merging => {fl_index', ll_index'} = {fl_index, ll_index}
        BY <1>5, <3>2 DEF QuietStep, BeginRound, Return, SelectStop, SelectEnd, Exchange,
              BeginDrain, EndRound, Done, vars, pairVars, Merging, Selecting
      <4> QED
        BY <2>1, <4>1 DEF PrefixAbove, OrderInv, Size
    <3> QED
      BY <3>1, <3>2
  <2> QED
    BY <2>2, <2>3, <2>4 DEF OrderInv
<1> QED
  BY <1>1, <1>2, <1>3, <1>4, <1>5, NextCases

-----------------------------------------------------------------------------
(* The inductive invariant: the shape of the state, the emptied slots and  *)
(* the order of the lists.                                                 *)
SortInv == ShapeInv /\ BuffersHold /\ DrainsAll /\ SlotsCleared /\ OrderInv

LEMMA InitSortInv == Init => SortInv
<1> SUFFICES ASSUME Init PROVE SortInv
  OBVIOUS
<1>1. /\ c_data \in [Station -> Seq(Sample)] /\ \A s \in Station : Desc(c_data[s])
      /\ tmp_delta \in Int /\ 0 \in Station
      /\ sorted = <<>> /\ pc = "round" /\ nstation = NStation /\ i = 0
  BY InputsAssumption, DeltasAssumption, NStationAssumption DEF Init, Station
<1>2. TypeOK
  BY <1>1, NStationAssumption DEF Init, TypeOK
<1>3. PairSlots /\ HeadsExist /\ BuffersHold /\ DrainsAll
  BY <1>1 DEF PairSlots, HeadsExist, BuffersHold, DrainsAll, Merging, Selecting
<1>4. SlotsCleared
  BY <1>1, NStationAssumption DEF SlotsCleared, Station, Merging, Selecting
<1>5. OrderInv
  BY <1>1 DEF OrderInv, ListsDescend, PrefixAbove, PositionsOrdered, Desc, Merging, Selecting
<1> QED
  BY <1>2, <1>3, <1>4, <1>5 DEF SortInv, ShapeInv

LEMMA SortInvStep == SortInv /\ [Next]_vars => SortInv'
BY ShapeStep, BuffersStep, DrainsStep, SlotsClearedStep, OrderStep DEF SortInv

(* In every execution of SORT the state has its type, the slots and sizes  *)
(* are as the code relies on, and every list descends.                     *)
THEOREM SortInvariant == Spec => []SortInv
BY InitSortInv, SortInvStep, PTL DEF Spec

(* Types. *)
THEOREM SortTypes == Spec => []TypeOK
BY SortInvariant, PTL DEF SortInv, ShapeInv

(* Whatever is taken from the pair, compared or not, is a greatest sample  *)
(* of it: the merged prefix is never below what remains.                   *)
THEOREM SortPrefix == Spec => []PrefixAbove
BY SortInvariant, PTL DEF SortInv, OrderInv

(* Heads that share an original position need no comparison: the shuffle   *)
(* ordered them and no selection since has undone that.                    *)
THEOREM SortPositions == Spec => []PositionsOrdered
BY SortInvariant, PTL DEF SortInv, OrderInv

(* The pair stays in its two slots, whichever list is the longer one, and  *)
(* the slots of finished lists stay empty until they are used again.       *)
THEOREM SortSlots == Spec => [](PairSlots /\ SlotsCleared)
BY SortInvariant, PTL DEF SortInv, ShapeInv

(* The selection loop never reads the head of an empty list, and the first *)
(* list is the longer one when it must be.                                 *)
THEOREM SortHeads == Spec => []HeadsExist
BY SortInvariant, PTL DEF SortInv, ShapeInv

(* The per-pair arrays are never overrun.                                  *)
THEOREM SortBuffers == Spec => []BuffersHold
BY SortInvariant, PTL DEF SortInv

(* Draining one list never throws samples of the other away.               *)
THEOREM SortDrains == Spec => []DrainsAll
BY SortInvariant, PTL DEF SortInv

(* When SORT returns, slot 0 holds a descending list and every other slot  *)
(* is empty.                                                               *)
THEOREM SortResult == Spec => []ResultSorted
<1>1. SortInv => ResultSorted
  BY NStationAssumption
  DEF SortInv, ShapeInv, TypeOK, PairSlots, SlotsCleared, OrderInv, ListsDescend,
      ResultSorted, Station
<1> QED
  BY <1>1, SortInvariant, PTL

-----------------------------------------------------------------------------
(* No sample is lost and none appears. *)

LEMMA InSamples ==
    ASSUME NEW lists, NEW out, NEW x
    PROVE  x \in SamplesIn(lists, out) <=>
              \/ \E s \in Station : x \in Elements(lists[s])
              \/ x \in Elements(out)
<1> DEFINE U == UNION {Elements(lists[s]) : s \in Station}
<1>1. ASSUME x \in U
      PROVE  \E s \in Station : x \in Elements(lists[s])
  <2>1. PICK E \in {Elements(lists[s]) : s \in Station} : x \in E
    BY <1>1
  <2>2. PICK s \in Station : E = Elements(lists[s])
    BY <2>1, Zenon
  <2> QED
    BY <2>1, <2>2
<1>2. ASSUME NEW s \in Station, x \in Elements(lists[s])
      PROVE  x \in U
  BY <1>2, Zenon
<1>3. SamplesIn(lists, out) = U \cup Elements(out)
  BY DEF SamplesIn
<1> HIDE DEF U
<1> QED
  BY <1>1, <1>2, <1>3

LEMMA TakeKeepsElements ==
    ASSUME ShapeInv, NEW s \in Station, Takes(s)
    PROVE  /\ Elements(c_data'[s]) \cup Elements(sorted')
                = Elements(c_data[s]) \cup Elements(sorted)
           /\ \A t \in Station \ {s} : c_data'[t] = c_data[t]
<1>1. /\ c_data[s] \in Seq(Sample) /\ sorted \in Seq(Sample) /\ Len(c_data[s]) > 0
      /\ c_data'[s] = Tail(c_data[s]) /\ sorted' = Append(sorted, Head(c_data[s]))
      /\ Head(c_data[s]) \in Sample
      /\ \A t \in Station \ {s} : c_data'[t] = c_data[t]
  BY PoppedList DEF Takes, ShapeInv, TypeOK, Size
<1>2. \A list \in Seq(Sample) : Len(list) > 0 =>
        Elements(list) = Elements(Tail(list)) \cup {Head(list)}
  <2> SUFFICES ASSUME NEW list \in Seq(Sample), Len(list) > 0
               PROVE  Elements(list) = Elements(Tail(list)) \cup {Head(list)}
    OBVIOUS
  <2>1. /\ Len(list) \in Nat
        /\ Head(list) = list[1]
        /\ Len(Tail(list)) = Len(list) - 1
        /\ \A k \in 1..(Len(list) - 1) : Tail(list)[k] = list[k + 1]
    OBVIOUS
  <2>2. ASSUME NEW k \in 1..Len(list)
        PROVE  list[k] \in Elements(Tail(list)) \cup {Head(list)}
    <3>1. CASE k = 1
      BY <2>1, <3>1
    <3>2. CASE k # 1
      <4>1. k - 1 \in 1..(Len(list) - 1) /\ (k - 1) + 1 = k
        BY <2>1, <3>2
      <4>2. list[k] = Tail(list)[k - 1]
        BY <2>1, <4>1
      <4> QED
        BY <2>1, <4>1, <4>2 DEF Elements
    <3> QED
      BY <3>1, <3>2
  <2>3. ASSUME NEW k \in 1..(Len(list) - 1)
        PROVE  Tail(list)[k] \in Elements(list)
    <3>1. k + 1 \in 1..Len(list)
      BY <2>1
    <3> QED
      BY <2>1, <3>1 DEF Elements
  <2>4. Head(list) \in Elements(list)
    BY <2>1 DEF Elements
  <2>5. Elements(list) \subseteq Elements(Tail(list)) \cup {Head(list)}
    BY <2>2 DEF Elements
  <2>6. Elements(Tail(list)) \subseteq Elements(list)
    BY <2>1, <2>3 DEF Elements
  <2> QED
    BY <2>4, <2>5, <2>6
<1>3. \A list \in Seq(Sample), x \in Sample :
        Elements(Append(list, x)) = Elements(list) \cup {x}
  <2> SUFFICES ASSUME NEW list \in Seq(Sample), NEW x \in Sample
               PROVE  Elements(Append(list, x)) = Elements(list) \cup {x}
    OBVIOUS
  <2>1. /\ Len(list) \in Nat
        /\ Len(Append(list, x)) = Len(list) + 1
        /\ \A k \in 1..Len(list) : Append(list, x)[k] = list[k]
        /\ Append(list, x)[Len(list) + 1] = x
    OBVIOUS
  <2>2. 1..(Len(list) + 1) = (1..Len(list)) \cup {Len(list) + 1}
    BY <2>1
  <2> QED
    BY <2>1, <2>2 DEF Elements
<1> QED
  BY <1>1, <1>2, <1>3

LEMMA ShuffleKeepsElements ==
    ASSUME ShapeInv, Shuffle
    PROVE  /\ Elements(c_data'[fl_index]) \cup Elements(c_data'[ll_index])
                = Elements(c_data[fl_index]) \cup Elements(c_data[ll_index])
           /\ \A s \in Station \ {fl_index, ll_index} : c_data'[s] = c_data[s]
           /\ sorted' = sorted /\ fl_index \in Station /\ ll_index \in Station
<1> DEFINE fl == c_data[fl_index]
           ll == c_data[ll_index]
           up == c_data'[fl_index]
           low == c_data'[ll_index]
<1>1. /\ fl \in Seq(Sample) /\ ll \in Seq(Sample)
      /\ Len(fl) >= Len(ll) /\ Shuffled(fl, ll, up, low)
      /\ \A s \in Station \ {fl_index, ll_index} : c_data'[s] = c_data[s]
      /\ sorted' = sorted /\ fl_index \in Station /\ ll_index \in Station
  BY ShuffledLists DEF Shuffle, ShapeInv, TypeOK
<1>2. /\ \A k \in 1..Len(ll) : k \in 1..Len(fl)
      /\ \A k \in 1..Len(fl) : k \in 1..Len(ll) \/ k > Len(ll)
  BY <1>1
<1>3. Elements(up) \cup Elements(low) \subseteq Elements(fl) \cup Elements(ll)
  <2>1. ASSUME NEW k \in 1..Len(ll)
        PROVE  {up[k], low[k]} \subseteq Elements(fl) \cup Elements(ll)
    <3>1. k \in 1..Len(fl) /\ {fl[k], ll[k]} = {up[k], low[k]}
      BY <1>1, <1>2 DEF Shuffled
    <3> QED
      BY <3>1 DEF Elements
  <2>2. ASSUME NEW k \in 1..Len(fl), k > Len(ll)
        PROVE  up[k] \in Elements(fl)
    <3>1. up[k] = fl[k]
      BY <1>1, <2>2 DEF Shuffled
    <3> QED
      BY <3>1 DEF Elements
  <2>3. Len(up) = Len(fl) /\ Len(low) = Len(ll)
    BY <1>1 DEF Shuffled
  <2> QED
    BY <1>2, <2>1, <2>2, <2>3 DEF Elements
<1>4. Elements(fl) \cup Elements(ll) \subseteq Elements(up) \cup Elements(low)
  <2>1. ASSUME NEW k \in 1..Len(ll)
        PROVE  {fl[k], ll[k]} \subseteq Elements(up) \cup Elements(low)
    <3>1. /\ k \in 1..Len(up) /\ k \in 1..Len(low)
          /\ {fl[k], ll[k]} = {up[k], low[k]}
      BY <1>1, <1>2 DEF Shuffled
    <3> QED
      BY <3>1 DEF Elements
  <2>2. ASSUME NEW k \in 1..Len(fl), k > Len(ll)
        PROVE  fl[k] \in Elements(up)
    <3>1. k \in 1..Len(up) /\ up[k] = fl[k]
      BY <1>1, <2>2 DEF Shuffled
    <3> QED
      BY <3>1 DEF Elements
  <2> QED
    BY <1>2, <2>1, <2>2 DEF Elements
<1> QED
  BY <1>1, <1>3, <1>4

(* A merged pair leaves nothing behind in its two slots.                    *)
LEMMA EndedPair ==
    ASSUME ShapeInv, DrainsAll, EndPair
    PROVE  /\ i \in Station /\ i + 1 \in Station /\ i # i + 1
           /\ c_data[i] = <<>> /\ c_data[i + 1] = <<>>
           /\ c_data'[i] = sorted /\ c_data'[i + 1] = <<>> /\ sorted' = <<>>
           /\ \A t \in Station \ {i, i + 1} : c_data'[t] = c_data[t]
<1>1. /\ c_data' = [c_data EXCEPT ![i] = sorted, ![i + 1] = <<>>] /\ sorted' = <<>>
      /\ i \in Station /\ i + 1 \in Station /\ i # i + 1
  BY SlotsAreStations DEF EndPair, Merging, ShapeInv
<1>2. Size(fl_index) = 0 /\ Size(ll_index) = 0
  BY DEF EndPair, DrainsAll
<1>3. Size(i) = 0 /\ Size(i + 1) = 0
  BY <1>2 DEF EndPair, Merging, ShapeInv, PairSlots
<1>4. c_data[i] = <<>> /\ c_data[i + 1] = <<>>
  BY <1>1, <1>3 DEF Size, ShapeInv, TypeOK
<1>5. /\ c_data'[i] = sorted /\ c_data'[i + 1] = <<>>
      /\ \A t \in Station \ {i, i + 1} : c_data'[t] = c_data[t]
  BY <1>1 DEF ShapeInv, TypeOK
<1> QED
  BY <1>1, <1>4, <1>5

(* The compaction moves a list into an empty slot or changes nothing.       *)
LEMMA CompactionMoves ==
    ASSUME ShapeInv, SlotsCleared, BeginCompact \/ CompactOne
    PROVE  /\ sorted' = sorted /\ pc \in {"pair", "compact"} /\ pc' = "compact"
           /\ \/ c_data' = c_data
              \/ \E s, t \in Station :
                    /\ s # t
                    /\ c_data[t] = <<>> /\ c_data'[t] = c_data[s] /\ c_data'[s] = <<>>
                    /\ \A u \in Station \ {s, t} : c_data'[u] = c_data[u]
<1>1. CASE BeginCompact
  <2>1. /\ c_data' = [c_data EXCEPT ![1] = <<>>] /\ sorted' = sorted
        /\ pc = "pair" /\ pc' = "compact"
        /\ i >= nstation - (nstation % 2) /\ nstation >= 2
        /\ i \in Nat /\ nstation \in 1..NStation
    BY <1>1 DEF BeginCompact, ShapeInv, PairSlots, TypeOK
  <2>2. 1 \in Station /\ 1 < i
    BY <2>1, NStationAssumption DEF Station
  <2>3. c_data[1] = <<>>
    BY <2>1, <2>2 DEF SlotsCleared
  <2>4. c_data' = c_data
    BY <2>1, <2>3 DEF ShapeInv, TypeOK
  <2> QED
    BY <2>1, <2>4
<1>2. CASE CompactOne
  <2>1. /\ pc = "compact" /\ pc' = "compact"
        /\ i \in Nat /\ i >= 1 /\ i < nstation /\ nstation \in 1..NStation
        /\ sorted' = sorted
    BY <1>2 DEF CompactOne, ShapeInv, PairSlots, TypeOK
  <2>2. i \in Station
    BY <2>1, NStationAssumption DEF Station
  <2>3. CASE i % 2 = 0
    <3>1. /\ i \div 2 \in Nat /\ i \div 2 < i /\ 2 * (i \div 2) >= i
      BY <2>1, <2>3
    <3>2. i \div 2 \in Station /\ i # i \div 2
      BY <2>1, <3>1, NStationAssumption DEF Station
    <3>3. c_data[i \div 2] = <<>>
      BY <2>1, <3>1, <3>2 DEF SlotsCleared
    <3>4. /\ c_data'[i \div 2] = c_data[i] /\ c_data'[i] = <<>>
          /\ \A t \in Station \ {i, i \div 2} : c_data'[t] = c_data[t]
      BY <1>2, <2>2, <2>3, <3>1, <3>2 DEF CompactOne, ShapeInv, TypeOK
    <3> QED
      BY <2>1, <2>2, <3>2, <3>3, <3>4
  <2>4. CASE i % 2 # 0
    <3>1. c_data[i] = <<>>
      BY <2>1, <2>2, <2>4 DEF SlotsCleared
    <3>2. c_data' = c_data
      BY <1>2, <2>2, <2>4, <3>1 DEF CompactOne, ShapeInv, TypeOK
    <3> QED
      BY <2>1, <3>2
  <2> QED
    BY <2>3, <2>4
<1> QED
  BY <1>1, <1>2

LEMMA SamplesStep == SortInv /\ [Next]_vars => Samples' = Samples
<1> SUFFICES ASSUME SortInv, [Next]_vars PROVE Samples' = Samples
  OBVIOUS
<1> USE DEF SortInv
<1>1. CASE Shuffle
  <2>1. ASSUME NEW x
        PROVE  x \in SamplesIn(c_data', sorted') <=> x \in SamplesIn(c_data, sorted)
    BY <1>1, ShuffleKeepsElements, InSamples
  <2> QED
    BY <2>1 DEF Samples
<1>2. CASE TakeMax \/ SelectCompare \/ SelectFront \/ DrainFirst \/ DrainLast
  <2>1. PICK s \in {fl_index, ll_index} : Takes(s)
    BY <1>2, TakingSteps
  <2>2. s \in Station
    BY DEF ShapeInv, TypeOK
  <2>3. /\ Elements(c_data'[s]) \cup Elements(sorted')
             = Elements(c_data[s]) \cup Elements(sorted)
        /\ \A t \in Station \ {s} : c_data'[t] = c_data[t]
    BY <2>1, <2>2, TakeKeepsElements
  <2>4. ASSUME NEW x
        PROVE  x \in SamplesIn(c_data', sorted') <=> x \in SamplesIn(c_data, sorted)
    BY <2>2, <2>3, InSamples
  <2> QED
    BY <2>4 DEF Samples
<1>3. CASE EndPair
  <2>1. Elements(<<>>) = {}
    BY DEF Elements
  <2>2. ASSUME NEW x
        PROVE  x \in SamplesIn(c_data', sorted') <=> x \in SamplesIn(c_data, sorted)
    <3>1. \A s \in Station :
            x \in Elements(c_data'[s]) => x \in Elements(c_data[s]) \/ x \in Elements(sorted)
      BY <1>3, <2>1, EndedPair
    <3>2. \A s \in Station : x \in Elements(c_data[s]) => x \in Elements(c_data'[s])
      BY <1>3, <2>1, EndedPair
    <3>3. x \in Elements(sorted) => x \in Elements(c_data'[i])
      BY <1>3, EndedPair
    <3>4. x \notin Elements(sorted') /\ i \in Station
      BY <1>3, <2>1, EndedPair
    <3> QED
      BY <3>1, <3>2, <3>3, <3>4, InSamples
  <2> QED
    BY <2>2 DEF Samples
<1>4. CASE BeginCompact \/ CompactOne
  <2>1. CASE c_data' = c_data
    BY <1>4, <2>1, CompactionMoves DEF Samples
  <2>2. CASE c_data' # c_data
    <3>1. PICK s \in Station, t \in Station :
             /\ c_data[t] = <<>> /\ c_data'[t] = c_data[s] /\ c_data'[s] = <<>>
             /\ \A u \in Station \ {s, t} : c_data'[u] = c_data[u]
      BY <1>4, <2>2, CompactionMoves
    <3>2. sorted' = sorted /\ Elements(<<>>) = {}
      BY <1>4, CompactionMoves DEF Elements
    <3>3. ASSUME NEW x
          PROVE  x \in SamplesIn(c_data', sorted') <=> x \in SamplesIn(c_data, sorted)
      BY <3>1, <3>2, InSamples
    <3> QED
      BY <3>3 DEF Samples
  <2> QED
    BY <2>1, <2>2
<1>5. CASE QuietStep
  BY <1>5, QuietKeeps DEF Samples
<1> QED
  BY <1>1, <1>2, <1>3, <1>4, <1>5, NextCases

(* From the input to the result the set of samples never changes: not by a *)
(* shuffle, a merge, the reuse of a slot or the end of a pair.             *)
THEOREM SortKeepsSamples == Spec => SamplesKept
<1>1. SortInv /\ [Next]_vars => [Samples' = Samples]_vars
  BY SamplesStep
<1> QED
  BY <1>1, SortInvariant, PTL DEF Spec, SamplesKept

-----------------------------------------------------------------------------
-----------------------------------------------------------------------------
(* A sample stays in one place. *)

(* Lists are rewritten by moving samples to new places, never two to one.   *)
LEMMA MovedApart ==
    ASSUME NEW lists, NEW out, NEW lists2, NEW out2,
           NEW g \in [Places(lists2, out2) -> Places(lists, out)],
           \A q, r \in Places(lists2, out2) : g[q] = g[r] => q = r,
           \A q \in Places(lists2, out2) : At(lists2, out2, q) = At(lists, out, g[q]),
           ApartIn(lists, out)
    PROVE  ApartIn(lists2, out2)
<1> SUFFICES ASSUME NEW q \in Places(lists2, out2), NEW r \in Places(lists2, out2),
                    At(lists2, out2, q) = At(lists2, out2, r)
             PROVE  q = r
  BY DEF ApartIn
<1>1. g[q] \in Places(lists, out) /\ g[r] \in Places(lists, out)
  OBVIOUS
<1>2. At(lists, out, g[q]) = At(lists, out, g[r])
  OBVIOUS
<1>3. g[q] = g[r]
  BY <1>1, <1>2 DEF ApartIn
<1> QED
  BY <1>3

LEMMA LinesAre ==
    ASSUME NEW lists, NEW out
    PROVE  /\ \A s \in Station : s \in 0..NStation /\ s # NStation /\ Line(lists, out, s) = lists[s]
           /\ NStation \in 0..NStation /\ Line(lists, out, NStation) = out
           /\ 0..NStation = Station \cup {NStation}
BY NStationAssumption DEF Station, Line

(* Places, without their pairs.                                             *)
LEMMA InPlaces ==
    ASSUME NEW lists, NEW out
    PROVE  /\ \A q \in Places(lists, out) :
                /\ q = <<q[1], q[2]>> /\ q[1] \in 0..NStation /\ q[2] \in Nat
                /\ q[2] \in 1..Len(Line(lists, out, q[1]))
           /\ \A s \in 0..NStation, k \in Nat :
                k \in 1..Len(Line(lists, out, s)) => <<s, k>> \in Places(lists, out)
           /\ \A s, k : At(lists, out, <<s, k>>) = Line(lists, out, s)[k]
BY DEF Places, At

LEMMA TakeKeepsApart ==
    ASSUME ShapeInv, Apart, NEW s \in Station, Takes(s)
    PROVE  Apart'
<1> DEFINE P2 == Places(c_data', sorted')
           g == [q \in P2 |->
                   IF q[1] = s THEN <<s, q[2] + 1>>
                   ELSE IF q[1] = NStation /\ q[2] = Len(sorted) + 1 THEN <<s, 1>>
                   ELSE <<q[1], q[2]>>]
<1>1. /\ c_data[s] \in Seq(Sample) /\ sorted \in Seq(Sample) /\ Len(c_data[s]) > 0
      /\ c_data'[s] = Tail(c_data[s]) /\ sorted' = Append(sorted, Head(c_data[s]))
      /\ \A t \in Station \ {s} : c_data'[t] = c_data[t]
  BY PoppedList DEF Takes, ShapeInv, TypeOK, Size
<1>2. /\ Len(c_data[s]) \in Nat /\ Len(sorted) \in Nat
      /\ Len(Tail(c_data[s])) = Len(c_data[s]) - 1
      /\ \A k \in 1..(Len(c_data[s]) - 1) : Tail(c_data[s])[k] = c_data[s][k + 1]
      /\ Head(c_data[s]) = c_data[s][1]
      /\ Len(sorted') = Len(sorted) + 1
      /\ \A k \in 1..Len(sorted) : sorted'[k] = sorted[k]
      /\ sorted'[Len(sorted) + 1] = c_data[s][1]
  BY <1>1
<1> DEFINE L1(t) == Line(c_data, sorted, t)
           L2(t) == Line(c_data', sorted', t)
<1>0. /\ s \in 0..NStation /\ s # NStation /\ 0..NStation = Station \cup {NStation}
      /\ L1(s) = c_data[s] /\ L2(s) = Tail(c_data[s])
      /\ L1(NStation) = sorted /\ L2(NStation) = sorted'
      /\ \A t \in Station \ {s} : L2(t) = L1(t)
  <2>1. s \in 0..NStation /\ s # NStation /\ 0..NStation = Station \cup {NStation}
    BY LinesAre
  <2>2. \A t \in Station : L1(t) = c_data[t] /\ L2(t) = c_data'[t]
    BY LinesAre
  <2>3. L1(NStation) = sorted /\ L2(NStation) = sorted'
    BY LinesAre
  <2> HIDE DEF L1, L2
  <2> QED
    BY <1>1, <2>1, <2>2, <2>3
<1>00. /\ \A q \in P2 : /\ q = <<q[1], q[2]>> /\ q[1] \in 0..NStation /\ q[2] \in Nat
                          /\ q[2] \in 1..Len(L2(q[1]))
       /\ \A t \in 0..NStation, k \in Nat :
             k \in 1..Len(L1(t)) => <<t, k>> \in Places(c_data, sorted)
       /\ \A t, k : At(c_data, sorted, <<t, k>>) = L1(t)[k]
       /\ \A t, k : At(c_data', sorted', <<t, k>>) = L2(t)[k]
  <2>1. \A q \in P2 : /\ q = <<q[1], q[2]>> /\ q[1] \in 0..NStation /\ q[2] \in Nat
                      /\ q[2] \in 1..Len(L2(q[1]))
    BY InPlaces
  <2>2. /\ \A t \in 0..NStation, k \in Nat :
             k \in 1..Len(L1(t)) => <<t, k>> \in Places(c_data, sorted)
        /\ \A t, k : At(c_data, sorted, <<t, k>>) = L1(t)[k]
    BY InPlaces
  <2>3. \A t, k : At(c_data', sorted', <<t, k>>) = L2(t)[k]
    BY DEF At
  <2> QED
    BY <2>1, <2>2, <2>3
<1> HIDE DEF L1, L2
<1>3. ASSUME NEW q \in P2
      PROVE  /\ g[q] \in Places(c_data, sorted)
             /\ At(c_data', sorted', q) = At(c_data, sorted, g[q])
  <2> DEFINE t == q[1]
             k == q[2]
  <2>1. q = <<t, k>> /\ t \in 0..NStation /\ k \in 1..Len(L2(t)) /\ k \in Nat
    BY <1>00
  <2>2. At(c_data', sorted', q) = L2(t)[k]
    BY <1>00, <2>1
  <2>3. g[q] = IF t = s THEN <<s, k + 1>>
               ELSE IF t = NStation /\ k = Len(sorted) + 1 THEN <<s, 1>> ELSE <<t, k>>
    OBVIOUS
  <2> HIDE DEF g, t, k, P2
  <2>4. CASE t = s
    <3>1. k \in 1..(Len(c_data[s]) - 1) /\ L2(t)[k] = c_data[s][k + 1]
      BY <1>0, <1>2, <2>1, <2>4
    <3>2. k + 1 \in 1..Len(L1(s)) /\ k + 1 \in Nat
      BY <1>0, <1>2, <3>1
    <3>3. g[q] = <<s, k + 1>>
      BY <2>3, <2>4
    <3> QED
      BY <1>0, <1>00, <2>2, <3>1, <3>2, <3>3
  <2>5. CASE t = NStation /\ k = Len(sorted) + 1
    <3>1. g[q] = <<s, 1>>
      BY <1>0, <2>1, <2>3, <2>5
    <3>2. 1 \in 1..Len(L1(s)) /\ 1 \in Nat
      BY <1>0, <1>1, <1>2
    <3>3. L2(t)[k] = L1(s)[1]
      BY <1>0, <1>2, <2>5
    <3> QED
      BY <1>0, <1>00, <2>2, <3>1, <3>2, <3>3
  <2>6. CASE t # s /\ ~(t = NStation /\ k = Len(sorted) + 1)
    <3>1. g[q] = <<t, k>>
      BY <2>1, <2>3, <2>6
    <3>2. k \in 1..Len(L1(t)) /\ L2(t)[k] = L1(t)[k]
      <4>1. CASE t = NStation
        <5>1. k \in 1..Len(sorted)
          BY <1>0, <1>2, <2>1, <2>6, <4>1
        <5> QED
          BY <1>0, <1>2, <4>1, <5>1
      <4>2. CASE t # NStation
        BY <1>0, <2>1, <2>6, <4>2
      <4> QED
        BY <4>1, <4>2
    <3> QED
      BY <1>00, <2>1, <2>2, <3>1, <3>2
  <2> QED
    BY <2>4, <2>5, <2>6
<1>4. ASSUME NEW q \in P2, NEW r \in P2, g[q] = g[r]
      PROVE  q = r
  <2> DEFINE t == q[1]
             k == q[2]
             u == r[1]
             l == r[2]
  <2>1. /\ q = <<t, k>> /\ k \in Nat /\ k # 0
        /\ r = <<u, l>> /\ l \in Nat /\ l # 0
    <3>1. /\ q = <<t, k>> /\ k \in Nat /\ k \in 1..Len(L2(t))
          /\ r = <<u, l>> /\ l \in Nat /\ l \in 1..Len(L2(u))
      BY <1>00
    <3> QED
      BY <3>1
  <2>2. /\ g[q] = IF t = s THEN <<s, k + 1>>
                  ELSE IF t = NStation /\ k = Len(sorted) + 1 THEN <<s, 1>> ELSE <<t, k>>
        /\ g[r] = IF u = s THEN <<s, l + 1>>
                  ELSE IF u = NStation /\ l = Len(sorted) + 1 THEN <<s, 1>> ELSE <<u, l>>
    OBVIOUS
  <2> HIDE DEF g, t, k, u, l, P2
  <2>3. t = u /\ k = l
    BY <1>4, <2>1, <2>2
  <2> QED
    BY <2>1, <2>3
<1>5. g \in [P2 -> Places(c_data, sorted)]
  BY <1>3
<1> HIDE DEF g
<1> QED
  BY <1>3, <1>4, <1>5, MovedApart DEF Apart

(* Whole lines change their slot, never two to one.                         *)
LEMMA MovedSlots ==
    ASSUME NEW lists, NEW out, NEW lists2, NEW out2,
           NEW h \in [0..NStation -> 0..NStation],
           \A t \in 0..NStation :
               \/ Len(Line(lists2, out2, t)) = 0
               \/ /\ Line(lists2, out2, t) = Line(lists, out, h[t])
                  /\ \A u \in 0..NStation :
                       h[t] = h[u] => t = u \/ Len(Line(lists2, out2, u)) = 0,
           ApartIn(lists, out)
    PROVE  ApartIn(lists2, out2)
<1> DEFINE P2 == Places(lists2, out2)
           L1(t) == Line(lists, out, t)
           L2(t) == Line(lists2, out2, t)
           g == [q \in P2 |-> <<h[q[1]], q[2]>>]
<1>1. ASSUME NEW q \in P2
      PROVE  /\ q = <<q[1], q[2]>> /\ q[1] \in 0..NStation /\ q[2] \in Nat
             /\ q[2] \in 1..Len(L2(q[1])) /\ Len(L2(q[1])) # 0
  BY InPlaces
<1>2. ASSUME NEW q \in P2
      PROVE  g[q] \in Places(lists, out) /\ At(lists2, out2, q) = At(lists, out, g[q])
  <2>1. L2(q[1]) = L1(h[q[1]]) /\ h[q[1]] \in 0..NStation
    BY <1>1
  <2>2. g[q] = <<h[q[1]], q[2]>>
    OBVIOUS
  <2>3. At(lists2, out2, q) = L2(q[1])[q[2]] /\ At(lists, out, g[q]) = L1(h[q[1]])[q[2]]
    BY <2>2 DEF At
  <2>4. q[2] \in Nat /\ q[2] \in 1..Len(L1(h[q[1]]))
    BY <1>1, <2>1
  <2> HIDE DEF g
  <2>5. g[q] \in Places(lists, out)
    BY <2>1, <2>2, <2>4, InPlaces
  <2> QED
    BY <2>1, <2>3, <2>5
<1>3. ASSUME NEW q \in P2, NEW r \in P2, g[q] = g[r]
      PROVE  q = r
  <2>1. h[q[1]] = h[r[1]] /\ q[2] = r[2]
    BY <1>3
  <2>2. q[1] = r[1]
    BY <1>1, <2>1
  <2> QED
    BY <1>1, <2>1, <2>2
<1>4. g \in [P2 -> Places(lists, out)]
  BY <1>2
<1> HIDE DEF g
<1> QED
  BY <1>2, <1>3, <1>4, MovedApart

LEMMA ShuffleKeepsApart ==
    ASSUME ShapeInv, Apart, Shuffle
    PROVE  Apart'
<1> DEFINE fl == c_data[fl_index]
           ll == c_data[ll_index]
           up == c_data'[fl_index]
           low == c_data'[ll_index]
           P2 == Places(c_data', sorted')
           swapped(k) == k \in 1..Len(ll) /\ ~(up[k] = fl[k] /\ low[k] = ll[k])
           g == [q \in P2 |->
                   <<IF q[1] = fl_index /\ swapped(q[2]) THEN ll_index
                     ELSE IF q[1] = ll_index /\ swapped(q[2]) THEN fl_index ELSE q[1],
                     q[2]>>]
           L1(t) == Line(c_data, sorted, t)
           L2(t) == Line(c_data', sorted', t)
<1>1. /\ fl_index \in Station /\ ll_index \in Station /\ fl_index # ll_index
      /\ Len(fl) \in Nat /\ Len(ll) \in Nat /\ Len(fl) >= Len(ll)
      /\ Len(up) = Len(fl) /\ Len(low) = Len(ll)
      /\ \A k \in 1..Len(ll) :
             \/ up[k] = fl[k] /\ low[k] = ll[k]
             \/ up[k] = ll[k] /\ low[k] = fl[k]
      /\ \A k \in 1..Len(fl) : k > Len(ll) => up[k] = fl[k]
      /\ \A s \in Station \ {fl_index, ll_index} : c_data'[s] = c_data[s]
      /\ sorted' = sorted
  <2>1. pc \in Merging /\ sorted' = sorted
    BY DEF Shuffle, Merging
  <2> QED
    BY <2>1, ShuffledLists, SlotsAreStations DEF Shuffled, ShapeInv, TypeOK
<1>2. /\ fl_index \in 0..NStation /\ ll_index \in 0..NStation
      /\ L1(fl_index) = fl /\ L1(ll_index) = ll /\ L2(fl_index) = up /\ L2(ll_index) = low
      /\ \A t \in (0..NStation) \ {fl_index, ll_index} : L2(t) = L1(t)
  <2>1. 0..NStation = Station \cup {NStation}
    BY LinesAre
  <2>2. \A t \in Station : L1(t) = c_data[t] /\ L2(t) = c_data'[t]
    BY LinesAre
  <2>3. L1(NStation) = sorted /\ L2(NStation) = sorted'
    BY LinesAre
  <2> HIDE DEF L1, L2
  <2> QED
    BY <1>1, <2>1, <2>2, <2>3
<1>3. ASSUME NEW q \in P2
      PROVE  /\ q = <<q[1], q[2]>> /\ q[1] \in 0..NStation /\ q[2] \in Nat
             /\ q[2] \in 1..Len(L2(q[1]))
  BY InPlaces
<1>4. ASSUME NEW q \in P2
      PROVE  g[q] \in Places(c_data, sorted) /\ At(c_data', sorted', q) = At(c_data, sorted, g[q])
  <2> DEFINE t == q[1]
             k == q[2]
             u == IF t = fl_index /\ swapped(k) THEN ll_index
                  ELSE IF t = ll_index /\ swapped(k) THEN fl_index ELSE t
  <2>1. g[q] = <<u, k>>
    OBVIOUS
  <2>2. At(c_data', sorted', q) = L2(t)[k] /\ At(c_data, sorted, g[q]) = L1(u)[k]
    BY <2>1 DEF At
  <2>3. t \in 0..NStation /\ k \in Nat /\ k \in 1..Len(L2(t))
    BY <1>3
  <2> HIDE DEF fl, ll, up, low, L1, L2, t, k, g
  <2>4. u \in 0..NStation /\ k \in 1..Len(L1(u)) /\ L2(t)[k] = L1(u)[k]
    <3>1. CASE t = fl_index
      BY <1>1, <1>2, <2>3, <3>1
    <3>2. CASE t = ll_index
      BY <1>1, <1>2, <2>3, <3>2
    <3>3. CASE t \notin {fl_index, ll_index}
      BY <1>2, <2>3, <3>3
    <3> QED
      BY <3>1, <3>2, <3>3
  <2> HIDE DEF u
  <2>5. <<u, k>> \in Places(c_data, sorted)
    BY <2>3, <2>4, InPlaces DEF L1
  <2> QED
    BY <2>1, <2>2, <2>4, <2>5
<1>5. ASSUME NEW q \in P2, NEW r \in P2, g[q] = g[r]
      PROVE  q = r
  <2>1. q[2] = r[2] /\ g[q][1] = g[r][1]
    BY <1>5
  <2>2. q[1] = r[1]
    BY <1>1, <2>1
  <2> QED
    BY <1>3, <2>1, <2>2
<1>6. g \in [P2 -> Places(c_data, sorted)]
  BY <1>4
<1> HIDE DEF g
<1> QED
  BY <1>4, <1>5, <1>6, MovedApart DEF Apart

LEMMA InitApart == Init => Apart
<1> SUFFICES ASSUME Init PROVE Apart
  OBVIOUS
<1>1. c_data \in Inputs /\ sorted = <<>> /\ Len(sorted) = 0
  BY DEF Init
<1>2. \A s, t \in Station : \A k \in 1..Len(c_data[s]), l \in 1..Len(c_data[t]) :
         c_data[s][k] = c_data[t][l] => s = t /\ k = l
  BY <1>1, DistinctAssumption
<1>3. ASSUME NEW q \in Places(c_data, sorted)
      PROVE  /\ q = <<q[1], q[2]>> /\ q[1] \in Station
             /\ q[2] \in 1..Len(c_data[q[1]]) /\ At(c_data, sorted, q) = c_data[q[1]][q[2]]
  <2> DEFINE t == q[1]
             k == q[2]
  <2>1. q = <<t, k>> /\ t \in 0..NStation /\ k \in 1..Len(Line(c_data, sorted, t))
    BY InPlaces
  <2> HIDE DEF t, k
  <2>2. t \in Station /\ Line(c_data, sorted, t) = c_data[t]
    <3>1. t # NStation
      BY <1>1, <2>1, LinesAre
    <3> QED
      BY <2>1, <3>1, LinesAre
  <2>3. At(c_data, sorted, q) = Line(c_data, sorted, t)[k]
    BY DEF At, t, k
  <2> QED
    BY <2>1, <2>2, <2>3 DEF t, k
<1> QED
  BY <1>2, <1>3 DEF Apart, ApartIn

LEMMA ApartStep == SortInv /\ Apart /\ [Next]_vars => Apart'
<1> SUFFICES ASSUME SortInv, Apart, [Next]_vars PROVE Apart'
  OBVIOUS
<1> USE DEF SortInv
<1>0. 0..NStation = Station \cup {NStation} /\ NStation \notin Station
  BY LinesAre
<1>1. CASE Shuffle
  BY <1>1, ShuffleKeepsApart
<1>2. CASE TakeMax \/ SelectCompare \/ SelectFront \/ DrainFirst \/ DrainLast
  <2>1. PICK s \in {fl_index, ll_index} : Takes(s)
    BY <1>2, TakingSteps
  <2>2. s \in Station
    BY DEF ShapeInv, TypeOK
  <2> QED
    BY <2>1, <2>2, TakeKeepsApart
<1>3. CASE EndPair
  <2> DEFINE h == [t \in 0..NStation |-> IF t = i THEN NStation
                                         ELSE IF t = NStation THEN i ELSE t]
             L1(t) == Line(c_data, sorted, t)
             L2(t) == Line(c_data', sorted', t)
  <2>1. /\ i \in Station /\ i + 1 \in Station /\ i # i + 1
        /\ c_data'[i] = sorted /\ Len(c_data'[i + 1]) = 0 /\ Len(sorted') = 0
        /\ \A t \in Station \ {i, i + 1} : c_data'[t] = c_data[t]
    BY <1>3, EndedPair
  <2>2. /\ \A t \in Station : L1(t) = c_data[t] /\ L2(t) = c_data'[t]
        /\ L1(NStation) = sorted /\ L2(NStation) = sorted'
    BY LinesAre
  <2> HIDE DEF L1, L2
  <2>3. h \in [0..NStation -> 0..NStation]
    BY <1>0, <2>1
  <2>4. \A t, u \in 0..NStation : h[t] = h[u] => t = u
    BY <1>0, <2>1
  <2>5. \A t \in 0..NStation : Len(L2(t)) = 0 \/ L2(t) = L1(h[t])
    BY <1>0, <2>1, <2>2
  <2> HIDE DEF h
  <2>7. \A t \in 0..NStation :
        \/ Len(Line(c_data', sorted', t)) = 0
        \/ /\ Line(c_data', sorted', t) = Line(c_data, sorted, h[t])
           /\ \A u \in 0..NStation :
                h[t] = h[u] => t = u \/ Len(Line(c_data', sorted', u)) = 0
    BY <2>4, <2>5 DEF L1, L2
  <2>8. ApartIn(c_data, sorted)
    BY DEF Apart
  <2>9. ApartIn(c_data', sorted')
    BY <2>3, <2>7, <2>8, MovedSlots
  <2> QED
    BY <2>9 DEF Apart
<1>4. CASE BeginCompact \/ CompactOne
  <2>1. CASE c_data' = c_data
    BY <1>4, <2>1, CompactionMoves DEF Apart
  <2>2. CASE c_data' # c_data
    <3>1. PICK a \in Station, b \in Station :
             /\ a # b /\ c_data[b] = <<>> /\ c_data'[b] = c_data[a] /\ c_data'[a] = <<>>
             /\ \A u \in Station \ {a, b} : c_data'[u] = c_data[u]
      BY <1>4, <2>2, CompactionMoves
    <3>2. sorted' = sorted /\ Len(c_data'[a]) = 0
      BY <1>4, <3>1, CompactionMoves
    <3> DEFINE h == [t \in 0..NStation |-> IF t = a THEN b ELSE IF t = b THEN a ELSE t]
               L1(t) == Line(c_data, sorted, t)
               L2(t) == Line(c_data', sorted', t)
    <3>3. /\ \A t \in Station : L1(t) = c_data[t] /\ L2(t) = c_data'[t]
          /\ L1(NStation) = sorted /\ L2(NStation) = sorted'
      BY LinesAre
    <3> HIDE DEF L1, L2
    <3>4. h \in [0..NStation -> 0..NStation]
      BY <1>0, <3>1
    <3>5. \A t, u \in 0..NStation : h[t] = h[u] => t = u
      BY <1>0, <3>1
    <3>6. \A t \in 0..NStation : Len(L2(t)) = 0 \/ L2(t) = L1(h[t])
      BY <1>0, <3>1, <3>2, <3>3
    <3> HIDE DEF h
    <3>7. \A t \in 0..NStation :
          \/ Len(Line(c_data', sorted', t)) = 0
          \/ /\ Line(c_data', sorted', t) = Line(c_data, sorted, h[t])
             /\ \A u \in 0..NStation :
                  h[t] = h[u] => t = u \/ Len(Line(c_data', sorted', u)) = 0
      BY <3>5, <3>6 DEF L1, L2
    <3>8. ApartIn(c_data, sorted)
      BY DEF Apart
    <3>9. ApartIn(c_data', sorted')
      BY <3>4, <3>7, <3>8, MovedSlots
    <3> QED
      BY <3>9 DEF Apart
  <2> QED
    BY <2>1, <2>2
<1>5. CASE QuietStep
  BY <1>5, QuietKeeps DEF Apart
<1> QED
  BY <1>1, <1>2, <1>3, <1>4, <1>5, NextCases

(* What it says of two places of the slots.                                 *)
LEMMA ApartSlots ==
    ASSUME Apart, NEW s \in Station, NEW t \in Station,
           NEW k \in 1..Len(c_data[s]), NEW l \in 1..Len(c_data[t]),
           Len(c_data[s]) \in Nat, Len(c_data[t]) \in Nat, c_data[s][k] = c_data[t][l]
    PROVE  s = t /\ k = l
<1>1. /\ s \in 0..NStation /\ Line(c_data, sorted, s) = c_data[s]
      /\ t \in 0..NStation /\ Line(c_data, sorted, t) = c_data[t]
  <2>1. \A u \in Station : u \in 0..NStation /\ Line(c_data, sorted, u) = c_data[u]
    BY LinesAre
  <2> QED
    BY <2>1
<1>2. k \in Nat /\ l \in Nat
  OBVIOUS
<1>3. <<s, k>> \in Places(c_data, sorted) /\ <<t, l>> \in Places(c_data, sorted)
  BY <1>1, <1>2, InPlaces
<1>4. At(c_data, sorted, <<s, k>>) = c_data[s][k] /\ At(c_data, sorted, <<t, l>>) = c_data[t][l]
  BY <1>1 DEF At
<1>5. <<s, k>> = <<t, l>>
  BY <1>3, <1>4 DEF Apart, ApartIn
<1> QED
  BY <1>5

-----------------------------------------------------------------------------
(* SORT implements RunMerge. *)

LEMMA InPool ==
    ASSUME NEW x
    PROVE  x \in absPool <=> \E s \in Taken : x \in Elements(c_data[s])
BY Zenon DEF absPool

LEMMA InRuns ==
    ASSUME NEW x
    PROVE  x \in absRuns <=> x # <<>> /\ \E s \in Station \ Taken : x = c_data[s]
BY DEF absRuns

LEMMA TakenPair ==
    ASSUME ShapeInv
    PROVE  /\ pc \in Merging => Taken = {i, i + 1} /\ Taken = {fl_index, ll_index}
                                /\ fl_index # ll_index /\ Taken \subseteq Station
           /\ pc \notin Merging => Taken = {} /\ absPool = {}
<1>1. pc \in Merging => Taken = {i, i + 1} /\ Taken = {fl_index, ll_index}
                        /\ fl_index # ll_index /\ Taken \subseteq Station
  BY SlotsAreStations DEF ShapeInv, PairSlots, TypeOK, Taken
<1>2. pc \notin Merging => Taken = {} /\ absPool = {}
  BY DEF Taken, absPool
<1> QED
  BY <1>1, <1>2

LEMMA InitRefines == Init => RM!Init
<1> SUFFICES ASSUME Init PROVE RM!Init
  OBVIOUS
<1>1. SortInv /\ pc = "round" /\ sorted = <<>>
  BY InitSortInv DEF Init
<1>2. Taken = {} /\ absPool = {}
  BY <1>1, TakenPair DEF SortInv, Merging, Selecting
<1>3. \A s \in Station : c_data[s] \in Seq(Sample) /\ Desc(c_data[s])
  BY <1>1 DEF SortInv, ShapeInv, TypeOK, OrderInv, ListsDescend
<1>4. \A r \in absRuns : r \in Seq(Sample) /\ r # <<>> /\ Desc(r)
  BY <1>3, InRuns
<1>5. absRuns \subseteq Seq(Sample) \ {<<>>}
  BY <1>4
<1>6. \A r \in absRuns : RM!Descending(r)
  BY <1>4 DEF RM!Descending, Desc
<1> QED
  BY <1>1, <1>2, <1>5, <1>6 DEF RM!Init

LEMMA InPoolNext ==
    ASSUME NEW x
    PROVE  x \in absPool' <=> \E s \in Taken' : x \in Elements(c_data'[s])
BY Zenon DEF absPool, Elements

LEMMA InRunsNext ==
    ASSUME NEW x
    PROVE  x \in absRuns' <=> x # <<>> /\ \E s \in Station \ Taken' : x = c_data'[s]
BY DEF absRuns

(* The pair's lists are taken out of the runs, whole.                       *)
LEMMA BeginPairOpens == SortInv /\ Apart /\ BeginPair => RM!Open
<1> SUFFICES ASSUME SortInv, Apart, BeginPair PROVE RM!Open
  OBVIOUS
<1> USE DEF SortInv
<1>1. /\ pc = "pair" /\ pc' = "merge" /\ UNCHANGED <<c_data, sorted>>
      /\ \/ fl_index' = i /\ ll_index' = i + 1
         \/ fl_index' = i + 1 /\ ll_index' = i
  BY DEF BeginPair
<1>2. sorted = <<>> /\ Taken = {} /\ absPool = {}
  BY <1>1, TakenPair DEF OrderInv, PrefixAbove, Merging, Selecting
<1>3. Taken' = {i, i + 1}
  BY <1>1 DEF Taken, Merging, Selecting
<1>4. i \in Station /\ i + 1 \in Station
  <2>1. i \in Nat /\ nstation \in 1..NStation /\ i < nstation - (nstation % 2) /\ i % 2 = 0
    BY <1>1 DEF BeginPair, ShapeInv, TypeOK, PairSlots, Paired
  <2>2. i + 1 < nstation
    BY <2>1, PairFits
  <2> QED
    BY <2>1, <2>2, NStationAssumption DEF Station
<1> DEFINE one == c_data[i]
           other == c_data[i + 1]
<1>5. one \in absRuns \cup {<<>>} /\ other \in absRuns \cup {<<>>}
  BY <1>2, <1>4, InRuns
<1>6. absRuns' = absRuns \ {one, other}
  <2>1. ASSUME NEW s \in Station \ {i, i + 1}, c_data[s] # <<>>
        PROVE  c_data[s] \notin {one, other}
    <3> SUFFICES ASSUME NEW t \in {i, i + 1}, c_data[s] = c_data[t]
                 PROVE  FALSE
      OBVIOUS
    <3>1. c_data[s] \in Seq(Sample) /\ t \in Station /\ s # t
      BY <1>4 DEF ShapeInv, TypeOK
    <3>2. 1 \in 1..Len(c_data[s]) /\ Len(c_data[s]) \in Nat
      BY <2>1, <3>1
    <3>3. s = t
      BY <3>1, <3>2, ApartSlots
    <3> QED
      BY <3>1, <3>3
  <2>2. ASSUME NEW x
        PROVE  x \in absRuns' <=> x \in absRuns /\ x \notin {one, other}
    <3>1. x \in absRuns' <=> x # <<>> /\ \E s \in Station \ {i, i + 1} : x = c_data[s]
      BY <1>1, <1>3, InRunsNext
    <3>2. x \in absRuns <=> x # <<>> /\ \E s \in Station : x = c_data[s]
      BY <1>2, InRuns
    <3> QED
      BY <1>4, <2>1, <3>1, <3>2
  <2> HIDE DEF one, other
  <2> QED
    BY <2>2
<1>7. absPool' = RM!Elements(one) \cup RM!Elements(other)
  <2>1. ASSUME NEW x
        PROVE  x \in absPool' <=> x \in Elements(one) \cup Elements(other)
    BY <1>1, <1>3, InPoolNext
  <2>2. RM!Elements(one) = Elements(one) /\ RM!Elements(other) = Elements(other)
    BY DEF RM!Elements, Elements
  <2> HIDE DEF one, other
  <2> QED
    BY <2>1, <2>2
<1>8. sorted' = sorted
  BY <1>1
<1> HIDE DEF one, other
<1> QED
  BY <1>2, <1>5, <1>6, <1>7, <1>8 DEF RM!Open

(* A head that is taken is a greatest sample of the pool, and leaves it.    *)
LEMMA TakeEmits ==
    ASSUME SortInv, Apart, pc \in Merging, pc' \in Merging,
           NEW s \in {fl_index, ll_index}, NEW t \in {fl_index, ll_index}, s # t,
           TakesTop(s, t)
    PROVE  RM!Emit
<1> USE DEF SortInv
<1> DEFINE x == Head(c_data[s])
<1>1. Taken = {s, t} /\ s \in Station /\ t \in Station
  BY TakenPair
<1>2. Taken' = Taken
  BY DEF TakesTop, Takes, Taken
<1>3. /\ c_data[s] \in Seq(Sample) /\ c_data[t] \in Seq(Sample) /\ Len(c_data[s]) > 0
      /\ Len(c_data[s]) \in Nat /\ Len(c_data[t]) \in Nat
      /\ x = c_data[s][1]
      /\ \A k \in 1..Len(c_data[s]) : x.val >= c_data[s][k].val
      /\ \A k \in 1..Len(c_data[t]) : x.val >= c_data[t][k].val
  BY PairLists DEF TakesTop, Takes, Size
<1>4. /\ c_data'[s] = Tail(c_data[s]) /\ sorted' = Append(sorted, x)
      /\ \A u \in Station \ {s} : c_data'[u] = c_data[u]
  BY <1>1, PoppedList DEF TakesTop, Takes, ShapeInv
<1>5. \A z : z \in absPool <=> z \in Elements(c_data[s]) \/ z \in Elements(c_data[t])
  BY <1>1, InPool
<1>6. x \in absPool
  BY <1>3, <1>5 DEF Elements
<1>7. \A z \in absPool : x.val >= z.val
  BY <1>3, <1>5 DEF Elements
<1>8. absPool' = absPool \ {x}
  <2>1. \A z : z \in absPool' <=> z \in Elements(c_data'[s]) \/ z \in Elements(c_data[t])
    BY <1>1, <1>2, <1>4, InPoolNext
  <2>2. Elements(c_data'[s]) = Elements(c_data[s]) \ {x}
    <3>1. /\ Len(c_data'[s]) = Len(c_data[s]) - 1
          /\ \A k \in 1..(Len(c_data[s]) - 1) : c_data'[s][k] = c_data[s][k + 1]
      BY <1>3, <1>4
    <3>2. ASSUME NEW k \in 1..(Len(c_data[s]) - 1)
          PROVE  c_data[s][k + 1] # x /\ c_data[s][k + 1] \in Elements(c_data[s])
      <4>1. k + 1 \in 1..Len(c_data[s]) /\ 1 \in 1..Len(c_data[s]) /\ k + 1 # 1
        BY <1>3
      <4> QED
        BY <1>1, <1>3, <4>1, ApartSlots DEF Elements
    <3>3. ASSUME NEW k \in 1..Len(c_data[s]), c_data[s][k] # x
          PROVE  c_data[s][k] \in Elements(c_data'[s])
      <4>1. k - 1 \in 1..(Len(c_data[s]) - 1) /\ (k - 1) + 1 = k
        BY <1>3, <3>3
      <4>2. c_data[s][k] = c_data'[s][k - 1]
        BY <3>1, <4>1
      <4> QED
        BY <3>1, <4>1, <4>2 DEF Elements
    <3>4. \A z \in Elements(c_data'[s]) : z \in Elements(c_data[s]) \ {x}
      BY <3>1, <3>2 DEF Elements
    <3>5. \A z \in Elements(c_data[s]) \ {x} : z \in Elements(c_data'[s])
      BY <3>3 DEF Elements
    <3> QED
      BY <3>4, <3>5
  <2>3. x \notin Elements(c_data[t])
    <3>1. 1 \in 1..Len(c_data[s])
      BY <1>3
    <3> QED
      BY <1>1, <1>3, <3>1, ApartSlots DEF Elements
  <2> HIDE DEF x
  <2>4. \A z : z \in absPool' <=> z \in absPool /\ z # x
    BY <1>5, <2>1, <2>2, <2>3
  <2> QED
    BY <2>4
<1>9. absRuns' = absRuns
  <2>1. \A z : z \in absRuns' <=> z \in absRuns
    BY <1>1, <1>2, <1>4, InRuns, InRunsNext
  <2> QED
    BY <2>1
<1> QED
  BY <1>4, <1>6, <1>7, <1>8, <1>9 DEF RM!Emit

(* What was merged becomes a run; two empty lists were none.                *)
LEMMA EndPairCloses == SortInv /\ EndPair => RM!Close \/ UNCHANGED RM!vars
<1> SUFFICES ASSUME SortInv, EndPair PROVE RM!Close \/ UNCHANGED RM!vars
  OBVIOUS
<1> USE DEF SortInv
<1>1. pc \in Merging /\ pc' = "pair"
  BY DEF EndPair, Merging
<1>2. Taken = {i, i + 1} /\ Taken' = {} /\ absPool' = {}
  BY <1>1, TakenPair DEF Taken, absPool, Merging, Selecting
<1>3. /\ i \in Station /\ i + 1 \in Station /\ i # i + 1
      /\ c_data[i] = <<>> /\ c_data[i + 1] = <<>>
      /\ c_data'[i] = sorted /\ c_data'[i + 1] = <<>> /\ sorted' = <<>>
      /\ \A t \in Station \ {i, i + 1} : c_data'[t] = c_data[t]
  BY EndedPair
<1>4. absPool = {}
  <2>1. Elements(<<>>) = {}
    BY DEF Elements
  <2>2. \A z : z \notin absPool
    BY <1>2, <1>3, <2>1, InPool
  <2> QED
    BY <2>2
<1>5. \A z : z \in absRuns' <=> z \in absRuns \/ (z = sorted /\ z # <<>>)
  BY <1>2, <1>3, InRuns, InRunsNext
<1>6. CASE sorted = <<>>
  <2>1. absRuns' = absRuns
    BY <1>5, <1>6
  <2> QED
    BY <1>2, <1>3, <1>4, <1>6, <2>1 DEF RM!vars
<1>7. CASE sorted # <<>>
  <2>1. absRuns' = absRuns \cup {sorted}
    BY <1>5, <1>7
  <2> QED
    BY <1>2, <1>3, <1>4, <1>7, <2>1 DEF RM!Close
<1> QED
  BY <1>6, <1>7

LEMMA RefineStep == SortInv /\ Apart /\ [Next]_vars => [RM!Next]_(RM!vars)
<1> SUFFICES ASSUME SortInv, Apart, [Next]_vars PROVE RM!Next \/ UNCHANGED RM!vars
  BY DEF RM!vars
<1> USE DEF SortInv
<1>1. CASE Shuffle
  <2>1. pc \in Merging /\ pc' \in Merging /\ UNCHANGED <<fl_index, ll_index>>
    BY <1>1 DEF Shuffle, Merging, Selecting, pairVars
  <2>2. Taken = {fl_index, ll_index} /\ Taken' = {fl_index, ll_index}
    BY <2>1, TakenPair DEF Taken
  <2>3. \A z : z \in absPool' <=> z \in absPool
    BY <1>1, <2>2, InPool, InPoolNext, ShuffleKeepsElements
  <2>4. \A z : z \in absRuns' <=> z \in absRuns
    BY <1>1, <2>2, InRuns, InRunsNext, ShuffleKeepsElements
  <2>5. sorted' = sorted
    BY <1>1, ShuffleKeepsElements
  <2>6. absPool' = absPool /\ absRuns' = absRuns
    BY <2>3, <2>4
  <2> QED
    BY <2>5, <2>6 DEF RM!vars
<1>2. CASE TakeMax \/ SelectCompare \/ SelectFront \/ DrainFirst \/ DrainLast
  <2>1. pc \in Merging /\ pc' \in Merging
    BY <1>2, TakingSteps DEF Merging, Selecting
  <2>2. TakesTop(fl_index, ll_index) \/ TakesTop(ll_index, fl_index)
    BY <1>2, TakesFromTop
  <2>3. fl_index # ll_index
    BY <2>1, TakenPair
  <2> QED
    BY <2>1, <2>2, <2>3, TakeEmits DEF RM!Next
<1>3. CASE EndPair
  BY <1>3, EndPairCloses DEF RM!Next
<1>4. CASE BeginCompact \/ CompactOne
  <2>1. sorted' = sorted /\ pc \notin Merging /\ pc' \notin Merging
    BY <1>4, CompactionMoves DEF Merging, Selecting
  <2>2. Taken = {} /\ Taken' = {} /\ absPool = {} /\ absPool' = {}
    BY <2>1 DEF Taken, absPool
  <2>3. ASSUME NEW z
        PROVE  z \in absRuns' <=> z \in absRuns
    <3>1. z \in absRuns <=> z # <<>> /\ \E u \in Station : z = c_data[u]
      BY <2>2, InRuns
    <3>2. z \in absRuns' <=> z # <<>> /\ \E u \in Station : z = c_data'[u]
      BY <2>2, InRunsNext
    <3>3. CASE c_data' = c_data
      BY <3>1, <3>2, <3>3
    <3>4. CASE c_data' # c_data
      <4>1. PICK a \in Station, b \in Station :
               /\ c_data[b] = <<>> /\ c_data'[b] = c_data[a] /\ c_data'[a] = <<>>
               /\ \A u \in Station \ {a, b} : c_data'[u] = c_data[u]
        BY <1>4, <3>4, CompactionMoves
      <4> QED
        BY <3>1, <3>2, <4>1
    <3> QED
      BY <3>3, <3>4
  <2>4. absRuns' = absRuns
    BY <2>3
  <2> QED
    BY <2>1, <2>2, <2>4 DEF RM!vars
<1>5. CASE BeginPair
  BY <1>5, BeginPairOpens DEF RM!Next
<1>6. CASE QuietStep /\ ~BeginPair
  <2>1. UNCHANGED <<c_data, sorted>>
    BY <1>6, QuietKeeps
  <2>2. Taken' = Taken
    BY <1>6 DEF QuietStep, BeginRound, Return, SelectStop, SelectEnd, Exchange, BeginDrain,
                EndRound, Done, vars, pairVars, Taken, Merging, Selecting
  <2>3. absPool' = absPool /\ absRuns' = absRuns
    BY <2>1, <2>2 DEF absPool, absRuns, Elements
  <2> QED
    BY <2>1, <2>3 DEF RM!vars
<1> QED
  BY <1>1, <1>2, <1>3, <1>4, <1>5, <1>6, NextCases

(* SORT is a merge of runs, two at a time, that always emits a greatest     *)
(* sample of what is left of the two, for any number of stations, any delta *)
(* and all inputs whose samples are told apart.                             *)
THEOREM SortImplements == Spec => ImplementsRunMerge
<1>1. Init => SortInv /\ Apart
  BY InitSortInv, InitApart
<1>2. SortInv /\ Apart /\ [Next]_vars => (SortInv /\ Apart)'
  BY SortInvStep, ApartStep
<1>3. Spec => [](SortInv /\ Apart)
  BY <1>1, <1>2, PTL DEF Spec
<1> QED
  BY <1>3, InitRefines, RefineStep, PTL DEF Spec, ImplementsRunMerge, RM!Spec
=============================================================================
