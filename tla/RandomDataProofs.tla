-------------------------- MODULE RandomDataProofs --------------------------
(***************************************************************************)
(* Theorems about quickSort as random_data uses it, for arrays of every      *)
(* length, every number and size of lists, every draw and every content of  *)
(* the memory.                                                              *)
(***************************************************************************)
EXTENDS RandomData, FiniteSetTheorems, TLAPS

-----------------------------------------------------------------------------
(* The invariant. *)

(* The sizes are those of an input; there is a station while one is sorted. *)
DataOK ==
    /\ sample_size \in SampleSizes
    /\ filled \in Nat
    /\ c_data \in Seq(Seq(Values))
    /\ pc # "idle" => station <= Len(sample_size) /\ n = Size

(* The pending intervals lie one after the other. *)
Ascending ==
    \A m1, m2 \in 1..Len(stack) : m1 < m2 => stack[m1][2] < stack[m2][1]

(* partition: what j has passed is above the pivot up to i, and not above it *)
(* from there on.                                                            *)
Partitioned ==
    pc = "loop" =>
        /\ low < high
        /\ \A k \in low..i : real_arr[k] > pivot
        /\ \A k \in (i + 1)..(j - 1) : real_arr[k] <= pivot

(* Nothing is pending once the sort has returned. *)
Returned == pc = "done" => stack = <<>>

Inv == SortTypeOK /\ DataOK /\ Ascending /\ Partitioned /\ OrderedAcross
           /\ Returned /\ ListsReady

-----------------------------------------------------------------------------
(* Lists and the stack. *)

(* The size of a station's list leaves one more slot of the array. *)
LEMMA SizeFits ==
    ASSUME DataOK, station <= Len(sample_size)
    PROVE  /\ station \in 1..Len(sample_size)
           /\ Size \in 1..(MAXSAMPLESIZE - 1)
           /\ Size \in Slots
<1>1. sample_size \in Seq(1..(MAXSAMPLESIZE - 1))
  BY SampleSizesAssumption DEF DataOK
<1>2. station \in 1..Len(sample_size)
  BY <1>1 DEF DataOK, station
<1> QED
  BY <1>1, <1>2, MAXSAMPLESIZEAssumption DEF Size, Slots

(* The interval on top. *)
LEMMA TopOfStack ==
    ASSUME SortTypeOK, stack # <<>>
    PROVE  /\ Len(stack) \in Nat \ {0}
           /\ low = stack[1][1] /\ high = stack[1][2]
           /\ low \in Nat /\ high \in Int /\ high <= n
           /\ Tail(stack) \in Seq(Int \X Int)
           /\ Len(Tail(stack)) = Len(stack) - 1
           /\ \A m \in 1..(Len(stack) - 1) : Tail(stack)[m] = stack[m + 1]
<1>1. stack \in Seq(Int \X Int)
  BY DEF SortTypeOK
<1>2. Len(stack) \in Nat \ {0}
  BY <1>1
<1>3. Head(stack) = stack[1] /\ stack[1] \in Int \X Int
  BY <1>1, <1>2
<1>4. stack[1][1] >= 0 /\ stack[1][2] <= n
  BY <1>2 DEF SortTypeOK
<1> QED
  BY <1>1, <1>2, <1>3, <1>4 DEF low, high

(* Two intervals in the place of the one on top. *)
LEMMA PushedHalves ==
    ASSUME SortTypeOK, stack # <<>>, NEW a \in Int \X Int, NEW b \in Int \X Int
    PROVE  LET new == <<a, b>> \o Tail(stack) IN
           /\ new \in Seq(Int \X Int)
           /\ Len(new) = Len(stack) + 1
           /\ new[1] = a /\ new[2] = b
           /\ \A m \in 3..Len(new) : new[m] = stack[m - 1]
<1> DEFINE new == <<a, b>> \o Tail(stack)
<1>1. /\ Len(stack) \in Nat \ {0}
      /\ Tail(stack) \in Seq(Int \X Int)
      /\ Len(Tail(stack)) = Len(stack) - 1
      /\ \A m \in 1..(Len(stack) - 1) : Tail(stack)[m] = stack[m + 1]
  BY TopOfStack
<1>2. <<a, b>> \in Seq(Int \X Int) /\ Len(<<a, b>>) = 2
  OBVIOUS
<1>3. new \in Seq(Int \X Int) /\ Len(new) = Len(stack) + 1
  BY <1>1, <1>2
<1>4. new[1] = a /\ new[2] = b
  BY <1>1, <1>2
<1>5. ASSUME NEW m \in 3..Len(new) PROVE new[m] = stack[m - 1]
  <2>1. m - 2 \in 1..(Len(stack) - 1)
    BY <1>1, <1>3
  <2>2. new[m] = Tail(stack)[m - 2]
    BY <1>1, <1>2, <1>3, <2>1
  <2> QED
    BY <1>1, <2>1, <2>2
<1> QED
  BY <1>3, <1>4, <1>5

(* What partition works on lies in the array. *)
LEMMA LoopRange ==
    ASSUME SortTypeOK, Partitioned, pc = "loop"
    PROVE  /\ low \in Nat /\ high \in Nat /\ low < high /\ high <= n
           /\ low..high \subseteq Slots
           /\ i \in Int /\ j \in Int
           /\ low <= i + 1 /\ i + 1 <= j /\ j <= high
           /\ \A k \in Slots : real_arr[k] \in Int
<1>1. stack # <<>>
  BY DEF SortTypeOK
<1>2. low \in Nat /\ high \in Int /\ high <= n
  BY <1>1, TopOfStack
<1>3. /\ i \in Int /\ j \in Int /\ n \in Slots
      /\ low - 1 <= i /\ i < j /\ low <= j /\ j <= high
      /\ real_arr \in [Slots -> Values]
  BY DEF SortTypeOK
<1>4. low < high
  BY DEF Partitioned
<1>5. high \in Nat /\ low <= i + 1 /\ i + 1 <= j
  BY <1>2, <1>3, <1>4
<1>6. low..high \subseteq Slots
  BY <1>2, <1>3, <1>5, MAXSAMPLESIZEAssumption DEF Slots
<1>7. \A k \in Slots : real_arr[k] \in Int
  <2>1. Values \subseteq Int
    BY ValuesAssumption
  <2> QED
    BY <1>3, <2>1
<1> QED
  BY <1>2, <1>3, <1>4, <1>5, <1>6, <1>7

-----------------------------------------------------------------------------
(* Exchanges. *)

LEMMA SwapValues ==
    ASSUME real_arr \in [Slots -> Values], NEW a \in Slots, NEW b \in Slots
    PROVE  /\ Swapped(a, b) \in [Slots -> Values]
           /\ Swapped(a, b)[a] = real_arr[b]
           /\ Swapped(a, b)[b] = real_arr[a]
           /\ \A k \in Slots \ {a, b} : Swapped(a, b)[k] = real_arr[k]
BY DEF Swapped

(* An element outside the interval on top is in order with all of it, or    *)
(* with none.                                                               *)
LEMMA OutsideTop ==
    ASSUME SortTypeOK, Ascending, stack # <<>>,
           NEW k \in Int, NEW l \in Int, k < l, ~Together(k, l),
           NEW a \in low..high
    PROVE  /\ k \in low..high => ~Together(a, l) /\ a < l
           /\ l \in low..high => ~Together(k, a) /\ k < a
<1>1. /\ Len(stack) \in Nat \ {0}
      /\ low = stack[1][1] /\ high = stack[1][2]
      /\ low \in Nat /\ high \in Int
  BY TopOfStack
<1>2. \A m \in 1..Len(stack) : stack[m][1] \in Int /\ stack[m][2] \in Int
  BY DEF SortTypeOK
<1>3. \A m \in 1..Len(stack) : m = 1 \/ high < stack[m][1]
  BY <1>1 DEF Ascending
<1>4. ~(low <= k /\ l <= high)
  BY <1>1 DEF Together
<1>5. ASSUME k \in low..high PROVE ~Together(a, l) /\ a < l
  <2>1. l > high
    BY <1>1, <1>4, <1>5
  <2> QED
    BY <1>1, <1>2, <1>3, <2>1 DEF Together
<1>6. ASSUME l \in low..high PROVE ~Together(k, a) /\ k < a
  <2>1. k < low
    BY <1>1, <1>4, <1>6
  <2> QED
    BY <1>1, <1>2, <1>3, <2>1 DEF Together
<1> QED
  BY <1>5, <1>6

(* An exchange within the interval on top leaves every other element in      *)
(* order with it.                                                            *)
LEMMA SwapKeepsOrder ==
    ASSUME SortTypeOK, Ascending, Partitioned, OrderedAcross, pc = "loop",
           NEW a \in low..high, NEW b \in low..high,
           NEW k \in 0..n, NEW l \in 0..n, k < l, ~Together(k, l)
    PROVE  Swapped(a, b)[k] >= Swapped(a, b)[l]
<1> DEFINE arr == Swapped(a, b)
           From(x) == IF x = a THEN b ELSE IF x = b THEN a ELSE x
<1>1. /\ stack # <<>>
      /\ n \in Slots /\ 0..n \subseteq Slots
      /\ low..high \subseteq Slots
      /\ low..high \subseteq 0..n
      /\ low \in Nat /\ high \in Nat
  <2>1. stack # <<>> /\ n \in Slots
    BY DEF SortTypeOK
  <2>2. low \in Nat /\ high \in Nat /\ high <= n /\ low..high \subseteq Slots
    BY LoopRange
  <2>3. 0..n \subseteq Slots /\ n \in Nat
    BY <2>1, MAXSAMPLESIZEAssumption DEF Slots
  <2> QED
    BY <2>1, <2>2, <2>3
<1>2. \A x \in 0..n : arr[x] = real_arr[From(x)]
  <2>1. real_arr \in [Slots -> Values] /\ a \in Slots /\ b \in Slots
    BY <1>1 DEF SortTypeOK
  <2>2. /\ arr[a] = real_arr[b] /\ arr[b] = real_arr[a]
        /\ \A x \in Slots \ {a, b} : arr[x] = real_arr[x]
    BY <2>1, SwapValues
  <2> HIDE DEF arr
  <2> QED
    BY <1>1, <2>2
<1>3. \A x \in 0..n : From(x) \in 0..n
  BY <1>1
<1>4. \A x \in 0..n : From(x) = x \/ (x \in low..high /\ From(x) \in low..high)
  BY <1>1
<1>5. ~(k \in low..high /\ l \in low..high)
  <2>1. Len(stack) \in Nat \ {0} /\ low = stack[1][1] /\ high = stack[1][2]
    BY <1>1, TopOfStack
  <2> QED
    BY <1>1, <2>1 DEF Together
<1>6. From(k) < From(l) /\ ~Together(From(k), From(l))
  <2>1. CASE From(k) = k /\ From(l) = l
    BY <2>1
  <2>2. CASE From(k) # k
    <3>1. k \in low..high /\ From(k) \in low..high /\ From(l) = l
      BY <1>4, <1>5, <2>2
    <3> HIDE DEF From
    <3> QED
      BY <1>1, <3>1, OutsideTop
  <2>3. CASE From(l) # l
    <3>1. l \in low..high /\ From(l) \in low..high /\ From(k) = k
      BY <1>4, <1>5, <2>3
    <3> HIDE DEF From
    <3> QED
      BY <1>1, <3>1, OutsideTop
  <2> QED
    BY <2>1, <2>2, <2>3
<1> HIDE DEF From
<1> QED
  BY <1>2, <1>3, <1>6 DEF OrderedAcross

-----------------------------------------------------------------------------
(* The steps. *)

LEMMA NextCases ==
    ASSUME [Next]_vars
    PROVE  \/ Draw \/ BeginSort \/ Collect
           \/ (Skip /\ UNCHANGED dataVars)
           \/ (BeginPartition /\ UNCHANGED dataVars)
           \/ (Scan /\ UNCHANGED dataVars)
           \/ (Place /\ UNCHANGED dataVars)
           \/ (Return /\ UNCHANGED dataVars)
           \/ UNCHANGED vars
BY DEF Next, Sort, SortNext, Done

(* What a step does to the interval on top. *)
LEMMA ScanRange ==
    ASSUME Inv, Scan
    PROVE  /\ i + 1 \in low..high /\ j \in low..high /\ j <= high - 1
           /\ stack' = stack /\ n' = n /\ pc' = pc
           /\ low' = low /\ high' = high /\ stack # <<>>
BY LoopRange DEF Inv, Scan, SortTypeOK, low, high

LEMMA PlaceRange ==
    ASSUME Inv, Place
    PROVE  /\ i + 1 \in low..high /\ j = high
           /\ real_arr' = Swapped(i + 1, high) /\ n' = n /\ pc' = "call"
           /\ stack # <<>>
           /\ stack' \in Seq(Int \X Int)
           /\ Len(stack') = Len(stack) + 1
           /\ stack'[1] = <<low, i>> /\ stack'[2] = <<i + 2, high>>
           /\ \A m \in 3..Len(stack') : stack'[m] = stack[m - 1]
<1>1. /\ low \in Nat /\ high \in Nat /\ low < high
      /\ i \in Int /\ j \in Int /\ low <= i + 1 /\ i + 1 <= j /\ j <= high
  BY LoopRange DEF Inv, Place
<1>2. stack # <<>>
  BY DEF Inv, Place, SortTypeOK
<1>3. j = high /\ i + 1 \in low..high
  BY <1>1 DEF Place
<1>4. stack' = <<<<low, i>>, <<i + 2, high>>>> \o Tail(stack)
  <2>1. (i + 1) - 1 = i /\ (i + 1) + 1 = i + 2
    BY <1>1
  <2> QED
    BY <2>1 DEF Place, Halves
<1>5. <<low, i>> \in Int \X Int /\ <<i + 2, high>> \in Int \X Int
  BY <1>1
<1>6. /\ stack' \in Seq(Int \X Int)
      /\ Len(stack') = Len(stack) + 1
      /\ stack'[1] = <<low, i>> /\ stack'[2] = <<i + 2, high>>
      /\ \A m \in 3..Len(stack') : stack'[m] = stack[m - 1]
  BY <1>2, <1>4, <1>5, PushedHalves DEF Inv
<1>7. real_arr' = Swapped(i + 1, high) /\ n' = n /\ pc' = "call"
  BY DEF Place
<1> QED
  BY <1>2, <1>3, <1>6, <1>7

(* A step that leaves the stack and what it is made of alone. *)
LEMMA TypeStep == Inv /\ [Next]_vars => SortTypeOK'
<1> SUFFICES ASSUME Inv, [Next]_vars PROVE SortTypeOK'
  OBVIOUS
<1> USE DEF Inv
<1>1. CASE Draw
  <2>1. filled \in Nat /\ station <= Len(sample_size)
    BY <1>1 DEF Draw, Drawing, DataOK
  <2>2. filled \in Slots
    <3>1. filled < Size /\ Size \in 1..(MAXSAMPLESIZE - 1)
      BY <1>1, <2>1, SizeFits DEF Draw
    <3> QED
      BY <2>1, <3>1, MAXSAMPLESIZEAssumption DEF Slots
  <2>3. filled % 2 = 1 => filled - 1 \in Slots
    <3>1. filled % 2 = 1 => filled # 0
      OBVIOUS
    <3> QED
      BY <2>1, <2>2, <3>1, MAXSAMPLESIZEAssumption DEF Slots
  <2>4. real_arr' \in [Slots -> Values]
    BY <1>1, <2>2, <2>3 DEF Draw, tmp, SortTypeOK
  <2> QED
    BY <1>1, <2>4 DEF Draw, Drawing, SortTypeOK, low, high
<1>2. CASE BeginSort
  <2>1. Size \in Slots /\ Size \in Nat
    BY <1>2, SizeFits DEF BeginSort, Drawing, Slots
  <2>2. /\ n' = Size /\ stack' = <<<<0, Size>>>> /\ pc' = "call"
        /\ UNCHANGED <<real_arr, i, j>>
    BY <1>2 DEF BeginSort, Whole
  <2>3. stack' \in Seq(Int \X Int) /\ Len(stack') = 1 /\ stack'[1] = <<0, Size>>
    BY <2>1, <2>2
  <2> QED
    BY <2>1, <2>2, <2>3 DEF SortTypeOK
<1>3. CASE Collect
  BY <1>3 DEF Collect, SortTypeOK
<1>4. CASE Skip
  <2>1. /\ stack' \in Seq(Int \X Int) /\ Len(stack') = Len(stack) - 1
        /\ \A m \in 1..(Len(stack) - 1) : stack'[m] = stack[m + 1]
        /\ Len(stack) \in Nat
    BY <1>4, TopOfStack DEF Skip
  <2>2. pc' = "call" /\ UNCHANGED <<n, real_arr, i, j>>
    BY <1>4 DEF Skip
  <2>3. ASSUME NEW m \in 1..Len(stack')
        PROVE  stack'[m][1] >= 0 /\ stack'[m][2] <= n
    <3>1. m \in 1..(Len(stack) - 1)
      BY <2>1
    <3>2. m + 1 \in 1..Len(stack)
      BY <2>1, <3>1
    <3>3. stack'[m] = stack[m + 1]
      BY <2>1, <3>1
    <3> QED
      BY <3>2, <3>3 DEF SortTypeOK
  <2> QED
    BY <2>1, <2>2, <2>3 DEF SortTypeOK
<1>5. CASE BeginPartition
  <2>1. low \in Nat /\ high \in Int /\ low < high /\ stack # <<>>
    BY <1>5, TopOfStack DEF BeginPartition
  <2>2. UNCHANGED <<n, real_arr, stack>> /\ i' = low - 1 /\ j' = low /\ pc' = "loop"
    BY <1>5 DEF BeginPartition
  <2>3. low' = low /\ high' = high
    BY <2>2 DEF low, high
  <2> QED
    BY <2>1, <2>2, <2>3 DEF SortTypeOK
<1>6. CASE Scan
  <2>1. /\ i + 1 \in Slots /\ j \in Slots
        /\ i \in Int /\ j \in Int /\ low \in Nat /\ high \in Nat
        /\ low <= i + 1 /\ i + 1 <= j /\ j <= high - 1
        /\ stack' = stack /\ n' = n /\ pc' = pc /\ low' = low /\ high' = high
    BY <1>6, ScanRange, LoopRange DEF Scan
  <2>2. real_arr' \in [Slots -> Values]
    BY <1>6, <2>1, SwapValues DEF Scan, Ahead, SortTypeOK
  <2>3. j' = j + 1 /\ (i' = i \/ i' = i + 1)
    BY <1>6 DEF Scan, Ahead
  <2> QED
    BY <2>1, <2>2, <2>3 DEF SortTypeOK
<1>7. CASE Place
  <2>1. i + 1 \in Slots /\ high \in Slots /\ i \in Int /\ low \in Nat /\ high \in Nat
        /\ high <= n /\ i + 1 <= high
    BY <1>7, PlaceRange, LoopRange DEF Place
  <2>2. real_arr' \in [Slots -> Values]
    <3>1. real_arr' = Swapped(i + 1, high)
      BY <1>7, PlaceRange
    <3>2. real_arr \in [Slots -> Values]
      BY DEF SortTypeOK
    <3> QED
      BY <2>1, <3>1, <3>2, SwapValues
  <2>3. \A m \in 1..Len(stack') : stack'[m][1] >= 0 /\ stack'[m][2] <= n
    <3>1. /\ Len(stack') = Len(stack) + 1 /\ Len(stack) \in Nat
          /\ stack'[1] = <<low, i>> /\ stack'[2] = <<i + 2, high>>
          /\ \A m \in 3..Len(stack') : stack'[m] = stack[m - 1]
      BY <1>7, PlaceRange, TopOfStack
    <3>2. i + 2 >= 0 /\ i <= n /\ n \in Int
      BY <1>7, <2>1, LoopRange DEF Place, SortTypeOK, Slots
    <3>3. ASSUME NEW m \in 3..Len(stack')
          PROVE  stack'[m][1] >= 0 /\ stack'[m][2] <= n
      <4>1. m - 1 \in 1..Len(stack)
        BY <3>1
      <4> QED
        BY <3>1, <4>1 DEF SortTypeOK
    <3> QED
      BY <2>1, <3>1, <3>2, <3>3
  <2> QED
    BY <1>7, <2>2, <2>3, PlaceRange DEF Place, SortTypeOK
<1>8. CASE Return
  BY <1>8 DEF Return, SortTypeOK
<1>9. CASE UNCHANGED vars
  BY <1>9 DEF vars, sortVars, SortTypeOK, low, high
<1> QED
  BY <1>1, <1>2, <1>3, <1>4, <1>5, <1>6, <1>7, <1>8, <1>9, NextCases

LEMMA DataStep == Inv /\ [Next]_vars => DataOK'
<1> SUFFICES ASSUME Inv, [Next]_vars PROVE DataOK'
  OBVIOUS
<1> USE DEF Inv
<1>1. CASE Draw
  BY <1>1 DEF Draw, Drawing, DataOK
<1>2. CASE BeginSort
  BY <1>2 DEF BeginSort, Drawing, DataOK, station, Size
<1>3. CASE Collect
  <2>1. station <= Len(sample_size)
    BY <1>3 DEF Collect, DataOK
  <2>2. Size \in Nat /\ \A k \in 1..Size : k - 1 \in Slots
    <3>1. Size \in 1..(MAXSAMPLESIZE - 1)
      BY <2>1, SizeFits
    <3> QED
      BY <3>1, MAXSAMPLESIZEAssumption DEF Slots
  <2>3. Collected \in Seq(Values)
    <3>1. Collected \in [1..Size -> Values]
      BY <2>2 DEF Collected, tmp, SortTypeOK
    <3> QED
      BY <2>2, <3>1
  <2> QED
    BY <1>3, <2>3 DEF Collect, DataOK
<1>4. CASE (Skip \/ BeginPartition \/ Scan \/ Place \/ Return) /\ UNCHANGED dataVars
  <2>1. pc # "idle" /\ n' = n
    BY <1>4 DEF Skip, BeginPartition, Scan, Place, Return
  <2>2. UNCHANGED <<sample_size, filled, c_data>>
    BY <1>4 DEF dataVars
  <2> QED
    BY <2>1, <2>2 DEF DataOK, station, Size
<1>5. CASE UNCHANGED vars
  BY <1>5 DEF vars, sortVars, DataOK, station, Size
<1> QED
  BY <1>1, <1>2, <1>3, <1>4, <1>5, NextCases

LEMMA AscendingStep == Inv /\ [Next]_vars => Ascending'
<1> SUFFICES ASSUME Inv, [Next]_vars PROVE Ascending'
  OBVIOUS
<1> USE DEF Inv
<1>1. CASE BeginSort
  <2>1. Len(stack') = 1
    BY <1>1 DEF BeginSort, Whole
  <2> QED
    BY <2>1 DEF Ascending
<1>2. CASE Skip
  <2>1. /\ Len(stack') = Len(stack) - 1 /\ Len(stack) \in Nat
        /\ \A m \in 1..(Len(stack) - 1) : stack'[m] = stack[m + 1]
    BY <1>2, TopOfStack DEF Skip
  <2>2. ASSUME NEW m1 \in 1..Len(stack'), NEW m2 \in 1..Len(stack'), m1 < m2
        PROVE  stack'[m1][2] < stack'[m2][1]
    <3>1. m1 + 1 \in 1..Len(stack) /\ m2 + 1 \in 1..Len(stack) /\ m1 + 1 < m2 + 1
      BY <2>1, <2>2
    <3> QED
      BY <2>1, <2>2, <3>1 DEF Ascending
  <2> QED
    BY <2>2 DEF Ascending
<1>3. CASE Place
  <2>1. /\ Len(stack') = Len(stack) + 1 /\ Len(stack) \in Nat \ {0}
        /\ stack'[1] = <<low, i>> /\ stack'[2] = <<i + 2, high>>
        /\ \A m \in 3..Len(stack') : stack'[m] = stack[m - 1]
        /\ stack[1][2] = high
    BY <1>3, PlaceRange, TopOfStack
  <2>2. i \in Int /\ high \in Int /\ i < high
    BY <1>3, LoopRange DEF Place
  <2>3. \A m \in 3..Len(stack') : high < stack'[m][1] /\ stack'[m][1] \in Int
    <3> SUFFICES ASSUME NEW m \in 3..Len(stack')
                 PROVE  high < stack[m - 1][1] /\ stack[m - 1][1] \in Int
      BY <2>1
    <3>1. m - 1 \in 1..Len(stack) /\ 1 < m - 1 /\ 1 \in 1..Len(stack)
      BY <2>1
    <3> QED
      BY <2>1, <3>1 DEF Ascending, SortTypeOK
  <2>4. ASSUME NEW m1 \in 1..Len(stack'), NEW m2 \in 1..Len(stack'), m1 < m2
        PROVE  stack'[m1][2] < stack'[m2][1]
    <3>1. CASE m1 = 1 /\ m2 = 2
      BY <2>1, <2>2, <3>1
    <3>2. CASE m1 \in {1, 2} /\ m2 \in 3..Len(stack')
      BY <2>1, <2>2, <2>3, <3>2
    <3>3. CASE m1 \in 3..Len(stack') /\ m2 \in 3..Len(stack')
      <4>1. m1 - 1 \in 1..Len(stack) /\ m2 - 1 \in 1..Len(stack) /\ m1 - 1 < m2 - 1
        BY <2>1, <2>4, <3>3
      <4> QED
        BY <2>1, <2>4, <3>3, <4>1 DEF Ascending
    <3> QED
      BY <2>1, <2>4, <3>1, <3>2, <3>3
  <2> QED
    BY <2>4 DEF Ascending
<1>4. CASE UNCHANGED stack
  BY <1>4 DEF Ascending
<1> QED
  BY <1>1, <1>2, <1>3, <1>4, NextCases
  DEF Draw, Collect, BeginPartition, Scan, Return, vars, sortVars

LEMMA PartitionedStep == Inv /\ [Next]_vars => Partitioned'
<1> SUFFICES ASSUME Inv, [Next]_vars PROVE Partitioned'
  OBVIOUS
<1> USE DEF Inv
<1>1. CASE BeginPartition
  <2>1. low \in Nat /\ low < high
    BY <1>1, TopOfStack DEF BeginPartition
  <2>2. UNCHANGED <<real_arr, stack>> /\ i' = low - 1 /\ j' = low
    BY <1>1 DEF BeginPartition
  <2>3. low' = low /\ high' = high
    BY <2>2 DEF low, high
  <2>4. low..i' = {} /\ (i' + 1)..(j' - 1) = {}
    BY <2>1, <2>2
  <2> QED
    BY <2>1, <2>2, <2>3, <2>4 DEF Partitioned
<1>2. CASE Scan
  <2>1. /\ low \in Nat /\ high \in Nat /\ low < high
        /\ i \in Int /\ j \in Int
        /\ low <= i + 1 /\ i + 1 <= j /\ j <= high - 1
        /\ i + 1 \in Slots /\ j \in Slots /\ high \in Slots
        /\ low' = low /\ high' = high /\ j' = j + 1
        /\ low..high \subseteq Slots
        /\ \A k \in Slots : real_arr[k] \in Int
    BY <1>2, ScanRange, LoopRange DEF Scan
  <2>2. CASE real_arr[j] > pivot
    <3>1. i' = i + 1 /\ real_arr' = Swapped(i + 1, j)
      BY <1>2, <2>2 DEF Scan, Before, Ahead
    <3>2. /\ real_arr'[i + 1] = real_arr[j] /\ real_arr'[j] = real_arr[i + 1]
          /\ \A k \in Slots \ {i + 1, j} : real_arr'[k] = real_arr[k]
      BY <2>1, <3>1, SwapValues DEF SortTypeOK
    <3>3. pivot' = pivot
      BY <2>1, <3>2 DEF pivot
    <3>4. ASSUME NEW k \in low..i' PROVE real_arr'[k] > pivot
      <4>1. CASE k = i + 1
        BY <2>2, <3>2, <4>1
      <4>2. CASE k # i + 1
        <5>1. k \in low..i /\ k \in Slots \ {i + 1, j}
          BY <2>1, <3>1, <3>4, <4>2
        <5> QED
          BY <1>2, <3>2, <5>1 DEF Scan, Partitioned
      <4> QED
        BY <4>1, <4>2
    <3>5. ASSUME NEW k \in (i' + 1)..(j' - 1) PROVE real_arr'[k] <= pivot
      <4>1. CASE k = j
        <5>1. i + 1 \in (i + 1)..(j - 1)
          BY <2>1, <3>1, <3>5, <4>1
        <5> QED
          BY <1>2, <3>2, <4>1, <5>1 DEF Scan, Partitioned
      <4>2. CASE k # j
        <5>1. k \in (i + 1)..(j - 1) /\ k \in Slots \ {i + 1, j}
          BY <2>1, <3>1, <3>5, <4>2 
        <5> QED
          BY <1>2, <3>2, <5>1 DEF Scan, Partitioned
      <4> QED
        BY <4>1, <4>2
    <3> QED
      BY <2>1, <3>3, <3>4, <3>5 DEF Partitioned
  <2>3. CASE ~(real_arr[j] > pivot)
    <3>1. i' = i /\ real_arr' = real_arr
      BY <1>2, <2>3 DEF Scan, Before
    <3>2. pivot' = pivot
      BY <2>1, <3>1 DEF pivot
    <3>3. real_arr[j] <= pivot
      BY <2>1, <2>3 DEF pivot
    <3>4. \A k \in (i + 1)..j : k = j \/ k \in (i + 1)..(j - 1)
      BY <2>1
    <3>5. j' - 1 = j
      BY <2>1
    <3> QED
      BY <1>2, <2>1, <3>1, <3>2, <3>3, <3>4, <3>5 DEF Scan, Partitioned
  <2> QED
    BY <2>2, <2>3
<1>3. CASE UNCHANGED sortVars
  BY <1>3 DEF sortVars, Partitioned, low, high, pivot
<1>4. CASE pc' # "loop"
  BY <1>4 DEF Partitioned
<1> QED
  BY <1>1, <1>2, <1>3, <1>4, NextCases
  DEF Draw, Drawing, BeginSort, Collect, Skip, Place, Return, vars

LEMMA OrderStep == Inv /\ [Next]_vars => OrderedAcross'
<1> SUFFICES ASSUME Inv, [Next]_vars PROVE OrderedAcross'
  OBVIOUS
<1> USE DEF Inv
<1>1. CASE BeginSort
  <2>1. n' = Size /\ stack' = <<<<0, Size>>>>
    BY <1>1 DEF BeginSort, Whole
  <2>2. Size \in Nat
    BY <1>1, SizeFits DEF BeginSort, Drawing
  <2>3. \A k, l \in 0..n' : Together(k, l)'
    BY <2>1, <2>2 DEF Together
  <2> QED
    BY <2>3 DEF OrderedAcross
<1>2. CASE Skip
  <2>1. /\ Len(stack) \in Nat \ {0}
        /\ low = stack[1][1] /\ high = stack[1][2]
        /\ low \in Nat /\ high \in Int /\ low >= high
        /\ Len(stack') = Len(stack) - 1
        /\ \A m \in 1..(Len(stack) - 1) : stack'[m] = stack[m + 1]
    BY <1>2, TopOfStack DEF Skip
  <2>2. ASSUME NEW k \in 0..n, NEW l \in 0..n, k < l, Together(k, l)
        PROVE  Together(k, l)'
    <3>1. PICK m \in 1..Len(stack) : stack[m][1] <= k /\ l <= stack[m][2]
      BY <2>2 DEF Together
    <3>2. m # 1
      BY <2>1, <2>2, <3>1
    <3>3. m - 1 \in 1..Len(stack') /\ stack'[m - 1] = stack[m]
      BY <2>1, <3>1, <3>2
    <3> QED
      BY <3>1, <3>3 DEF Together
  <2>3. UNCHANGED <<n, real_arr, pc>> /\ pc # "idle"
    BY <1>2 DEF Skip
  <2> QED
    BY <2>2, <2>3 DEF OrderedAcross
<1>3. CASE Scan
  <2>1. /\ i + 1 \in low..high /\ j \in low..high
        /\ stack' = stack /\ n' = n /\ pc' = pc /\ pc = "loop"
    BY <1>3, ScanRange DEF Scan
  <2>2. real_arr' = real_arr \/ real_arr' = Swapped(i + 1, j)
    BY <1>3 DEF Scan, Ahead
  <2>3. ASSUME NEW k \in 0..n, NEW l \in 0..n, k < l, ~Together(k, l)
        PROVE  real_arr'[k] >= real_arr'[l]
    <3>1. real_arr[k] >= real_arr[l]
      BY <2>1, <2>3 DEF OrderedAcross
    <3>2. Swapped(i + 1, j)[k] >= Swapped(i + 1, j)[l]
      BY <2>1, <2>3, SwapKeepsOrder
    <3> QED
      BY <2>2, <3>1, <3>2
  <2> QED
    BY <2>1, <2>3 DEF OrderedAcross, Together
<1>4. CASE Place
  <2> DEFINE pi == i + 1
  <2>1. /\ low \in Nat /\ high \in Nat /\ low < high /\ high <= n
        /\ i \in Int /\ pi \in low..high /\ j = high
        /\ pi \in Slots /\ high \in Slots
        /\ low..high \subseteq Slots
        /\ \A k \in Slots : real_arr[k] \in Int
        /\ pc = "loop" /\ n' = n /\ real_arr' = Swapped(pi, high)
    <3>1. pc = "loop"
      BY <1>4 DEF Place
    <3>2. /\ low \in Nat /\ high \in Nat /\ low < high /\ high <= n
          /\ low..high \subseteq Slots /\ i \in Int
          /\ \A k \in Slots : real_arr[k] \in Int
      BY <3>1, LoopRange
    <3>3. /\ pi \in low..high /\ j = high
          /\ n' = n /\ real_arr' = Swapped(pi, high)
      BY <1>4, PlaceRange
    <3> QED
      BY <3>1, <3>2, <3>3
  <2>2. /\ Len(stack') = Len(stack) + 1 /\ Len(stack) \in Nat \ {0}
        /\ stack'[1] = <<low, i>> /\ stack'[2] = <<i + 2, high>>
        /\ \A m \in 3..Len(stack') : stack'[m] = stack[m - 1]
        /\ low = stack[1][1] /\ high = stack[1][2]
    BY <1>4, PlaceRange, TopOfStack
  <2>3. /\ real_arr'[pi] = pivot /\ real_arr'[high] = real_arr[pi]
        /\ \A k \in Slots \ {pi, high} : real_arr'[k] = real_arr[k]
    BY <2>1, SwapValues DEF SortTypeOK, pivot
  <2>4. \A k \in low..(pi - 1) : real_arr'[k] > pivot
    <3> SUFFICES ASSUME NEW k \in low..(pi - 1) PROVE real_arr'[k] > pivot
      OBVIOUS
    <3>1. k \in low..i /\ k \in Slots \ {pi, high}
      BY <2>1
    <3> QED
      BY <2>1, <2>3, <3>1 DEF Partitioned
  <2>5. \A l \in pi..high : real_arr'[l] <= pivot
    <3> SUFFICES ASSUME NEW l \in pi..high PROVE real_arr'[l] <= pivot
      OBVIOUS
    <3>1. CASE l = pi
      BY <2>1, <2>3, <3>1 DEF pivot
    <3>2. CASE l # pi /\ l = high
      <4>1. pi \in (i + 1)..(j - 1)
        BY <2>1, <3>2
      <4> QED
        BY <2>1, <2>3, <3>2, <4>1 DEF Partitioned
    <3>3. CASE l # pi /\ l # high
      <4>1. l \in (i + 1)..(j - 1) /\ l \in Slots \ {pi, high}
        BY <2>1, <3>3
      <4> QED
        BY <2>1, <2>3, <4>1 DEF Partitioned
    <3> QED
      BY <3>1, <3>2, <3>3
  <2>6. ASSUME NEW k \in 0..n, NEW l \in 0..n, k < l, ~Together(k, l)'
        PROVE  real_arr'[k] >= real_arr'[l]
    <3>1. CASE ~Together(k, l)
      BY <2>1, <2>6, <3>1, SwapKeepsOrder
    <3>2. CASE Together(k, l)
      <4>1. PICK m \in 1..Len(stack) : stack[m][1] <= k /\ l <= stack[m][2]
        BY <3>2 DEF Together
      <4>2. m = 1
        <5> SUFFICES ASSUME m # 1 PROVE FALSE
          OBVIOUS
        <5>1. m + 1 \in 3..Len(stack') /\ stack'[m + 1] = stack[m]
          BY <2>2
        <5> QED
          BY <2>2, <2>6, <4>1, <5>1 DEF Together
      <4>3. k \in low..high /\ l \in low..high
        BY <2>1, <2>2, <2>6, <4>1, <4>2
      <4>4. 1 \in 1..Len(stack') /\ 2 \in 1..Len(stack')
        BY <2>2
      <4>5. ~(l <= i) /\ ~(i + 2 <= k)
        BY <2>2, <2>6, <4>3, <4>4 DEF Together
      <4>6. k \in low..pi /\ l \in pi..high
        BY <2>1, <4>3, <4>5
      <4>7. k \in low..(pi - 1) \/ k = pi
        BY <2>1, <4>6
      <4>8. pivot \in Int /\ k \in Slots /\ l \in Slots
        BY <2>1, <4>3 DEF pivot
      <4>9. real_arr'[l] \in Int /\ real_arr'[k] \in Int
        BY <2>1, <2>3, <4>8 DEF pivot
      <4> QED
        BY <2>3, <2>4, <2>5, <4>6, <4>7, <4>8, <4>9
    <3> QED
      BY <3>1, <3>2
  <2> QED
    BY <2>1, <2>6 DEF OrderedAcross
<1>5. CASE UNCHANGED <<n, real_arr, stack>> /\ pc # "idle"
  BY <1>5 DEF OrderedAcross, Together
<1>6. CASE pc' = "idle"
  BY <1>6 DEF OrderedAcross
<1>7. CASE UNCHANGED vars
  BY <1>7 DEF vars, sortVars, OrderedAcross, Together
<1> QED
  BY <1>1, <1>2, <1>3, <1>4, <1>5, <1>6, <1>7, NextCases
  DEF Draw, Drawing, Collect, BeginPartition, Return

LEMMA ReturnedStep == Inv /\ [Next]_vars => Returned'
<1> SUFFICES ASSUME Inv, [Next]_vars PROVE Returned'
  OBVIOUS
<1>1. CASE UNCHANGED vars
  BY <1>1 DEF Inv, Returned, vars, sortVars
<1> QED
  BY <1>1, NextCases
  DEF Returned, Draw, Drawing, BeginSort, Collect, Skip, BeginPartition, Scan, Place, Return

LEMMA ListsStep == Inv /\ [Next]_vars => ListsReady'
<1> SUFFICES ASSUME Inv, [Next]_vars PROVE ListsReady'
  OBVIOUS
<1> USE DEF Inv
<1>1. CASE Collect
  <2>1. /\ c_data \in Seq(Seq(Values)) /\ Len(c_data) \in Nat
        /\ station = Len(c_data) + 1
        /\ station <= Len(sample_size) /\ n = Size
        /\ sample_size' = sample_size
        /\ c_data' = Append(c_data, Collected)
    BY <1>1 DEF Collect, DataOK, station
  <2>2. Size \in Nat
    BY <2>1, SizeFits
  <2>3. Collected \in Seq(Values)
    <3>1. \A k \in 1..Size : k - 1 \in Slots
      <4>1. Size \in 1..(MAXSAMPLESIZE - 1)
        BY <2>1, SizeFits
      <4> QED
        BY <4>1, MAXSAMPLESIZEAssumption DEF Slots
    <3>2. Collected \in [1..Size -> Values]
      BY <3>1 DEF Collected, tmp, SortTypeOK
    <3> QED
      BY <2>2, <3>2
  <2>4. /\ DOMAIN c_data' = 1..(Len(c_data) + 1)
        /\ DOMAIN c_data = 1..Len(c_data)
        /\ \A s \in 1..Len(c_data) : c_data'[s] = c_data[s]
        /\ c_data'[station] = Collected
    BY <2>1, <2>3
  <2>5. Len(Collected) = sample_size[station] /\ DOMAIN Collected = 1..Size
    BY <2>2 DEF Collected, Size
  <2>6. ASSUME NEW k \in 1..Size, NEW l \in 1..Size, k < l
        PROVE  Collected[k] >= Collected[l]
    <3>1. k - 1 \in 0..n /\ l - 1 \in 0..n /\ k - 1 < l - 1
      BY <2>1, <2>2, <2>6
    <3>2. ~Together(k - 1, l - 1)
      BY <1>1 DEF Collect, Returned, Together
    <3>3. real_arr[k - 1] >= real_arr[l - 1]
      BY <1>1, <3>1, <3>2 DEF OrderedAcross, Collect
    <3> QED
      BY <3>3 DEF Collected, tmp
  <2>7. ASSUME NEW s \in DOMAIN c_data'
        PROVE  /\ Len(c_data'[s]) = sample_size'[s]
               /\ \A k, l \in DOMAIN c_data'[s] : k < l => c_data'[s][k] >= c_data'[s][l]
    <3>1. CASE s = station
      BY <2>1, <2>4, <2>5, <2>6, <3>1
    <3>2. CASE s # station
      <4>1. s \in 1..Len(c_data)
        BY <2>1, <2>4, <3>2
      <4> QED
        BY <2>1, <2>4, <4>1 DEF ListsReady
    <3> QED
      BY <3>1, <3>2
  <2> QED
    BY <2>7 DEF ListsReady
<1>2. CASE UNCHANGED <<c_data, sample_size>>
  BY <1>2 DEF ListsReady
<1> QED
  BY <1>1, <1>2, NextCases DEF Draw, BeginSort, vars, dataVars

-----------------------------------------------------------------------------
(* What becomes of the scores.                                              *)

(* What the sort works on: the scores drawn, and what lay behind them.      *)
All == Append(given[station].scores, given[station].behind)

(* Scores were noted for every station whose sort has begun.                *)
GivenOK ==
    /\ given \in Seq([scores : Seq(Values), behind : Values])
    /\ Len(given) = IF pc = "idle" THEN Len(c_data) ELSE station
    /\ \A s \in 1..Len(given) : Len(given[s].scores) = sample_size[s]

(* How often the values of a set lie in a stretch of an array. *)
Hits(arr, a, b, W) == Cardinality({k \in a..b : arr[k] \in W})

(* However often the values of a set are among those the sort works on, they *)
(* are in the array that often.                                              *)
Counted ==
    pc # "idle" =>
        \A W \in SUBSET Values :
            Hits(real_arr, 0, n, W) = Hits(All, 1, n + 1, W)

(* Lists that do not become shorter, in memory that was zero. *)
Growing == \A s \in 2..Len(sample_size) : sample_size[s - 1] <= sample_size[s]

(* Then all is zero that no list has reached. *)
Reached(k) ==
    IF pc = "idle" THEN k < filled \/ (c_data # <<>> /\ k < sample_size[Len(c_data)])
                   ELSE k <= n
Cleared ==
    fresh /\ Growing =>
        /\ \A k \in Slots : ~Reached(k) => real_arr[k] = 0
        /\ pc # "idle" => given[station].behind = 0

ScoreInv == GivenOK /\ Counted /\ Cleared /\ GreatestKept /\ FreshIsExact

(* Two sets whose elements correspond have the same number of them.         *)
LEMMA SameCount ==
    ASSUME NEW S, NEW T, IsFiniteSet(S),
           NEW f \in [S -> T], NEW g \in [T -> S],
           \A x \in S : g[f[x]] = x, \A y \in T : f[g[y]] = y
    PROVE  IsFiniteSet(T) /\ Cardinality(T) = Cardinality(S)
<1>1. f \in Bijection(S, T)
  BY DEF Bijection, Injection, Surjection, IsInjective
<1>2. ExistsBijection(S, T)
  BY <1>1 DEF ExistsBijection
<1> QED
  BY <1>2, FS_Bijection

LEMMA FiniteStretch ==
    ASSUME NEW a \in Int, NEW b \in Int, NEW S \in SUBSET (a..b)
    PROVE  IsFiniteSet(S)
<1>1. IsFiniteSet(a..b)
  BY FS_Interval
<1> QED
  BY <1>1, FS_Subset

(* An exchange changes no number of hits. *)
LEMMA SwapCount ==
    ASSUME NEW m \in Nat, NEW arr, NEW new, NEW a \in 0..m, NEW b \in 0..m,
           new[a] = arr[b], new[b] = arr[a],
           \A k \in 0..m : k # a /\ k # b => new[k] = arr[k],
           NEW W
    PROVE  Hits(new, 0, m, W) = Hits(arr, 0, m, W)
<1> DEFINE S == {k \in 0..m : arr[k] \in W}
           T == {k \in 0..m : new[k] \in W}
           Swap(k) == IF k = a THEN b ELSE IF k = b THEN a ELSE k
           f == [k \in S |-> Swap(k)]
           g == [k \in T |-> Swap(k)]
<1>1. \A k \in 0..m : Swap(k) \in 0..m /\ Swap(Swap(k)) = k /\ new[Swap(k)] = arr[k]
                       /\ arr[Swap(k)] = new[k]
  OBVIOUS
<1>2. IsFiniteSet(S)
  <2>1. S \in SUBSET (0..m) /\ 0 \in Int /\ m \in Int
    OBVIOUS
  <2> HIDE DEF S, T
  <2> QED
    BY <2>1, FiniteStretch, Zenon
<1> HIDE DEF Swap
<1>3. f \in [S -> T] /\ g \in [T -> S]
  BY <1>1
<1>4. (\A k \in S : g[f[k]] = k) /\ (\A k \in T : f[g[k]] = k)
  BY <1>1, <1>3
<1> HIDE DEF S, T, f, g
<1>5. Cardinality(T) = Cardinality(S)
  BY <1>2, <1>3, <1>4, SameCount
<1> QED
  BY <1>5 DEF S, T, Hits

(* The same stretch counted from one instead of zero. *)
LEMMA ShiftCount ==
    ASSUME NEW m \in Nat, NEW arr, NEW new,
           \A k \in 1..m : new[k] = arr[k - 1],
           NEW W
    PROVE  Hits(new, 1, m, W) = Hits(arr, 0, m - 1, W)
<1> DEFINE S == {k \in 0..(m - 1) : arr[k] \in W}
           T == {k \in 1..m : new[k] \in W}
           f == [k \in S |-> k + 1]
           g == [k \in T |-> k - 1]
<1>1. \A k \in 0..(m - 1) : k + 1 \in 1..m /\ (k + 1) - 1 = k
  OBVIOUS
<1>2. \A k \in 1..m : k - 1 \in 0..(m - 1) /\ (k - 1) + 1 = k
  OBVIOUS
<1>3. IsFiniteSet(S)
  <2>1. S \in SUBSET (0..(m - 1)) /\ 0 \in Int /\ m \in Int /\ m - 1 \in Int
    OBVIOUS
  <2> HIDE DEF S, T
  <2> QED
    BY <2>1, FiniteStretch, Zenon
<1>4. f \in [S -> T]
  <2>1. ASSUME NEW k \in S PROVE k + 1 \in T
    <3>1. k + 1 \in 1..m /\ (k + 1) - 1 = k
      BY <1>1
    <3>2. new[k + 1] = arr[k]
      BY <3>1
    <3> QED
      BY <3>1, <3>2
  <2> HIDE DEF S, T
  <2> QED
    BY <2>1
<1>5. g \in [T -> S]
  <2>1. ASSUME NEW k \in T PROVE k - 1 \in S
    BY <1>2
  <2> HIDE DEF S, T
  <2> QED
    BY <2>1
<1>6. (\A k \in S : g[f[k]] = k) /\ (\A k \in T : f[g[k]] = k)
  BY <1>1, <1>2, <1>4, <1>5
<1> HIDE DEF S, T, f, g
<1>7. Cardinality(T) = Cardinality(S)
  BY <1>3, <1>4, <1>5, <1>6, SameCount
<1> QED
  BY <1>7 DEF S, T, Hits

(* The hits with the last slot, and without. *)
LEMMA LastCount ==
    ASSUME NEW m \in Nat, NEW arr, NEW W
    PROVE  LET with == Hits(arr, 0, m, W)
               without == Hits(arr, 0, m - 1, W)
           IN  /\ with \in 0..(m + 1) /\ without \in 0..m
               /\ with = IF arr[m] \in W THEN without + 1 ELSE without
<1> DEFINE S == {k \in 0..m : arr[k] \in W}
           T == {k \in 0..(m - 1) : arr[k] \in W}
<1>1. IsFiniteSet(S) /\ IsFiniteSet(T)
  <2>1. S \in SUBSET (0..m) /\ T \in SUBSET (0..(m - 1)) /\ 0 \in Int /\ m \in Int /\ m - 1 \in Int
    OBVIOUS
  <2> HIDE DEF S, T
  <2> QED
    BY <2>1, FiniteStretch, Zenon
<1>2. Cardinality(S) \in Nat /\ Cardinality(T) \in Nat
  BY <1>1, FS_CardinalityType
<1>3. Cardinality(S) <= m + 1
  <2>1. IsFiniteSet(0..m) /\ Cardinality(0..m) = m + 1
    BY FS_Interval
  <2> QED
    BY <2>1, FS_Subset
<1>4. Cardinality(T) <= m
  <2>1. IsFiniteSet(0..(m - 1)) /\ Cardinality(0..(m - 1)) = m
    <3> DEFINE last == m - 1
    <3>1. last \in Int /\ last = m - 1
      OBVIOUS
    <3> HIDE DEF last
    <3>2. IsFiniteSet(0..last) /\ Cardinality(0..last) = IF 0 > last THEN 0 ELSE last - 0 + 1
      BY <3>1, FS_Interval
    <3>3. (IF 0 > last THEN 0 ELSE last - 0 + 1) = m
      BY <3>1
    <3> QED
      BY <3>2, <3>3 DEF last
  <2> QED
    BY <2>1, FS_Subset
<1>5. m \notin T /\ S = IF arr[m] \in W THEN T \cup {m} ELSE T
  OBVIOUS
<1> HIDE DEF S, T
<1>6. Cardinality(S) = IF arr[m] \in W THEN Cardinality(T) + 1 ELSE Cardinality(T)
  BY <1>1, <1>5, FS_AddElement
<1>7. Cardinality(S) \in 0..(m + 1) /\ Cardinality(T) \in 0..m
  BY <1>2, <1>3, <1>4
<1> QED
  BY <1>6, <1>7 DEF S, T, Hits

(* A stretch where everything hits. *)
LEMMA FullCount ==
    ASSUME NEW m \in Nat, NEW arr, NEW W, \A k \in 0..(m - 1) : arr[k] \in W
    PROVE  Hits(arr, 0, m - 1, W) = m
<1> DEFINE S == {k \in 0..(m - 1) : arr[k] \in W}
           zero == 0
           last == m - 1
<1>1. S = zero..last /\ zero = 0 /\ last = m - 1
  OBVIOUS
<1>2. zero \in Int /\ last \in Int
  OBVIOUS
<1>3. (IF zero > last THEN 0 ELSE last - zero + 1) = m
  OBVIOUS
<1> HIDE DEF S, zero, last
<1>4. Cardinality(zero..last) = IF zero > last THEN 0 ELSE last - zero + 1
  BY <1>2, FS_Interval, Zenon
<1>5. Cardinality(S) = m
  BY <1>1, <1>3, <1>4
<1> QED
  BY <1>5 DEF S, Hits

(* In an array that descends, all but the last slot hold the greatest.      *)
LEMMA GreatestFirst ==
    ASSUME NEW m \in Nat, NEW arr, \A k \in 0..m : arr[k] \in Int,
           \A k, l \in 0..m : k < l => arr[k] >= arr[l],
           NEW v \in Int, NEW W, \A k \in 0..m : arr[k] \in W <=> arr[k] >= v
    PROVE  Hits(arr, 0, m - 1, W)
             = IF Hits(arr, 0, m, W) > m THEN m ELSE Hits(arr, 0, m, W)
<1> DEFINE with == Hits(arr, 0, m, W)
           without == Hits(arr, 0, m - 1, W)
<1>1. /\ with \in 0..(m + 1) /\ without \in 0..m
      /\ with = IF arr[m] \in W THEN without + 1 ELSE without
  BY LastCount
<1>2. CASE arr[m] \in W
  <2>1. \A k \in 0..(m - 1) : k \in 0..m /\ m \in 0..m /\ k < m
    OBVIOUS
  <2>2. ASSUME NEW k \in 0..(m - 1) PROVE arr[k] \in W
    <3>1. k \in 0..m /\ m \in 0..m /\ k < m
      BY <2>1
    <3>2. arr[k] >= arr[m] /\ arr[m] >= v /\ arr[k] \in Int /\ arr[m] \in Int
      BY <1>2, <3>1
    <3>3. arr[k] >= v
      BY <3>2
    <3> QED
      BY <3>1, <3>3
  <2>3. without = m
    BY <2>2, FullCount
  <2> HIDE DEF with, without
  <2>4. with = m + 1
    BY <1>1, <1>2, <2>3
  <2>5. without = IF with > m THEN m ELSE with
    BY <2>3, <2>4
  <2> QED
    BY <2>5 DEF with, without
<1>3. CASE arr[m] \notin W
  <2> HIDE DEF with, without
  <2>1. without = IF with > m THEN m ELSE with
    BY <1>1, <1>3
  <2> QED
    BY <2>1 DEF with, without
<1> QED
  BY <1>2, <1>3

(* One element more. *)
LEMMA AppendCount ==
    ASSUME NEW V, NEW seq \in Seq(V), NEW x \in V, NEW W
    PROVE  /\ Hits(seq, 1, Len(seq), W) \in Nat
           /\ Hits(Append(seq, x), 1, Len(seq) + 1, W)
                = IF x \in W THEN Hits(seq, 1, Len(seq), W) + 1
                             ELSE Hits(seq, 1, Len(seq), W)
<1> DEFINE m == Len(seq)
           next == m + 1
           longer == Append(seq, x)
           base == [k \in 0..m |-> longer[k + 1]]
<1>1. m \in Nat /\ next \in Nat /\ next - 1 = m
  OBVIOUS
<1>2. \A k \in 1..m : longer[k] = seq[k]
  OBVIOUS
<1>3. longer[m + 1] = x
  OBVIOUS
<1> HIDE DEF longer
<1>4. \A k \in 1..next : longer[k] = base[k - 1]
  OBVIOUS
<1>5. \A k \in 1..m : seq[k] = base[k - 1]
  BY <1>2
<1>6. base[m] = x
  BY <1>1, <1>3
<1> HIDE DEF base, next, m
<1>7. Hits(longer, 1, next, W) = Hits(base, 0, next - 1, W)
  BY <1>1, <1>4, ShiftCount
<1>8. Hits(seq, 1, m, W) = Hits(base, 0, m - 1, W)
  BY <1>1, <1>5, ShiftCount
<1>9. /\ Hits(base, 0, m - 1, W) \in 0..m
      /\ Hits(base, 0, m, W) = IF base[m] \in W THEN Hits(base, 0, m - 1, W) + 1
                                                ELSE Hits(base, 0, m - 1, W)
  BY <1>1, LastCount
<1>10. Hits(longer, 1, next, W) = Hits(base, 0, m, W)
  BY <1>1, <1>7
<1>11. Hits(seq, 1, m, W) \in Nat
  BY <1>1, <1>8, <1>9
<1>12. Hits(longer, 1, next, W) = IF x \in W THEN Hits(seq, 1, m, W) + 1
                                             ELSE Hits(seq, 1, m, W)
  BY <1>6, <1>8, <1>9, <1>10
<1> QED
  BY <1>11, <1>12 DEF longer, next, m

(* The counts of the properties. *)
LEMMA CountsAreHits ==
    ASSUME NEW seq \in Seq(Values), NEW v
    PROVE  /\ AtLeast(seq, v) = Hits(seq, 1, Len(seq), {x \in Values : x >= v})
           /\ Times(seq, v) = Hits(seq, 1, Len(seq), {v})
<1>1. {k \in DOMAIN seq : seq[k] >= v}
        = {k \in 1..Len(seq) : seq[k] \in {x \in Values : x >= v}}
  OBVIOUS
<1>2. {k \in DOMAIN seq : seq[k] = v} = {k \in 1..Len(seq) : seq[k] \in {v}}
  OBVIOUS
<1> QED
  BY <1>1, <1>2 DEF AtLeast, Times, Hits

(* Scores and what lay behind them, of the station at hand.                 *)
LEMMA AllOfStation ==
    ASSUME Inv, GivenOK, pc # "idle"
    PROVE  /\ station \in 1..Len(given) /\ station \in 1..Len(sample_size)
           /\ n \in Nat /\ n = sample_size[station]
           /\ given[station].scores \in Seq(Values)
           /\ given[station].behind \in Values
           /\ Len(given[station].scores) = n
           /\ All \in Seq(Values) /\ Len(All) = n + 1
           /\ All[n + 1] = given[station].behind
<1>1. station <= Len(sample_size) /\ n = sample_size[station]
  BY DEF Inv, DataOK, Size
<1>2. station \in 1..Len(sample_size) /\ n \in Nat
  BY <1>1, SizeFits DEF Inv, Size
<1>3. /\ given \in Seq([scores : Seq(Values), behind : Values])
      /\ Len(given) = station
      /\ \A s \in 1..Len(given) : Len(given[s].scores) = sample_size[s]
  BY DEF GivenOK
<1>4. station \in 1..Len(given)
  BY <1>2, <1>3
<1>5. given[station] \in [scores : Seq(Values), behind : Values]
  <2> DEFINE Notes == [scores : Seq(Values), behind : Values]
  <2>1. given \in Seq(Notes)
    BY <1>3
  <2> HIDE DEF Notes
  <2>2. given[station] \in Notes
    BY <1>4, <2>1
  <2> QED
    BY <2>2 DEF Notes
<1>6. /\ given[station].scores \in Seq(Values)
      /\ given[station].behind \in Values
      /\ Len(given[station].scores) = n
  BY <1>1, <1>3, <1>4, <1>5
<1>7. All \in Seq(Values) /\ Len(All) = n + 1 /\ All[n + 1] = given[station].behind
  BY <1>6 DEF All
<1> QED
  BY <1>1, <1>2, <1>4, <1>6, <1>7

(* The sort exchanges within what it was given, or leaves the array alone.  *)
LEMMA SortSteps ==
    ASSUME Inv,
           (Skip \/ BeginPartition \/ Scan \/ Place \/ Return) /\ UNCHANGED dataVars
    PROVE  /\ pc # "idle" /\ pc' # "idle" /\ n' = n /\ UNCHANGED dataVars
           /\ n \in Slots /\ n \in Nat /\ 0..n \subseteq Slots
           /\ \/ real_arr' = real_arr
              \/ \E a, b \in 0..n : /\ real_arr'[a] = real_arr[b]
                                    /\ real_arr'[b] = real_arr[a]
                                    /\ \A k \in Slots : k # a /\ k # b =>
                                          real_arr'[k] = real_arr[k]
<1> USE DEF Inv
<1>1. pc # "idle" /\ pc' # "idle" /\ n' = n /\ UNCHANGED dataVars
  BY DEF Skip, BeginPartition, Scan, Place, Return
<1>2. n \in Slots /\ n \in Nat /\ 0..n \subseteq Slots
  BY MAXSAMPLESIZEAssumption DEF SortTypeOK, Slots
<1>3. ASSUME NEW a \in low..high, NEW b \in low..high, pc = "loop",
             real_arr' = Swapped(a, b)
      PROVE  \E x, y \in 0..n : /\ real_arr'[x] = real_arr[y]
                                /\ real_arr'[y] = real_arr[x]
                                /\ \A k \in Slots : k # x /\ k # y =>
                                      real_arr'[k] = real_arr[k]
  <2>1. a \in 0..n /\ b \in 0..n /\ a \in Slots /\ b \in Slots
    BY <1>2, <1>3, LoopRange
  <2>2. real_arr \in [Slots -> Values]
    BY DEF SortTypeOK
  <2>3. /\ real_arr'[a] = real_arr[b] /\ real_arr'[b] = real_arr[a]
        /\ \A k \in Slots : k # a /\ k # b => real_arr'[k] = real_arr[k]
    BY <1>3, <2>1, <2>2, SwapValues
  <2> QED
    BY <2>1, <2>3
<1>4. CASE Scan
  <2>1. i + 1 \in low..high /\ j \in low..high /\ pc = "loop"
    BY <1>4, ScanRange DEF Scan
  <2>2. real_arr' = real_arr \/ real_arr' = Swapped(i + 1, j)
    BY <1>4 DEF Scan, Ahead
  <2> QED
    BY <1>1, <1>2, <1>3, <2>1, <2>2
<1>5. CASE Place
  <2>1. /\ i + 1 \in low..high /\ j = high /\ pc = "loop"
        /\ real_arr' = Swapped(i + 1, high)
    BY <1>5, PlaceRange DEF Place
  <2>2. high \in low..high
    BY <2>1, LoopRange
  <2> QED
    BY <1>1, <1>2, <1>3, <2>1, <2>2
<1>6. CASE Skip \/ BeginPartition \/ Return
  <2>1. real_arr' = real_arr
    BY <1>6 DEF Skip, BeginPartition, Return
  <2> QED
    BY <1>1, <1>2, <2>1
<1> QED
  BY <1>4, <1>5, <1>6

(* What a station's sort begins with. *)
LEMMA BeginSortFacts ==
    ASSUME Inv, GivenOK, BeginSort
    PROVE  /\ Size \in Nat /\ Size \in Slots /\ Size = sample_size[station]
           /\ station \in 1..Len(sample_size)
           /\ 0..Size \subseteq Slots
           /\ n' = Size /\ filled = Size /\ pc = "idle" /\ pc' = "call"
           /\ station' = station
           /\ UNCHANGED <<real_arr, sample_size, c_data, fresh>>
           /\ given' \in Seq([scores : Seq(Values), behind : Values])
           /\ Len(given') = station
           /\ \A s \in 1..Len(c_data) : given'[s] = given[s]
           /\ given'[station].scores = [k \in 1..Size |-> real_arr[k - 1]]
           /\ given'[station].behind = real_arr[Size]
           /\ given'[station].scores \in Seq(Values)
           /\ Len(given'[station].scores) = Size
<1> USE DEF Inv
<1> DEFINE scores == [k \in 1..Size |-> real_arr[k - 1]]
           new == [scores |-> scores, behind |-> real_arr[Size]]
<1>1. /\ station <= Len(sample_size) /\ pc = "idle" /\ pc' = "call"
      /\ filled = Size /\ n' = Size /\ given' = Append(given, new)
      /\ UNCHANGED <<real_arr, sample_size, c_data, fresh>>
  BY DEF BeginSort, Drawing, tmp
<1>2. /\ Size \in Nat /\ Size \in Slots /\ station \in 1..Len(sample_size)
      /\ 0..Size \subseteq Slots
  BY <1>1, SizeFits, MAXSAMPLESIZEAssumption DEF Slots
<1>3. real_arr \in [Slots -> Values]
  BY DEF SortTypeOK
<1>4. scores \in Seq(Values) /\ Len(scores) = Size
  <2>1. \A k \in 1..Size : k - 1 \in Slots
    BY <1>2
  <2>2. scores \in [1..Size -> Values]
    BY <1>3, <2>1
  <2> QED
    BY <1>2, <2>2
<1>5. new \in [scores : Seq(Values), behind : Values]
  BY <1>2, <1>3, <1>4
<1>6. /\ given \in Seq([scores : Seq(Values), behind : Values])
      /\ Len(given) = Len(c_data) /\ Len(c_data) \in Nat
      /\ station = Len(c_data) + 1
  BY <1>1 DEF GivenOK, DataOK, station
<1>7. new.scores = scores /\ new.behind = real_arr[Size]
  OBVIOUS
<1> HIDE DEF new
<1>8. /\ given' \in Seq([scores : Seq(Values), behind : Values])
      /\ Len(given') = station
      /\ \A s \in 1..Len(c_data) : given'[s] = given[s]
      /\ given'[station] = new
  BY <1>1, <1>5, <1>6
<1>9. station' = station /\ Size = sample_size[station]
  BY <1>1 DEF station, Size
<1> QED
  BY <1>1, <1>2, <1>4, <1>7, <1>8, <1>9

LEMMA GivenStep == Inv /\ GivenOK /\ [Next]_vars => GivenOK'
<1> SUFFICES ASSUME Inv, GivenOK, [Next]_vars PROVE GivenOK'
  OBVIOUS
<1>1. CASE BeginSort
  <2>1. /\ pc' = "call" /\ pc = "idle" /\ station' = station
        /\ sample_size' = sample_size
        /\ Size = sample_size[station]
        /\ given' \in Seq([scores : Seq(Values), behind : Values])
        /\ Len(given') = station
        /\ \A s \in 1..Len(c_data) : given'[s] = given[s]
        /\ Len(given'[station].scores) = Size
    BY <1>1, BeginSortFacts
  <2>2. /\ Len(given) = Len(c_data) /\ Len(c_data) \in Nat
        /\ station = Len(c_data) + 1
        /\ \A s \in 1..Len(given) : Len(given[s].scores) = sample_size[s]
    BY <2>1 DEF GivenOK, Inv, DataOK, station
  <2>3. ASSUME NEW s \in 1..Len(given')
        PROVE  Len(given'[s].scores) = sample_size'[s]
    <3>1. s = station \/ s \in 1..Len(c_data)
      BY <2>1, <2>2
    <3> QED
      BY <2>1, <2>2, <3>1
  <2> QED
    BY <2>1, <2>3 DEF GivenOK
<1>2. CASE Collect
  <2>1. /\ pc = "done" /\ pc' = "idle" /\ c_data' = Append(c_data, Collected)
        /\ UNCHANGED <<given, sample_size>>
    BY <1>2 DEF Collect
  <2>2. Len(c_data') = station
    BY <2>1 DEF Inv, DataOK, station
  <2> QED
    BY <2>1, <2>2 DEF GivenOK
<1>3. CASE (Skip \/ BeginPartition \/ Scan \/ Place \/ Return) /\ UNCHANGED dataVars
  <2>1. pc # "idle" /\ pc' # "idle" /\ UNCHANGED dataVars
    BY <1>3, SortSteps
  <2> QED
    BY <2>1 DEF GivenOK, dataVars, station
<1>4. CASE Draw \/ UNCHANGED vars
  <2>1. UNCHANGED <<given, sample_size, pc, c_data>>
    BY <1>4 DEF Draw, vars, sortVars
  <2> QED
    BY <2>1 DEF GivenOK, station
<1> QED
  BY <1>1, <1>2, <1>3, <1>4, NextCases

LEMMA CountedStep == Inv /\ GivenOK /\ Counted /\ [Next]_vars => Counted'
<1> SUFFICES ASSUME Inv, GivenOK, Counted, [Next]_vars PROVE Counted'
  OBVIOUS
<1>1. CASE BeginSort
  <2>1. /\ Size \in Nat /\ n' = Size /\ real_arr' = real_arr /\ station' = station
        /\ given'[station].scores = [k \in 1..Size |-> real_arr[k - 1]]
        /\ given'[station].behind = real_arr[Size]
        /\ given'[station].scores \in Seq(Values)
        /\ Len(given'[station].scores) = Size
    BY <1>1, BeginSortFacts
  <2>2. All' = Append(given'[station].scores, given'[station].behind)
    BY <2>1 DEF All
  <2>3. \A k \in 1..(Size + 1) : All'[k] = real_arr[k - 1]
    BY <2>1, <2>2
  <2> DEFINE next == Size + 1
             all == All'
  <2>4. next \in Nat /\ next - 1 = Size /\ \A k \in 1..next : all[k] = real_arr[k - 1]
    BY <2>1, <2>3
  <2> HIDE DEF next, all
  <2>5. \A W : Hits(all, 1, next, W) = Hits(real_arr, 0, next - 1, W)
    BY <2>4, ShiftCount
  <2>6. \A W : Hits(all, 1, next, W) = Hits(real_arr, 0, Size, W)
    BY <2>4, <2>5
  <2> QED
    BY <2>1, <2>6 DEF next, all, Counted
<1>2. CASE (Skip \/ BeginPartition \/ Scan \/ Place \/ Return) /\ UNCHANGED dataVars
  <2>1. /\ pc # "idle" /\ n' = n /\ UNCHANGED dataVars
        /\ n \in Nat /\ 0..n \subseteq Slots
        /\ \/ real_arr' = real_arr
           \/ \E a, b \in 0..n : /\ real_arr'[a] = real_arr[b]
                                 /\ real_arr'[b] = real_arr[a]
                                 /\ \A k \in Slots : k # a /\ k # b =>
                                       real_arr'[k] = real_arr[k]
    BY <1>2, SortSteps
  <2>2. All' = All
    BY <2>1 DEF All, dataVars, station
  <2>3. ASSUME NEW W PROVE Hits(real_arr', 0, n, W) = Hits(real_arr, 0, n, W)
    <3>1. CASE real_arr' = real_arr
      BY <3>1
    <3>2. CASE real_arr' # real_arr
      <4>1. PICK a \in 0..n, b \in 0..n :
              /\ real_arr'[a] = real_arr[b]
              /\ real_arr'[b] = real_arr[a]
              /\ \A k \in Slots : k # a /\ k # b => real_arr'[k] = real_arr[k]
        BY <2>1, <3>2
      <4>2. \A k \in 0..n : k # a /\ k # b => real_arr'[k] = real_arr[k]
        BY <2>1, <4>1
      <4> QED
        BY <2>1, <4>1, <4>2, SwapCount
    <3> QED
      BY <3>1, <3>2
  <2> QED
    BY <2>1, <2>2, <2>3 DEF Counted
<1>3. CASE Draw \/ Collect
  BY <1>3 DEF Draw, Drawing, Collect, Counted
<1>4. CASE UNCHANGED vars
  BY <1>4 DEF vars, sortVars, Counted, All, station
<1> QED
  BY <1>1, <1>2, <1>3, <1>4, NextCases

(* When all is sorted: the array descends, and holds what it was given.     *)
LEMMA DoneFacts ==
    ASSUME Inv, GivenOK, pc = "done"
    PROVE  /\ n \in Nat /\ n \in Slots /\ n = Size /\ 0..n \subseteq Slots
           /\ \A k \in 0..n : real_arr[k] \in Values /\ real_arr[k] \in Nat
           /\ \A k, l \in 0..n : k < l => real_arr[k] >= real_arr[l]
<1> USE DEF Inv
<1>1. n = Size /\ stack = <<>>
  BY DEF DataOK, Returned
<1>2. n \in Slots /\ n \in Nat /\ 0..n \subseteq Slots
  BY MAXSAMPLESIZEAssumption DEF SortTypeOK, Slots
<1>3. \A k \in 0..n : real_arr[k] \in Values
  BY <1>2 DEF SortTypeOK
<1>4. \A k \in 0..n : real_arr[k] \in Nat
  BY <1>3, ValuesAssumption
<1>5. \A k, l \in 0..n : ~Together(k, l)
  BY <1>1 DEF Together
<1>6. \A k, l \in 0..n : k < l => real_arr[k] >= real_arr[l]
  BY <1>5 DEF OrderedAcross
<1> QED
  BY <1>1, <1>2, <1>3, <1>4, <1>6

(* A zero behind the scores is in the last slot when all is sorted.         *)
LEMMA LastIsZero ==
    ASSUME Inv, GivenOK, Counted, pc = "done", given[station].behind = 0
    PROVE  real_arr[n] = 0
<1>1. n \in Nat /\ All[n + 1] = 0 /\ 0 \in Values
  BY AllOfStation
<1>2. /\ \A k \in 0..n : real_arr[k] \in Nat
      /\ \A k, l \in 0..n : k < l => real_arr[k] >= real_arr[l]
  BY DoneFacts
<1>3. \E k \in 0..n : real_arr[k] = 0
  <2> SUFFICES ASSUME \A k \in 0..n : real_arr[k] # 0 PROVE FALSE
    OBVIOUS
  <2> DEFINE S == {k \in 1..(n + 1) : All[k] \in {0}}
  <2>1. {k \in 0..n : real_arr[k] \in {0}} = {}
    OBVIOUS
  <2>2. Hits(real_arr, 0, n, {0}) = 0
    BY <2>1, FS_EmptySet DEF Hits
  <2>3. Hits(All, 1, n + 1, {0}) = 0
    <3>1. {0} \in SUBSET Values
      BY <1>1
    <3> QED
      BY <2>2, <3>1 DEF Counted
  <2>4. Cardinality(S) = 0
    BY <2>3 DEF Hits
  <2>5. n + 1 \in S
    BY <1>1
  <2>6. IsFiniteSet(S)
    <3>1. S \in SUBSET (1..(n + 1)) /\ 1 \in Int /\ n + 1 \in Int
      BY <1>1
    <3> HIDE DEF S
    <3> QED
      BY <3>1, FiniteStretch, Zenon
  <2> HIDE DEF S
  <2> QED
    BY <2>4, <2>5, <2>6, FS_EmptySet
<1>4. PICK k \in 0..n : real_arr[k] = 0
  BY <1>3
<1>5. n \in 0..n /\ (k = n \/ k < n)
  BY <1>1
<1> QED
  BY <1>2, <1>4, <1>5

LEMMA ClearedStep == Inv /\ GivenOK /\ Counted /\ Cleared /\ [Next]_vars => Cleared'
<1> SUFFICES ASSUME Inv, GivenOK, Counted, Cleared, [Next]_vars,
                    fresh', Growing'
             PROVE  /\ \A k \in Slots : ~Reached(k)' => real_arr'[k] = 0
                    /\ pc' # "idle" => (given[station].behind)' = 0
  BY DEF Cleared
<1>1. fresh /\ Growing /\ sample_size' = sample_size
  <2>1. UNCHANGED <<fresh, sample_size>>
    BY NextCases DEF Draw, BeginSort, Collect, dataVars, vars
  <2> QED
    BY <2>1 DEF Growing
<1>2. /\ \A k \in Slots : ~Reached(k) => real_arr[k] = 0
      /\ pc # "idle" => given[station].behind = 0
  BY <1>1 DEF Cleared
<1>3. \A k \in Slots : k \in Nat
  BY MAXSAMPLESIZEAssumption DEF Slots
<1>4. CASE Draw
  <2>1. /\ pc = "idle" /\ pc' = "idle" /\ c_data' = c_data
        /\ filled' = filled + 1 /\ filled \in Nat
        /\ \E score : real_arr' = [real_arr EXCEPT ![filled] = score]
    BY <1>4 DEF Draw, Drawing, tmp, Inv, DataOK
  <2>2. real_arr \in [Slots -> Values]
    BY DEF Inv, SortTypeOK
  <2>3. ASSUME NEW k \in Slots, ~Reached(k)' PROVE real_arr'[k] = 0
    <3>1. ~(k < filled + 1) /\ ~(c_data # <<>> /\ k < sample_size[Len(c_data)])
      BY <1>1, <2>1, <2>3 DEF Reached
    <3>2. ~(k < filled) /\ k # filled
      BY <1>3, <2>1, <3>1
    <3>3. real_arr[k] = 0
      BY <1>2, <2>1, <3>1, <3>2 DEF Reached
    <3> QED
      BY <2>1, <2>2, <3>2, <3>3
  <2> QED
    BY <2>1, <2>3
<1>5. CASE BeginSort
  <2>1. /\ Size \in Nat /\ Size \in Slots /\ Size = sample_size[station]
        /\ station \in 1..Len(sample_size)
        /\ n' = Size /\ filled = Size /\ pc = "idle" /\ pc' = "call"
        /\ station' = station /\ real_arr' = real_arr
        /\ given'[station].behind = real_arr[Size]
    BY <1>5, BeginSortFacts
  <2>2. c_data # <<>> => sample_size[Len(c_data)] <= Size
    <3> SUFFICES ASSUME c_data # <<>> PROVE sample_size[Len(c_data)] <= Size
      OBVIOUS
    <3>1. Len(c_data) \in Nat \ {0} /\ station = Len(c_data) + 1
      BY DEF Inv, DataOK, station
    <3>2. station \in 2..Len(sample_size) /\ station - 1 = Len(c_data)
      BY <2>1, <3>1
    <3> QED
      BY <1>1, <2>1, <3>2 DEF Growing
  <2>3. c_data # <<>> => sample_size[Len(c_data)] \in Nat
    <3> SUFFICES ASSUME c_data # <<>> PROVE sample_size[Len(c_data)] \in Nat
      OBVIOUS
    <3>1. Len(c_data) \in Nat \ {0} /\ station = Len(c_data) + 1
      BY DEF Inv, DataOK, station
    <3>2. sample_size \in Seq(1..(MAXSAMPLESIZE - 1))
      BY SampleSizesAssumption DEF Inv, DataOK
    <3>3. Len(c_data) \in 1..Len(sample_size)
      BY <2>1, <3>1
    <3> QED
      BY <3>2, <3>3, MAXSAMPLESIZEAssumption
  <2>4. ASSUME NEW k \in Slots, k >= Size PROVE real_arr[k] = 0
    <3>1. ~(k < filled) /\ ~(c_data # <<>> /\ k < sample_size[Len(c_data)])
      BY <1>3, <2>1, <2>2, <2>3, <2>4
    <3> QED
      BY <1>2, <2>1, <3>1 DEF Reached
  <2>5. ASSUME NEW k \in Slots, ~Reached(k)' PROVE real_arr'[k] = 0
    <3>1. ~(k <= Size)
      BY <2>1, <2>5 DEF Reached
    <3>2. k >= Size
      BY <1>3, <2>1, <3>1
    <3> QED
      BY <2>1, <2>4, <3>2
  <2>6. real_arr[Size] = 0
    BY <2>1, <2>4
  <2> QED
    BY <2>1, <2>5, <2>6
<1>6. CASE (Skip \/ BeginPartition \/ Scan \/ Place \/ Return) /\ UNCHANGED dataVars
  <2>1. /\ pc # "idle" /\ pc' # "idle" /\ n' = n /\ UNCHANGED dataVars
        /\ n \in Nat /\ 0..n \subseteq Slots
        /\ \/ real_arr' = real_arr
           \/ \E a, b \in 0..n : /\ real_arr'[a] = real_arr[b]
                                 /\ real_arr'[b] = real_arr[a]
                                 /\ \A k \in Slots : k # a /\ k # b =>
                                       real_arr'[k] = real_arr[k]
    BY <1>6, SortSteps
  <2>2. ASSUME NEW k \in Slots, ~Reached(k)' PROVE real_arr'[k] = 0
    <3>1. ~(k <= n)
      BY <2>1, <2>2 DEF Reached
    <3>2. real_arr[k] = 0
      BY <1>2, <2>1, <3>1 DEF Reached
    <3>3. real_arr'[k] = real_arr[k]
      <4>1. \A a \in 0..n : k # a
        BY <3>1
      <4> QED
        BY <2>1, <4>1
    <3> QED
      BY <3>2, <3>3
  <2> QED
    BY <1>2, <2>1, <2>2 DEF dataVars, station
<1>7. CASE Collect
  <2>1. /\ pc = "done" /\ pc' = "idle" /\ filled' = 0 /\ real_arr' = real_arr
        /\ c_data' = Append(c_data, Collected)
    BY <1>7 DEF Collect
  <2>2. n \in Nat /\ n = Size
    BY <2>1, DoneFacts
  <2>3. c_data' # <<>> /\ Len(c_data') = station
    BY <2>1 DEF Inv, DataOK, station
  <2>4. real_arr[n] = 0
    BY <1>2, <2>1, LastIsZero
  <2>5. ASSUME NEW k \in Slots, ~Reached(k)' PROVE real_arr'[k] = 0
    <3>1. ~(k < n)
      BY <1>1, <2>1, <2>2, <2>3, <2>5 DEF Reached, Size
    <3>2. k = n \/ ~(k <= n)
      BY <1>3, <2>2, <3>1
    <3>3. ~(k <= n) => real_arr[k] = 0
      BY <1>2, <2>1 DEF Reached
    <3> QED
      BY <2>1, <2>4, <3>2, <3>3
  <2> QED
    BY <2>1, <2>5
<1>8. CASE UNCHANGED vars
  BY <1>2, <1>8 DEF vars, sortVars, Reached, station
<1> QED
  BY <1>4, <1>5, <1>6, <1>7, <1>8, NextCases

(* The list that is collected: its counts, by those of what was sorted.     *)
LEMMA CollectedFacts ==
    ASSUME Inv, GivenOK, Counted, Collect
    PROVE  /\ station \in 1..Len(given) /\ Len(c_data) + 1 = station
           /\ Len(c_data) \in Nat
           /\ n \in Nat /\ n = sample_size[station]
           /\ c_data' \in Seq(Seq(Values)) /\ Len(c_data') = station
           /\ \A s \in 1..Len(c_data) : c_data'[s] = c_data[s]
           /\ c_data'[station] = Collected
           /\ Collected \in Seq(Values) /\ Len(Collected) = n
           /\ UNCHANGED <<given, sample_size, fresh>>
           /\ \A W : Hits(Collected, 1, n, W) = Hits(real_arr, 0, n - 1, W)
           /\ \A W \in SUBSET Values :
                 Hits(real_arr, 0, n, W) = Hits(All, 1, n + 1, W)
<1>1. /\ pc = "done" /\ c_data' = Append(c_data, Collected)
      /\ UNCHANGED <<given, sample_size, fresh>>
  BY DEF Collect
<1>2. /\ n \in Nat /\ n = Size /\ 0..n \subseteq Slots
      /\ \A k \in 0..n : real_arr[k] \in Values
  BY <1>1, DoneFacts
<1>3. station \in 1..Len(given) /\ n = sample_size[station]
  BY <1>1, AllOfStation
<1>4. Collected \in Seq(Values) /\ Len(Collected) = n
  <2>1. \A k \in 1..n : k - 1 \in 0..n
    BY <1>2
  <2>2. Collected \in [1..n -> Values]
    BY <1>2, <2>1 DEF Collected, tmp
  <2> QED
    BY <1>2, <2>2
<1>5. c_data \in Seq(Seq(Values)) /\ Len(c_data) \in Nat /\ station = Len(c_data) + 1
  BY DEF Inv, DataOK, station
<1>6. /\ c_data' \in Seq(Seq(Values)) /\ Len(c_data') = station
      /\ \A s \in 1..Len(c_data) : c_data'[s] = c_data[s]
      /\ c_data'[station] = Collected
  <2> HIDE DEF station
  <2> QED
    BY <1>1, <1>4, <1>5
<1>7. \A W : Hits(Collected, 1, n, W) = Hits(real_arr, 0, n - 1, W)
  <2> DEFINE list == Collected
  <2>1. \A k \in 1..n : list[k] = real_arr[k - 1]
    BY <1>2 DEF Collected, tmp
  <2> HIDE DEF list
  <2>2. \A W : Hits(list, 1, n, W) = Hits(real_arr, 0, n - 1, W)
    BY <1>2, <2>1, ShiftCount
  <2> QED
    BY <2>2 DEF list
<1>8. \A W \in SUBSET Values : Hits(real_arr, 0, n, W) = Hits(All, 1, n + 1, W)
  BY <1>1 DEF Counted
<1> QED
  BY <1>1, <1>2, <1>3, <1>4, <1>5, <1>6, <1>7, <1>8

(* The lists and notes of the stations before stay as they are.             *)
LEMMA ListsStay ==
    ASSUME Inv, GivenOK, [Next]_vars, ~Collect
    PROVE  /\ UNCHANGED <<c_data, sample_size, fresh>>
           /\ \A s \in DOMAIN c_data : given'[s] = given[s]
<1>1. DOMAIN c_data = 1..Len(c_data)
  BY DEF Inv, DataOK
<1>2. CASE BeginSort
  BY <1>1, <1>2, BeginSortFacts
<1>3. CASE UNCHANGED <<c_data, sample_size, fresh, given>>
  BY <1>3
<1> QED
  BY <1>2, <1>3, NextCases DEF Draw, dataVars, vars

LEMMA GreatestStep == Inv /\ GivenOK /\ Counted /\ GreatestKept /\ [Next]_vars
                        => GreatestKept'
<1> SUFFICES ASSUME Inv, GivenOK, Counted, GreatestKept, [Next]_vars
             PROVE  GreatestKept'
  OBVIOUS
<1>1. CASE ~Collect
  BY <1>1, ListsStay DEF GreatestKept
<1>2. CASE Collect
  <2>1. /\ station \in 1..Len(given) /\ Len(c_data) + 1 = station /\ Len(c_data) \in Nat
        /\ n \in Nat /\ n = sample_size[station]
        /\ c_data' \in Seq(Seq(Values)) /\ Len(c_data') = station
        /\ \A s \in 1..Len(c_data) : c_data'[s] = c_data[s]
        /\ c_data'[station] = Collected
        /\ Collected \in Seq(Values) /\ Len(Collected) = n
        /\ UNCHANGED <<given, sample_size>>
        /\ \A W : Hits(Collected, 1, n, W) = Hits(real_arr, 0, n - 1, W)
        /\ \A W \in SUBSET Values : Hits(real_arr, 0, n, W) = Hits(All, 1, n + 1, W)
    BY <1>2, CollectedFacts
  <2>2. pc = "done" /\ pc # "idle"
    BY <1>2 DEF Collect
  <2>3. ASSUME NEW v \in Values
        PROVE  AtLeast(Collected, v)
                 = IF AtLeast(All, v) > n THEN n ELSE AtLeast(All, v)
    <3> DEFINE W == {x \in Values : x >= v}
    <3>1. AtLeast(Collected, v) = Hits(Collected, 1, n, W)
      BY <2>1, CountsAreHits
    <3>2. AtLeast(All, v) = Hits(All, 1, n + 1, W)
      BY <2>2, AllOfStation, CountsAreHits
    <3>3. /\ \A k \in 0..n : real_arr[k] \in Values /\ real_arr[k] \in Nat
          /\ \A k, l \in 0..n : k < l => real_arr[k] >= real_arr[l]
      BY <2>2, DoneFacts
    <3>4. W \in SUBSET Values /\ \A k \in 0..n : real_arr[k] \in W <=> real_arr[k] >= v
      BY <3>3
    <3>5. v \in Int /\ \A k \in 0..n : real_arr[k] \in Int
      BY <3>3, ValuesAssumption
    <3> HIDE DEF W
    <3>6. n \in Nat
      BY <2>1
    <3>7. Hits(real_arr, 0, n - 1, W)
            = IF Hits(real_arr, 0, n, W) > n THEN n ELSE Hits(real_arr, 0, n, W)
      BY <3>3, <3>4, <3>5, <3>6, GreatestFirst
    <3> QED
      BY <2>1, <3>1, <3>2, <3>4, <3>7
  <2>4. ASSUME NEW s \in DOMAIN c_data', NEW v \in Values
        PROVE  LET all == AtLeast(Append(given'[s].scores, given'[s].behind), v)
               IN  AtLeast(c_data'[s], v) = IF all > sample_size'[s] THEN sample_size'[s]
                                                                     ELSE all
    <3>1. s = station \/ s \in DOMAIN c_data
      <4>1. DOMAIN c_data' = 1..station /\ DOMAIN c_data = 1..Len(c_data)
        BY <2>1 DEF Inv, DataOK
      <4> QED
        BY <2>1, <2>4, <4>1
    <3>2. CASE s = station
      BY <2>1, <2>3, <3>2 DEF All
    <3>3. CASE s \in DOMAIN c_data
      <4>1. DOMAIN c_data = 1..Len(c_data)
        BY DEF Inv, DataOK
      <4>2. c_data'[s] = c_data[s]
        BY <2>1, <3>3, <4>1
      <4> QED
        BY <2>1, <3>3, <4>2 DEF GreatestKept
    <3> QED
      BY <3>1, <3>2, <3>3
  <2> QED
    BY <2>4 DEF GreatestKept
<1> QED
  BY <1>1, <1>2

LEMMA ExactStep == Inv /\ GivenOK /\ Counted /\ Cleared /\ FreshIsExact /\ [Next]_vars
                     => FreshIsExact'
<1> SUFFICES ASSUME Inv, GivenOK, Counted, Cleared, FreshIsExact, [Next]_vars,
                    fresh', Growing'
             PROVE  \A s \in DOMAIN c_data' : \A v \in Values :
                        Times(c_data'[s], v) = Times(given'[s].scores, v)
  BY DEF FreshIsExact, Growing
<1>1. CASE ~Collect
  <2>1. fresh /\ Growing
    BY <1>1, ListsStay DEF Growing
  <2> QED
    BY <1>1, <2>1, ListsStay DEF FreshIsExact, Growing
<1>2. CASE Collect
  <2>1. /\ station \in 1..Len(given) /\ Len(c_data) + 1 = station /\ Len(c_data) \in Nat
        /\ n \in Nat /\ n = sample_size[station]
        /\ c_data' \in Seq(Seq(Values)) /\ Len(c_data') = station
        /\ \A s \in 1..Len(c_data) : c_data'[s] = c_data[s]
        /\ c_data'[station] = Collected
        /\ Collected \in Seq(Values) /\ Len(Collected) = n
        /\ UNCHANGED <<given, sample_size, fresh>>
        /\ \A W : Hits(Collected, 1, n, W) = Hits(real_arr, 0, n - 1, W)
        /\ \A W \in SUBSET Values : Hits(real_arr, 0, n, W) = Hits(All, 1, n + 1, W)
    BY <1>2, CollectedFacts
  <2>2. pc = "done" /\ pc # "idle"
    BY <1>2 DEF Collect
  <2>3. fresh /\ Growing
    BY <2>1 DEF Growing
  <2>4. given[station].behind = 0
    BY <2>2, <2>3 DEF Cleared
  <2>5. real_arr[n] = 0
    BY <2>2, <2>4, LastIsZero
  <2> DEFINE scores == given[station].scores
  <2>6. /\ scores \in Seq(Values) /\ Len(scores) = n /\ 0 \in Values
        /\ All = Append(scores, 0)
    BY <2>2, <2>4, AllOfStation DEF All
  <2>7. ASSUME NEW v \in Values
        PROVE  Times(Collected, v) = Times(scores, v)
    <3> HIDE DEF scores
    <3> DEFINE W == {v}
    <3>1. Times(Collected, v) = Hits(Collected, 1, n, W)
      BY <2>1, CountsAreHits
    <3>2. Times(scores, v) = Hits(scores, 1, n, W)
      BY <2>6, CountsAreHits
    <3>3. W \in SUBSET Values
      OBVIOUS
    <3> HIDE DEF W
    <3>4. /\ Hits(scores, 1, n, W) \in Nat
          /\ Hits(All, 1, n + 1, W) = IF 0 \in W THEN Hits(scores, 1, n, W) + 1
                                                 ELSE Hits(scores, 1, n, W)
      BY <2>6, AppendCount
    <3>5. /\ Hits(real_arr, 0, n - 1, W) \in 0..n
          /\ Hits(real_arr, 0, n, W) = IF 0 \in W THEN Hits(real_arr, 0, n - 1, W) + 1
                                                  ELSE Hits(real_arr, 0, n - 1, W)
      <4>1. n \in Nat
        BY <2>1
      <4>2. /\ Hits(real_arr, 0, n - 1, W) \in 0..n
            /\ Hits(real_arr, 0, n, W)
                 = IF real_arr[n] \in W THEN Hits(real_arr, 0, n - 1, W) + 1
                                        ELSE Hits(real_arr, 0, n - 1, W)
        BY <4>1, LastCount
      <4> QED
        BY <2>5, <4>2
    <3>6. Hits(real_arr, 0, n - 1, W) = Hits(scores, 1, n, W)
      BY <2>1, <3>3, <3>4, <3>5
    <3> QED
      BY <2>1, <3>1, <3>2, <3>6
  <2>8. ASSUME NEW s \in DOMAIN c_data', NEW v \in Values
        PROVE  Times(c_data'[s], v) = Times(given'[s].scores, v)
    <3>1. s = station \/ s \in DOMAIN c_data
      <4>1. DOMAIN c_data' = 1..station /\ DOMAIN c_data = 1..Len(c_data)
        BY <2>1 DEF Inv, DataOK
      <4> QED
        BY <2>1, <2>8, <4>1
    <3>2. CASE s = station
      BY <2>1, <2>7, <3>2
    <3>3. CASE s \in DOMAIN c_data
      <4>1. DOMAIN c_data = 1..Len(c_data)
        BY DEF Inv, DataOK
      <4>2. c_data'[s] = c_data[s]
        BY <2>1, <3>3, <4>1
      <4>3. Times(c_data[s], v) = Times(given[s].scores, v)
        BY <2>3, <3>3 DEF FreshIsExact, Growing
      <4> QED
        BY <2>1, <4>2, <4>3
    <3> QED
      BY <3>1, <3>2, <3>3
  <2> QED
    BY <2>8
<1> QED
  BY <1>1, <1>2

LEMMA InitScores == Init => ScoreInv
<1> SUFFICES ASSUME Init PROVE ScoreInv
  OBVIOUS
<1>1. GivenOK /\ Counted /\ GreatestKept /\ FreshIsExact
  BY DEF Init, GivenOK, Counted, GreatestKept, FreshIsExact
<1>2. Cleared
  BY DEF Init, Cleared, Zero
<1> QED
  BY <1>1, <1>2 DEF ScoreInv

-----------------------------------------------------------------------------
(* The theorems. *)

LEMMA InitInv == Init => Inv
<1> SUFFICES ASSUME Init PROVE Inv
  OBVIOUS
<1>1. SortTypeOK
  BY MemoryAssumption, MAXSAMPLESIZEAssumption DEF Init, SortTypeOK, Slots
<1>2. DataOK /\ Ascending /\ Partitioned /\ OrderedAcross /\ Returned /\ ListsReady
  BY DEF Init, DataOK, Ascending, Partitioned, OrderedAcross, Returned, ListsReady
<1> QED
  BY <1>1, <1>2 DEF Inv

LEMMA InvStep == Inv /\ [Next]_vars => Inv'
BY TypeStep, DataStep, AscendingStep, PartitionedStep, OrderStep, ReturnedStep, ListsStep
DEF Inv

(* The inductive invariant of sort_values within random_data.               *)
THEOREM DataInvariant == Spec => []Inv
<1> QED
  BY InitInv, InvStep, PTL DEF Spec

(* Types, and the indices of quickSort and partition within what they were  *)
(* given: one slot more than there are samples, and never beyond.           *)
THEOREM QuickSortTypes == Spec => []SortTypeOK
<1>1. Inv => SortTypeOK
  BY DEF Inv
<1> QED
  BY <1>1, DataInvariant, PTL

(* quickSort orders what it is given, for every array: at any time all that  *)
(* no pending call sorts together is in order, and at the end everything.    *)
THEOREM QuickSortOrders == Spec => []OrderedAcross
<1>1. Inv => OrderedAcross
  BY DEF Inv
<1> QED
  BY <1>1, DataInvariant, PTL

(* Every list random_data makes is what SORT assumes of its inputs: of the   *)
(* size asked for, and descending, whatever lay in the memory.               *)
THEOREM DataReady == Spec => []ListsReady
<1>1. Inv => ListsReady
  BY DEF Inv
<1> QED
  BY <1>1, DataInvariant, PTL

(* quickSort exchanges elements and does nothing else: no score is lost or   *)
(* made up, in and outside of the interval at hand.                          *)
THEOREM QuickSortOnlySwaps == Spec => OnlySwaps
<1>1. Inv /\ [Next]_vars =>
        [pc = "loop" => \E a, b \in low..high : Exchanged(a, b)]_sortVars
  <2> SUFFICES ASSUME Inv, [Next]_vars, pc = "loop", ~UNCHANGED sortVars
               PROVE  \E a, b \in low..high : Exchanged(a, b)
    OBVIOUS
  <2> USE DEF Inv
  <2>1. CASE Scan
    <3>1. i + 1 \in low..high /\ j \in low..high
      BY <2>1, ScanRange
    <3>2. i + 1 \in Slots /\ j \in Slots
      BY <3>1, LoopRange
    <3>3. CASE real_arr' = Swapped(i + 1, j)
      <4>1. real_arr \in [Slots -> Values]
        BY DEF SortTypeOK
      <4>2. Exchanged(i + 1, j)
        BY <3>2, <3>3, <4>1, SwapValues DEF Exchanged
      <4> QED
        BY <3>1, <4>2
    <3>4. CASE real_arr' = real_arr
      BY <3>1, <3>4 DEF Exchanged
    <3> QED
      BY <2>1, <3>3, <3>4 DEF Scan, Ahead
  <2>2. CASE Place
    <3>1. i + 1 \in low..high /\ high \in low..high /\ real_arr' = Swapped(i + 1, high)
      BY <2>2, PlaceRange, LoopRange
    <3>2. i + 1 \in Slots /\ high \in Slots
      BY <3>1, LoopRange
    <3>3. real_arr \in [Slots -> Values]
      BY DEF SortTypeOK
    <3>4. Exchanged(i + 1, high)
      BY <3>1, <3>2, <3>3, SwapValues DEF Exchanged
    <3> QED
      BY <3>1, <3>4
  <2> QED
    BY <2>1, <2>2, NextCases
    DEF Draw, Drawing, BeginSort, Collect, Skip, BeginPartition, Return, vars
<1> QED
  BY <1>1, DataInvariant, PTL DEF Spec, OnlySwaps

(* The inductive invariant of the scores on their way into the lists.       *)
THEOREM ScoreInvariant == Spec => []ScoreInv
<1>1. Inv /\ ScoreInv /\ [Next]_vars => ScoreInv'
  BY GivenStep, CountedStep, ClearedStep, GreatestStep, ExactStep DEF ScoreInv
<1> QED
  BY <1>1, InitScores, DataInvariant, PTL DEF Spec

(* A list holds the greatest of what was drawn for it and of the value that  *)
(* lay behind it: the slot too many that sort_values sorts costs the least   *)
(* of them and nothing else, for every draw and every memory.                *)
THEOREM DataGreatest == Spec => []GreatestKept
<1>1. ScoreInv => GreatestKept
  BY DEF ScoreInv
<1> QED
  BY <1>1, ScoreInvariant, PTL

(* In zeroed memory, with lists that do not become shorter, random_data's    *)
(* lists are what was drawn for them, score by score.                        *)
THEOREM DataExact == Spec => []FreshIsExact
<1>1. ScoreInv => FreshIsExact
  BY DEF ScoreInv
<1> QED
  BY <1>1, ScoreInvariant, PTL
=============================================================================
