----------------------------- MODULE QuickSort -----------------------------
(***************************************************************************)
(* sort_values, quickSort and partition (src/utils/llib.h): a descending    *)
(* sort in place.  The calls that are pending are a stack of intervals;     *)
(* every iteration of partition's loop is a step.  sort_values takes a      *)
(* number of samples and passes it on as the last index, so that one        *)
(* element more than the samples is sorted: indices 0..n of the array.      *)
(***************************************************************************)
EXTENDS Integers, Sequences

CONSTANTS
    MAXSAMPLESIZE,  \* length of the array
    Values          \* what an element may be: the array is of uint64_t

ASSUME MAXSAMPLESIZEAssumption == MAXSAMPLESIZE \in Nat \ {0}
ASSUME ValuesAssumption == Values \subseteq Nat

VARIABLES
    n,          \* the argument of sort_values
    real_arr,   \* the array
    stack,      \* intervals <<low, high>> still to be sorted, the next one first
    i, j,       \* partition's indices
    pc          \* idle when nothing is being sorted

sortVars == <<n, real_arr, stack, i, j, pc>>

Slots == 0..(MAXSAMPLESIZE - 1)
low == Head(stack)[1]
high == Head(stack)[2]
pivot == real_arr[high]

MutantSwapped(a, b) == [real_arr EXCEPT ![a] = real_arr[b]]
Swapped(a, b) == [real_arr EXCEPT ![a] = real_arr[b], ![b] = real_arr[a]]

(* What sort_values asks for: one index more than there are samples. *)
MutantWhole(size) == <<<<1, size>>>>
Whole(size) == <<<<0, size>>>>

-----------------------------------------------------------------------------

(* A call of quickSort on one element or none returns at once. *)
Skip ==
    /\ pc = "call" /\ stack # <<>>
    /\ low >= high
    /\ stack' = Tail(stack)
    /\ UNCHANGED <<n, real_arr, i, j, pc>>

BeginPartition ==
    /\ pc = "call" /\ stack # <<>>
    /\ low < high
    /\ i' = low - 1
    /\ j' = low
    /\ pc' = "loop"
    /\ UNCHANGED <<n, real_arr, stack>>

MutantBefore(a, b) == a < b
Before(a, b) == a > b

(* The slot a value above the pivot is exchanged into. *)
Ahead(k) == k + 1

Scan ==
    /\ pc = "loop"
    /\ j <= high - 1
    /\ IF Before(real_arr[j], pivot)
       THEN i' = Ahead(i) /\ real_arr' = Swapped(Ahead(i), j)
       ELSE UNCHANGED <<i, real_arr>>
    /\ j' = j + 1
    /\ UNCHANGED <<n, stack, pc>>

(* The calls on either side of the pivot at pi. *)
MutantHalvesWide(pi) == <<<<low, pi - 1>>, <<pi + 1, high + 1>>>>
MutantHalvesNarrow(pi) == <<<<low, pi - 2>>, <<pi + 1, high>>>>
Halves(pi) == <<<<low, pi - 1>>, <<pi + 1, high>>>>

(* The pivot goes between the two parts, and each is sorted on its own. *)
Place ==
    /\ pc = "loop"
    /\ j > high - 1
    /\ real_arr' = Swapped(i + 1, high)
    /\ stack' = Halves(i + 1) \o Tail(stack)
    /\ pc' = "call"
    /\ UNCHANGED <<n, i, j>>

Return ==
    /\ pc = "call" /\ stack = <<>>
    /\ pc' = "done"
    /\ UNCHANGED <<n, real_arr, stack, i, j>>

SortNext == Skip \/ BeginPartition \/ Scan \/ Place \/ Return

-----------------------------------------------------------------------------
(* Properties. *)

(* The pending intervals and the indices of partition stay within what       *)
(* sort_values was given; i runs behind j.                                   *)
SortTypeOK ==
    /\ n \in Slots
    /\ real_arr \in [Slots -> Values]
    /\ stack \in Seq(Int \X Int)
    /\ \A m \in 1..Len(stack) : stack[m][1] >= 0 /\ stack[m][2] <= n
    /\ pc \in {"idle", "call", "loop", "done"}
    /\ i \in Int /\ j \in Int
    /\ pc = "loop" => /\ stack # <<>>
                      /\ low - 1 <= i /\ i < j /\ low <= j /\ j <= high

(* Two elements that no pending call sorts together are in order already:   *)
(* what has been sorted needs no second look, whichever calls are open; and *)
(* when none is, the whole of what sort_values was given descends.          *)
Together(k, l) == \E m \in 1..Len(stack) : stack[m][1] <= k /\ l <= stack[m][2]
OrderedAcross ==
    pc # "idle" =>
        \A k, l \in 0..n : k < l /\ ~Together(k, l) => real_arr[k] >= real_arr[l]

(* The sort never does more to the array than to exchange two elements, both *)
(* inside the interval that is being partitioned.                            *)
Exchanged(a, b) ==
    /\ real_arr'[a] = real_arr[b] /\ real_arr'[b] = real_arr[a]
    /\ \A k \in Slots \ {a, b} : real_arr'[k] = real_arr[k]
OnlySwaps ==
    [][pc = "loop" => \E a, b \in low..high : Exchanged(a, b)]_sortVars
=============================================================================
