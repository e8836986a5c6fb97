----------------------------- MODULE RandomData -----------------------------
(***************************************************************************)
(* random_data (src/utils/auc_utils.h): for each station a list of random   *)
(* scores, sorted by sort_values and put into c_data as shares.  The array  *)
(* tmp is declared in the loop and never initialised: it is the same piece  *)
(* of the stack for every station, with whatever was in it.                 *)
(* Both proxies do this with the same draws of the common stream, but       *)
(* createShare uses the value on P2 only: the share of P1 is a random       *)
(* number.  So the module follows P2, whose array says what the shares add  *)
(* up to.  Labels are drawn on their own and left out.                      *)
(***************************************************************************)
EXTENDS QuickSort, FiniteSets

CONSTANTS
    SampleSizes,    \* the sizes of the stations' lists that are tried
    Memory          \* what may lie in the array's place before the call

ASSUME SampleSizesAssumption ==
    SampleSizes \subseteq Seq(1..(MAXSAMPLESIZE - 1))
ASSUME MemoryAssumption == Memory \subseteq [Slots -> Values]

VARIABLES
    sample_size,    \* samples of each station
    flag,           \* every second score is a copy of the one before
    filled,         \* scores of this station drawn so far
    c_data,         \* the lists that are finished
    given,          \* given[s]: the scores drawn for s, and what lay behind them
    fresh           \* the memory was zero at the start

vars == <<sortVars, sample_size, flag, filled, c_data, given, fresh>>
dataVars == <<sample_size, flag, filled, c_data, given, fresh>>

tmp == real_arr
station == Len(c_data) + 1
Size == sample_size[station]
Zero == [k \in Slots |-> 0]

Init ==
    /\ real_arr \in Memory
    /\ fresh = (real_arr = Zero)
    /\ n = 0 /\ stack = <<>> /\ i = 0 /\ j = 0 /\ pc = "idle"
    /\ sample_size \in SampleSizes
    /\ flag \in BOOLEAN
    /\ filled = 0
    /\ c_data = <<>>
    /\ given = <<>>

Drawing == pc = "idle" /\ station <= Len(sample_size)

Draw ==
    /\ Drawing
    /\ filled < Size
    /\ \E score \in IF filled % 2 = 1 /\ flag THEN {tmp[filled - 1]} ELSE Values :
          real_arr' = [tmp EXCEPT ![filled] = score]
    /\ filled' = filled + 1
    /\ UNCHANGED <<n, stack, i, j, pc, sample_size, flag, c_data, given, fresh>>

BeginSort ==
    /\ Drawing
    /\ filled = Size
    /\ n' = Size
    /\ stack' = Whole(Size)
    /\ pc' = "call"
    /\ given' = Append(given, [scores |-> [k \in 1..Size |-> tmp[k - 1]],
                               behind |-> tmp[Size]])
    /\ UNCHANGED <<real_arr, i, j, sample_size, flag, filled, c_data, fresh>>

Sort == SortNext /\ UNCHANGED dataVars

MutantCollected == [k \in 1..Size |-> tmp[k]]
Collected == [k \in 1..Size |-> tmp[k - 1]]

(* The loop that shares the samples out. *)
Collect ==
    /\ pc = "done"
    /\ c_data' = Append(c_data, Collected)
    /\ filled' = 0
    /\ pc' = "idle"
    /\ UNCHANGED <<n, real_arr, stack, i, j, sample_size, flag, given, fresh>>

Done == pc = "idle" /\ station > Len(sample_size) /\ UNCHANGED vars

Next == Draw \/ BeginSort \/ Sort \/ Collect \/ Done
Spec == Init /\ [][Next]_vars

-----------------------------------------------------------------------------
(* Properties. *)

Times(seq, v) == Cardinality({k \in DOMAIN seq : seq[k] = v})
AtLeast(seq, v) == Cardinality({k \in DOMAIN seq : seq[k] >= v})

(* A finished list has the size it was asked for and descends: SORT assumes  *)
(* both of its inputs.                                                       *)
ListsReady ==
    \A s \in DOMAIN c_data :
        /\ Len(c_data[s]) = sample_size[s]
        /\ \A k, l \in DOMAIN c_data[s] : k < l => c_data[s][k] >= c_data[s][l]

(* A list holds the greatest values among the scores drawn for it and the    *)
(* value that lay behind them in the array; only the least of them all is    *)
(* left out.                                                                 *)
GreatestKept ==
    \A s \in DOMAIN c_data : \A v \in Values :
        LET all == AtLeast(Append(given[s].scores, given[s].behind), v)
        IN  AtLeast(c_data[s], v) = IF all > sample_size[s] THEN sample_size[s]
                                                            ELSE all

(* In memory that was zero, with lists that do not become shorter from one   *)
(* station to the next, every list is exactly what was drawn for it.         *)
FreshIsExact ==
    (fresh /\ \A s \in 2..Len(sample_size) : sample_size[s - 1] <= sample_size[s]) =>
        \A s \in DOMAIN c_data : \A v \in Values :
            Times(c_data[s], v) = Times(given[s].scores, v)

(* A station's scores are those generated for it: false when a list is       *)
(* shorter than the one before, whose samples still lie behind it.           *)
ScoresGenerated ==
    \A s \in DOMAIN c_data : \A k \in DOMAIN c_data[s] :
        Times(given[s].scores, c_data[s][k]) > 0
=============================================================================
