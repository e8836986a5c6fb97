--------------------------- MODULE SortRefinement ---------------------------
(***************************************************************************)
(* SORT implements RunMerge: the pool is what the pair's two lists hold,    *)
(* the runs are the lists in the other slots.  A shuffle, an exchange of    *)
(* the roles and a move of the compaction are stuttering steps.             *)
(***************************************************************************)
EXTENDS Sort

(* Two samples of the input are never the same one: a label stands for the  *)
(* identity of a sample as well, of which the code makes no use.            *)
ASSUME DistinctAssumption ==
    \A given \in Inputs : \A s, t \in Station :
        \A k \in 1..Len(given[s]), l \in 1..Len(given[t]) :
            given[s][k] = given[t][l] => s = t /\ k = l

Taken == IF pc \in Merging THEN {fl_index, ll_index} ELSE {}

absRuns == {c_data[s] : s \in Station \ Taken} \ {<<>>}
absPool == UNION {Elements(c_data[s]) : s \in Taken}

RM == INSTANCE RunMerge WITH runs <- absRuns, pool <- absPool, out <- sorted

(* Every sample SORT takes, by the shuffle, by a reconstructed comparison, *)
(* by position or by draining, is a greatest one of the pair, is taken     *)
(* once, and every merge puts back exactly what it took.                   *)
ImplementsRunMerge == RM!Spec

-----------------------------------------------------------------------------
(* What the refinement rests on: a sample is in one place, of one list or   *)
(* of the merged prefix, which has the number after the last slot's.        *)
Line(lists, out, s) == IF s \in Station THEN lists[s] ELSE out
Places(lists, out) ==
    {q \in (0..NStation) \X Nat : q[2] \in 1..Len(Line(lists, out, q[1]))}
At(lists, out, q) == Line(lists, out, q[1])[q[2]]
ApartIn(lists, out) ==
    \A q, r \in Places(lists, out) : At(lists, out, q) = At(lists, out, r) => q = r
Apart == ApartIn(c_data, sorted)
=============================================================================
