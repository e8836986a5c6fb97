------------------------------ MODULE RunMerge ------------------------------
(***************************************************************************)
(* What SORT promises (src/core/auc.h), without how it does it: runs are    *)
(* merged two at a time by always emitting a greatest sample of the pool.   *)
(* Nothing is said of shuffles, positions, delta, slots or rounds.          *)
(***************************************************************************)
EXTENDS Integers, Sequences

CONSTANTS Sample    \* records with a field val

VARIABLES
    runs,   \* nonempty descending lists not being merged
    pool,   \* samples of the two runs being merged, not emitted yet
    out     \* the samples emitted, in order

vars == <<runs, pool, out>>

Elements(list) == {list[k] : k \in 1..Len(list)}
Descending(list) == \A a, b \in 1..Len(list) : a <= b => list[a].val >= list[b].val

Init ==
    /\ runs \subseteq Seq(Sample) \ {<<>>}
    /\ \A r \in runs : Descending(r)
    /\ pool = {}
    /\ out = <<>>

(* Open at most two runs: an empty list opens none. *)
Open ==
    /\ pool = {}
    /\ out = <<>>
    /\ \E one, other \in runs \cup {<<>>} :
        /\ runs' = runs \ {one, other}
        /\ pool' = Elements(one) \cup Elements(other)
    /\ UNCHANGED out

Emit ==
    /\ \E x \in pool :
        /\ \A y \in pool : x.val >= y.val
        /\ out' = Append(out, x)
        /\ pool' = pool \ {x}
    /\ UNCHANGED runs

Close ==
    /\ pool = {}
    /\ out # <<>>
    /\ runs' = runs \cup {out}
    /\ out' = <<>>
    /\ UNCHANGED pool

Next == Open \/ Emit \/ Close

Spec == Init /\ [][Next]_vars
=============================================================================
