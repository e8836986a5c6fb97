------------------------------- MODULE MCSort -------------------------------
(***************************************************************************)
(* Instances of SortRefinement for TLC.  A label is <<slot, position>>, so  *)
(* every sample is different from every other one; predictions tie freely.  *)
(***************************************************************************)
EXTENDS SortRefinement

CONSTANTS
    MaxLen,     \* longest list of a station
    MaxVal      \* greatest prediction

MCLabel == Station \X (1..MaxLen)

(* The descending lists of at most n predictions a station can hold. *)
MCVals(n) == {v \in UNION {[1..m -> 0..MaxVal] : m \in 0..n} :
                 \A a, b \in DOMAIN v : a <= b => v[a] >= v[b]}

(* Long lists in the first two stations and one sample in each other, and   *)
(* at most one sample, or none, in every station.                           *)
MCStations ==
    [Station -> MCVals(1)] \cup
    {[s \in Station |-> CASE s = 0 -> v [] s = 1 -> w [] OTHER -> <<s % (MaxVal + 1)>>] :
        v, w \in MCVals(MaxLen)}

MCInputs ==
    {[s \in Station |->
        [k \in 1..Len(vals[s]) |-> [val |-> vals[s][k], label |-> <<s, k>>]]] :
     vals \in MCStations}
=============================================================================
