-------------------------------- MODULE Sort --------------------------------
(***************************************************************************)
(* SORT (src/core/auc.h): the stations' descending lists of samples are     *)
(* merged pairwise, round after round, until one list is left.  Both        *)
(* proxies run this control flow in step on public sizes; the module keeps  *)
(* the values their two shares reconstruct to.  MSB and MUX are the         *)
(* sub-protocols of core.h, used by what they return: the sign bit of a     *)
(* ring element, and one of two operands.  A comparison is correct only     *)
(* when the operands are less than half the ring apart, which is why a      *)
(* prediction lies in 0..N1-1 in a ring of 2*N1 elements.                   *)
(* Labels are opaque; the runs use a different one for every sample, so     *)
(* that a lost or duplicated sample is seen.                                *)
(***************************************************************************)
EXTENDS Integers, Sequences

CONSTANTS
    NStation,   \* stations whose lists are merged
    Deltas,     \* values of the delta argument that are tried
    N1,         \* half the size of the ring (2^63 in the code)
    Label,      \* what a sample carries besides its prediction
    Inputs      \* the stations' lists SORT may be called with

VARIABLES
    c_data,     \* c_data[s]: the list in slot s
    nstation,   \* lists left in this round
    i,          \* slot of the pair being merged, then of the compaction
    fl_index,   \* slot of the first (longer) list of the pair
    ll_index,   \* slot of the last (shorter) list
    tmp_delta,  \* the delta argument
    delta,      \* the delta in force for this pair
    alloc,      \* elements allocated for diff, mux_val1 and mux_val2
    sorted,     \* the pair's merged prefix
    min_val,    \* bound of the selection loop
    j,          \* its counter
    fl_pop,     \* samples taken from the first list since the shuffle
    ll_pop,     \* samples taken from the last list since the shuffle
    pc          \* where SORT is

vars == <<c_data, nstation, i, fl_index, ll_index, tmp_delta, delta, alloc,
          sorted, min_val, j, fl_pop, ll_pop, pc>>

Station == 0..(NStation - 1)
Sample  == [val : 0..(N1 - 1), label : Label]
Size(s) == Len(c_data[s])

(* Predictions descend along a list. *)
Desc(list) == \A a, b \in 1..Len(list) : a <= b => list[a].val >= list[b].val

ASSUME NStationAssumption == NStation \in Nat \ {0}
ASSUME N1Assumption == N1 \in Nat \ {0}
ASSUME DeltasAssumption == Deltas \subseteq Int
ASSUME InputsAssumption ==
    \A given \in Inputs :
        /\ given \in [Station -> Seq(Sample)]
        /\ \A s \in Station : Desc(given[s])

-----------------------------------------------------------------------------
(* The sub-protocols SORT calls. *)

(* The sign bit of a ring element: 1 stands for 1 << FRAC. *)
MSB(x) == IF x >= N1 THEN 1 ELSE 0

(* 0 when x's prediction is not below y's. *)
Cmp(x, y) == MSB((x.val - y.val) % (2 * N1))

(* MUX selects prediction and label of a sample by the same bit. *)
MutantMUX(x, y, b) == IF b = 0 THEN y ELSE x
MUX(x, y, b) == IF b = 0 THEN x ELSE y

(* list with its first n samples muxed against other's by the bits of diff. *)
Muxed(list, other, diff, n) ==
    [k \in 1..Len(list) |->
        IF k <= n THEN MUX(list[k], other[k], diff[k]) ELSE list[k]]

(* The second MUX call has its operands in the other order. *)
MutantMuxedLast(fl, ll, diff, n) == Muxed(fl, ll, diff, n)
MuxedLast(fl, ll, diff, n) == Muxed(ll, fl, diff, n)

Lesser(m, n) == IF m <= n THEN m ELSE n

-----------------------------------------------------------------------------
(* The arithmetic of rounds, pairs and slots. *)

(* Slots below this one are merged in pairs. *)
Paired(n) == n - (n % 2)

(* The slot of the next pair. *)
MutantNextPairStays(k) == k
NextPair(k) == k + 2

(* Lists left after a round: an odd one out moves on unmerged. *)
MutantHalvedDown(n) == n \div 2
MutantHalvedEarly(n) == (n - 1) \div 2
Halved(n) == (n \div 2) + (n % 2)

(* Elements of an array that holds predictions and labels of a list. *)
MutantArraySize(n) == n
ArraySize(n) == 2 * n

(* The compaction's step at slot k: a list in an even slot moves to half   *)
(* its number, and the slot is cleared.                                    *)
MutantCompactedOdd(lists, k) ==
    IF k % 2 = 1 THEN [lists EXCEPT ![k \div 2] = lists[k], ![k] = <<>>]
                 ELSE [lists EXCEPT ![k] = <<>>]
Compacted(lists, k) ==
    IF k % 2 = 0 THEN [lists EXCEPT ![k \div 2] = lists[k], ![k] = <<>>]
                 ELSE [lists EXCEPT ![k] = <<>>]

-----------------------------------------------------------------------------
Init ==
    /\ c_data \in Inputs
    /\ nstation = NStation
    /\ tmp_delta \in Deltas
    /\ delta = tmp_delta
    /\ i = 0
    /\ fl_index = 0
    /\ ll_index = 0
    /\ alloc = 0
    /\ sorted = <<>>
    /\ min_val = 0
    /\ j = 0
    /\ fl_pop = 0
    /\ ll_pop = 0
    /\ pc = "round"

pairVars == <<fl_index, ll_index, delta, alloc>>
selectVars == <<min_val, j, fl_pop, ll_pop>>

(* The loop that merges a pair is over. *)
Exhausted == Size(fl_index) = 0 \/ Size(ll_index) = 0

(* The heads stood at the same position when the lists were shuffled. *)
MutantSamePosition == fl_pop >= ll_pop
SamePosition == fl_pop = ll_pop

(* The lists must change roles. *)
MutantLastIsLonger == FALSE
LastIsLonger == Size(ll_index) > Size(fl_index)

(* while (nstation != 1): a round pairs the slots below ns. *)
BeginRound ==
    /\ pc = "round"
    /\ nstation # 1
    /\ i' = 0
    /\ pc' = "pair"
    /\ UNCHANGED <<c_data, nstation, tmp_delta, sorted, pairVars, selectVars>>

Return ==
    /\ pc = "round"
    /\ nstation = 1
    /\ pc' = "done"
    /\ UNCHANGED <<c_data, nstation, i, tmp_delta, sorted, pairVars, selectVars>>

(* The next two lists; the arrays are sized for the shorter of them. *)
BeginPair ==
    /\ pc = "pair"
    /\ i < Paired(nstation)
    /\ delta' = tmp_delta
    /\ IF Size(i) < Size(i + 1)
         THEN fl_index' = i + 1 /\ ll_index' = i
         ELSE fl_index' = i /\ ll_index' = i + 1
    /\ alloc' = ArraySize(Len(c_data[ll_index']))
    /\ pc' = "merge"
    /\ UNCHANGED <<c_data, nstation, i, tmp_delta, sorted, selectVars>>

(* Compare the lists position by position and put the greater sample of    *)
(* every position into the first list, the other one into the last.        *)
Shuffle ==
    /\ pc = "merge"
    /\ ~Exhausted
    /\ LET diff_size == Lesser(Size(fl_index), Size(ll_index))
           fl   == c_data[fl_index]
           ll   == c_data[ll_index]
           diff == [k \in 1..diff_size |-> Cmp(fl[k], ll[k])]
       IN c_data' = [c_data EXCEPT ![fl_index] = Muxed(fl, ll, diff, diff_size),
                                   ![ll_index] = MuxedLast(fl, ll, diff, diff_size)]
    /\ pc' = "max"
    /\ UNCHANGED <<nstation, i, tmp_delta, sorted, pairVars, selectVars>>

(* The head of the first list is the maximum of both. *)
TakeMax ==
    /\ pc = "max"
    /\ sorted' = Append(sorted, Head(c_data[fl_index]))
    /\ c_data' = [c_data EXCEPT ![fl_index] = Tail(@)]
    /\ min_val' = Lesser(delta, Lesser(Size(fl_index) - 1, Size(ll_index)))
    /\ j' = 0
    /\ fl_pop' = 1
    /\ ll_pop' = 0
    /\ pc' = "select"
    /\ UNCHANGED <<nstation, i, tmp_delta, pairVars>>

(* One sample left in the last list: no more selections for this pair. *)
SelectStop ==
    /\ pc = "select"
    /\ j < min_val
    /\ Size(ll_index) = 1
    /\ delta' = 0
    /\ pc' = "exchange"
    /\ UNCHANGED <<c_data, nstation, i, tmp_delta, sorted, fl_index, ll_index,
                   alloc, selectVars>>

SelectFrom(s) ==
    /\ sorted' = Append(sorted, Head(c_data[s]))
    /\ c_data' = [c_data EXCEPT ![s] = Tail(@)]

(* The heads come from different positions: reconstruct their comparison. *)
SelectCompare ==
    /\ pc = "select"
    /\ j < min_val
    /\ Size(ll_index) # 1
    /\ ~SamePosition
    /\ IF Cmp(Head(c_data[fl_index]), Head(c_data[ll_index])) = 0
         THEN /\ SelectFrom(fl_index)
              /\ fl_pop' = fl_pop + 1
              /\ ll_pop' = ll_pop
         ELSE /\ SelectFrom(ll_index)
              /\ ll_pop' = ll_pop + 1
              /\ fl_pop' = fl_pop
    /\ j' = j + 1
    /\ UNCHANGED <<nstation, i, tmp_delta, pairVars, min_val, pc>>

(* The heads come from one position: the shuffle has ordered them. *)
SelectFront ==
    /\ pc = "select"
    /\ j < min_val
    /\ Size(ll_index) # 1
    /\ SamePosition
    /\ SelectFrom(fl_index)
    /\ fl_pop' = fl_pop + 1
    /\ j' = j + 1
    /\ UNCHANGED <<nstation, i, tmp_delta, pairVars, min_val, ll_pop, pc>>

SelectEnd ==
    /\ pc = "select"
    /\ j >= min_val
    /\ pc' = "exchange"
    /\ UNCHANGED <<c_data, nstation, i, tmp_delta, sorted, pairVars, selectVars>>

(* The longer list becomes the first one again. *)
Exchange ==
    /\ pc = "exchange"
    /\ IF LastIsLonger
         THEN fl_index' = ll_index /\ ll_index' = fl_index
         ELSE UNCHANGED <<fl_index, ll_index>>
    /\ pc' = "merge"
    /\ UNCHANGED <<c_data, nstation, i, tmp_delta, sorted, delta, alloc, selectVars>>

(* One list is exhausted: the other one is appended, sample by sample. *)
BeginDrain ==
    /\ pc = "merge"
    /\ Exhausted
    /\ pc' = IF Size(fl_index) > 0 THEN "drain_fl" ELSE "drain_ll"
    /\ UNCHANGED <<c_data, nstation, i, tmp_delta, sorted, pairVars, selectVars>>

Draining == IF pc = "drain_fl" THEN fl_index ELSE ll_index

Drain ==
    /\ pc \in {"drain_fl", "drain_ll"}
    /\ Size(Draining) > 0
    /\ SelectFrom(Draining)
    /\ UNCHANGED <<nstation, i, tmp_delta, pairVars, selectVars, pc>>

(* The merged list replaces the pair's first slot. *)
EndPair ==
    /\ pc \in {"drain_fl", "drain_ll"}
    /\ Size(Draining) = 0
    /\ c_data' = [c_data EXCEPT ![i] = sorted, ![i + 1] = <<>>]
    /\ sorted' = <<>>
    /\ i' = NextPair(i)
    /\ pc' = "pair"
    /\ UNCHANGED <<nstation, tmp_delta, pairVars, selectVars>>

(* All pairs merged: the lists in the even slots move to the front. *)
BeginCompact ==
    /\ pc = "pair"
    /\ i >= Paired(nstation)
    /\ c_data' = [c_data EXCEPT ![1] = <<>>]
    /\ i' = 1
    /\ pc' = "compact"
    /\ UNCHANGED <<nstation, tmp_delta, sorted, pairVars, selectVars>>

CompactOne ==
    /\ pc = "compact"
    /\ i < nstation
    /\ c_data' = Compacted(c_data, i)
    /\ i' = i + 1
    /\ UNCHANGED <<nstation, tmp_delta, sorted, pairVars, selectVars, pc>>

EndRound ==
    /\ pc = "compact"
    /\ i >= nstation
    /\ nstation' = Halved(nstation)
    /\ pc' = "round"
    /\ UNCHANGED <<c_data, i, tmp_delta, sorted, pairVars, selectVars>>

(* SORT has returned. *)
Done == pc = "done" /\ UNCHANGED vars

Next ==
    \/ BeginRound \/ Return \/ BeginPair
    \/ Shuffle \/ TakeMax
    \/ SelectStop \/ SelectCompare \/ SelectFront \/ SelectEnd \/ Exchange
    \/ BeginDrain \/ Drain \/ EndPair
    \/ BeginCompact \/ CompactOne \/ EndRound
    \/ Done

Spec == Init /\ [][Next]_vars

(* SORT runs on: each of its steps is a terminating computation. *)
FairSpec == Spec /\ WF_vars(Next)

-----------------------------------------------------------------------------
(* The steps between BeginPair and EndPair. *)
Selecting == {"max", "select"}
Merging   == Selecting \cup {"merge", "exchange", "drain_fl", "drain_ll"}

TypeOK ==
    /\ c_data \in [Station -> Seq(Sample)]
    /\ nstation \in 1..NStation
    /\ i \in Nat
    /\ fl_index \in Station
    /\ ll_index \in Station
    /\ tmp_delta \in Int
    /\ delta \in Int
    /\ alloc \in Nat
    /\ sorted \in Seq(Sample)
    /\ min_val \in Int
    /\ j \in Nat
    /\ fl_pop \in Nat
    /\ ll_pop \in Nat
    /\ pc \in {"round", "pair", "compact", "done"} \cup Merging

(* The pair being merged occupies slots i and i+1, whichever is first. *)
PairSlots ==
    /\ pc \in Merging \cup {"pair", "compact"} => nstation >= 2
    /\ pc \in Merging \cup {"pair"} => i % 2 = 0
    /\ pc \in Merging =>
        /\ i + 1 < nstation
        /\ \/ fl_index = i /\ ll_index = i + 1
           \/ fl_index = i + 1 /\ ll_index = i
    /\ pc = "compact" => i \in 1..nstation
    /\ pc = "done" => nstation = 1

(* Slots are reused in place: a merged pair leaves its odd slot empty, and *)
(* the compaction moves a list only into a slot it has already emptied.    *)
SlotsCleared ==
    \A s \in Station :
        (\/ s >= nstation
         \/ pc \in Merging \cup {"pair"} /\ s < i /\ s % 2 = 1
         \/ pc = "compact" /\ s < i /\ 2 * s >= i
         \/ pc = "compact" /\ s >= i /\ s % 2 = 1) => c_data[s] = <<>>

(* Every list stays descending: those of the input, those the shuffle      *)
(* rewrote position by position, and the merged prefix.                    *)
ListsDescend == Desc(sorted) /\ \A s \in Station : Desc(c_data[s])

(* No sample still in the pair's lists belongs before one already merged:  *)
(* whether it was taken after a comparison or, because it shares its       *)
(* position with its rival, without one.                                   *)
PrefixAbove ==
    /\ pc \notin Merging => sorted = <<>>
    /\ pc \in Merging =>
        \A m \in 1..Len(sorted), s \in {fl_index, ll_index} :
            \A k \in 1..Size(s) : sorted[m].val >= c_data[s][k].val

(* While samples are selected, what the shuffle established persists: the  *)
(* sample of the first list at an original position is not below that of   *)
(* the last list at the same one.                                          *)
PositionsOrdered ==
    /\ pc = "max" =>
        \A k \in 1..Size(fl_index) :
            k <= Size(ll_index) => c_data[fl_index][k].val >= c_data[ll_index][k].val
    /\ pc = "select" =>
        /\ fl_pop >= ll_pop
        /\ \A k \in 1..Size(fl_index) :
             k + (fl_pop - ll_pop) <= Size(ll_index) =>
                c_data[fl_index][k].val >= c_data[ll_index][k + (fl_pop - ll_pop)].val

(* The selection loop takes heads without asking whether there is one, and *)
(* the shuffle and TakeMax rely on the first list being the longer.        *)
HeadsExist ==
    /\ pc = "merge" => Size(fl_index) >= Size(ll_index)
    /\ pc = "max" => Size(fl_index) >= Size(ll_index) /\ Size(ll_index) > 0
    /\ pc = "select" => min_val - j <= Lesser(Size(fl_index), Size(ll_index))

(* The arrays are allocated once per pair, for the shorter list as it was   *)
(* then; the lists change roles while they shrink, yet 2*diff_size entries *)
(* always fit.                                                              *)
BuffersHold ==
    /\ pc \in Merging => 2 * Size(ll_index) <= alloc
    /\ pc = "select" /\ j < min_val => alloc >= 1

(* When draining begins only one list can hold samples: the code empties   *)
(* one of them and throws the other away.                                  *)
DrainsAll ==
    /\ pc = "drain_fl" => Size(ll_index) = 0
    /\ pc = "drain_ll" => Size(fl_index) = 0

(* The result: one descending list in slot 0 and nothing elsewhere. *)
ResultSorted ==
    pc = "done" => /\ Desc(c_data[0])
                   /\ \A s \in Station \ {0} : c_data[s] = <<>>

-----------------------------------------------------------------------------
Elements(list) == {list[k] : k \in 1..Len(list)}

SamplesIn(lists, out) == (UNION {Elements(lists[s]) : s \in Station}) \cup Elements(out)

Samples == SamplesIn(c_data, sorted)

(* SORT never drops a sample nor lets one in: not when a pair is replaced  *)
(* by its merge, not when slots are overwritten by the compaction.         *)
SamplesKept == [][Samples' = Samples]_vars

(* SORT ends whatever delta and the list sizes are. *)
Termination == <>(pc = "done")
=============================================================================
