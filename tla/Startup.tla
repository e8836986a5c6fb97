------------------------------ MODULE Startup ------------------------------
(***************************************************************************)
(* A proxy's program up to the metric (src/apps/auroc/proxy.cpp, which the   *)
(* other two follow): main reads its last argument, a list of sample sizes,  *)
(* the path of a directory or nothing; constructs the Party, which is module *)
(* Connection; loads the stations' lists (src/utils/auc_utils.h); and lets   *)
(* SORT merge them round by round.  Here a list is the set of the stations   *)
(* that went into it and its length; what SORT does to the samples is in     *)
(* module Sort.  The two proxies are processes of their own: they share the  *)
(* argument, but each reads a directory of its own.                          *)
(***************************************************************************)
EXTENDS Connection, FiniteSets

CONSTANTS
    Arguments,      \* what the proxies may be started with
    DefaultStations,\* stations and
    DefaultSize     \* samples of each when the argument is empty

Proxies == {P1, P2}

(* An entry of a directory, in the order readdir gives: its name, which     *)
(* stands for the station whose shares the file holds, whether it can be    *)
(* opened, and its rows.                                                    *)
Entry(name, opens, rows) == [name |-> name, opens |-> opens, rows |-> rows]

(* Files that become a list; a directory inside can be opened and has no    *)
(* rows.                                                                    *)
Opened(entry) == entry.name \notin {".", ".."} /\ entry.opens

(* The files of a directory, each with the number of files before it. *)
Files(dir) ==
    {<<Cardinality({j \in 1..(k - 1) : Opened(dir[j])}), dir[k]>> :
        k \in {k \in 1..Len(dir) : Opened(dir[k])}}

(* The argument of a list has one field or more, and its sizes are no less  *)
(* than zero: the code takes a negative one for a huge one.  A directory    *)
(* has itself and its parent for entries.  What else the two directories    *)
(* hold, and in which orders, is up to the proxies.                         *)
ASSUME ArgumentsAssumption ==
    \A a \in Arguments :
        \/ a.kind = "none"
        \/ /\ a.kind = "list" /\ a.fields \in Seq(Int) /\ a.fields # <<>>
           /\ \A k \in 2..Len(a.fields) : a.fields[k] >= 0
        \/ /\ a.kind = "path"
           /\ a.dir \in [Proxies -> Seq([name : STRING, opens : BOOLEAN, rows : Nat])]
           /\ \A p \in Proxies :
                 {".", ".."} \subseteq {a.dir[p][k].name : k \in 1..Len(a.dir[p])}
ASSUME DefaultAssumption == DefaultStations \in Nat \ {0} /\ DefaultSize \in Nat \ {0}

VARIABLES
    argument,   \* the last argument of both proxies
    stage,      \* stage[p]: where p's main is
    nstation,   \* nstation[p]: stations p believes to have
    c_data,     \* c_data[p][s]: the list in slot s
    left        \* left[p]: SORT's own count of lists

mainVars == <<argument, stage, nstation, c_data, left>>

NoList == [stations |-> {}, rows |-> 0]

StartupInit ==
    /\ Init
    /\ argument \in Arguments
    /\ stage = [p \in Proxies |-> "parse"]
    /\ nstation = [p \in Proxies |-> 0]
    /\ c_data = [p \in Proxies |-> <<>>]
    /\ left = [p \in Proxies |-> 0]

-----------------------------------------------------------------------------
(* The argument. *)

(* The first field is the number of stations, one size after the other      *)
(* follows until there are as many; further fields are not read.            *)
Sizes(fields) ==
    SubSeq(fields, 2, IF fields[1] < Len(fields) THEN fields[1] + 1 ELSE Len(fields))

(* A size of zero and a missing one end the program.  The number of         *)
(* stations itself is never refused.                                        *)
Accepted(a) ==
    a.kind = "list" =>
        LET sizes == Sizes(a.fields)
        IN  Len(sizes) = a.fields[1] /\ \A s \in 1..Len(sizes) : sizes[s] # 0

(* A path stands for two stations. *)
Stations(a) ==
    CASE a.kind = "none" -> DefaultStations
      [] a.kind = "list" -> a.fields[1]
      [] a.kind = "path" -> 2

Parse(p) ==
    /\ stage[p] = "parse"
    /\ stage' = [stage EXCEPT ![p] =
                    IF Accepted(argument) THEN "construct" ELSE "rejected"]
    /\ nstation' = [nstation EXCEPT ![p] = Stations(argument)]
    /\ UNCHANGED <<argument, c_data, left, vars>>

(* The Party is constructed; the helper's program begins with that. *)
Construct(p) ==
    /\ p \in Proxies => stage[p] = "construct"
    /\ Run(p)
    /\ UNCHANGED mainVars

-----------------------------------------------------------------------------
(* The data. *)

RandomLists(p) ==
    [s \in 0..(nstation[p] - 1) |->
        [stations |-> {s},
         rows     |-> IF argument.kind = "none" THEN DefaultSize
                      ELSE argument.fields[s + 2]]]

(* f_index after an entry. *)
MutantNextIndex(index, entry) == index + 1
NextIndex(index, entry) == IF Opened(entry) THEN index + 1 ELSE index

(* f_index after k entries. *)
IndexAfter(dir) ==
    LET index[k \in 0..Len(dir)] ==
            IF k = 0 THEN 0 ELSE NextIndex(index[k - 1], dir[k])
    IN  index

(* There is a slot for every entry, itself and the parent included; the     *)
(* files fill the first ones.                                               *)
LoadedInto(dir, s) ==
    {k \in 1..Len(dir) : Opened(dir[k]) /\ IndexAfter(dir)[k - 1] = s}
FileLists(dir) ==
    [s \in 0..(Len(dir) - 1) |->
        IF LoadedInto(dir, s) = {} THEN NoList
        ELSE LET entry == dir[CHOOSE k \in LoadedInto(dir, s) : TRUE]
             IN  [stations |-> {<<s, entry>>}, rows |-> entry.rows]]

(* The files are counted into a copy of nstation, which is lost. *)
Load(p) ==
    /\ stage[p] = "construct" /\ pc[p] = "done"
    /\ c_data' = [c_data EXCEPT ![p] =
                     IF argument.kind = "path" THEN FileLists(argument.dir[p])
                                               ELSE RandomLists(p)]
    /\ left' = [left EXCEPT ![p] = nstation[p]]
    /\ stage' = [stage EXCEPT ![p] = "sort"]
    /\ UNCHANGED <<argument, nstation, vars>>

-----------------------------------------------------------------------------
(* SORT: the lists below left[p] are merged in pairs, an odd one moves on.  *)

MutantRemaining(n) == n \div 2
Remaining(n) == (n \div 2) + (n % 2)

Merged(l1, l2) ==
    [stations |-> l1.stations \cup l2.stations, rows |-> l1.rows + l2.rows]

(* Slots a round touches: slot 1 is cleared in any case. *)
Touched(n) == {0, 1} \cup 0..(n - 1)

AfterRound(lists, n) ==
    [s \in DOMAIN lists |->
        IF s >= n THEN lists[s]
        ELSE IF s >= Remaining(n) THEN NoList
        ELSE IF 2 * s + 1 < n THEN Merged(lists[2 * s], lists[2 * s + 1])
        ELSE lists[2 * s]]

(* A slot that was never allocated is undefined behaviour: p is lost. *)
Round(p) ==
    /\ stage[p] = "sort" /\ left[p] # 1
    /\ IF Touched(left[p]) \subseteq DOMAIN c_data[p]
       THEN /\ c_data' = [c_data EXCEPT ![p] = AfterRound(@, left[p])]
            /\ left' = [left EXCEPT ![p] = Remaining(@)]
            /\ UNCHANGED stage
       ELSE /\ stage' = [stage EXCEPT ![p] = "undefined"]
            /\ UNCHANGED <<c_data, left>>
    /\ UNCHANGED <<argument, nstation, vars>>

(* The metric of the list in slot 0 is next. *)
Finish(p) ==
    /\ stage[p] = "sort" /\ left[p] = 1
    /\ stage' = [stage EXCEPT ![p] = "metric"]
    /\ UNCHANGED <<argument, nstation, c_data, left, vars>>

-----------------------------------------------------------------------------
Program(p) ==
    \/ Construct(p)
    \/ p \in Proxies /\ (Parse(p) \/ Load(p) \/ Round(p) \/ Finish(p))

(* Both proxies have gone as far as they can; after a rejected argument the *)
(* helper waits for them for ever.                                          *)
StartupDone ==
    /\ \A p \in Proxies : stage[p] \in {"metric", "rejected", "undefined"}
    /\ UNCHANGED <<mainVars, vars>>

StartupNext == (\E p \in Roles : Program(p)) \/ StartupDone

StartupSpec ==
    /\ StartupInit
    /\ [][StartupNext]_<<mainVars, vars>>
    /\ \A p \in Roles : WF_<<mainVars, vars>>(Program(p))

-----------------------------------------------------------------------------
(* Properties. *)

(* Both proxies have their data and are at the same round. *)
SameRound == (\A p \in Proxies : stage[p] \in {"sort", "metric"}) /\ left[P1] = left[P2]

(* Slot by slot they hold shares of the same stations' samples: otherwise   *)
(* they merge lists that do not belong together, and call for vectors of    *)
(* different lengths.                                                       *)
Aligned == \A s \in 0..(left[P1] - 1) : c_data[P1][s] = c_data[P2][s]

(* What goes into SORT of a directory: its first two files, in their order. *)
FirstFiles(dir) == {f \in Files(dir) : f[1] < 2}
OneOrder(a) == a.kind = "path" => FirstFiles(a.dir[P1]) = FirstFiles(a.dir[P2])

(* The lists of random data always belong together.  Files do exactly if    *)
(* the first two that each proxy could open are the same in the same order, *)
(* wherever other entries stand among them: readdir gives no order, nothing *)
(* in file_data makes one, and files that come in other orders on the two   *)
(* machines are not brought together by any round of SORT.                  *)
StationsAligned == SameRound => (Aligned <=> OneOrder(argument))

(* The metric is computed over the samples of every station the argument    *)
(* names; of a directory, over those of the first two files, however many   *)
(* it has.                                                                  *)
Names(p) ==
    IF argument.kind = "path" THEN FirstFiles(argument.dir[p])
                              ELSE 0..(Stations(argument) - 1)
MergesStations ==
    \A p \in Proxies : stage[p] = "metric" => c_data[p][0].stations = Names(p)

(* With an accepted argument of at least one station all three parties get  *)
(* connected and both proxies come to the metric, whoever is started first. *)
(* "0" is accepted too, and then SORT has no list to stop at; and what the  *)
(* commands of SORT do with lists that do not belong together is not in     *)
(* this module.                                                             *)
ProxiesFinish ==
    (Accepted(argument) /\ Stations(argument) >= 1 /\ OneOrder(argument))
        ~> (Connected /\ \A p \in Proxies : stage[p] = "metric")
=============================================================================
