# ppAURORA in TLA+

ppAURORA computes the area under a ROC or precision-recall curve over data that
several stations hold as secret shares.  Three processes take part: two proxies
`P1` and `P2`, each with one share of every value, and a `HELPER` that deals out
correlated randomness and does the steps that neither proxy may do alone.  This
directory models the program in `src/`, checks the models with TLC on small
instances and proves theorems with TLAPS: about both sorts (the oblivious merge
and the local quickSort) and the refinement of the first for every size, about
the messages of the parties and the refinement of their lock step for every
sequence of calls, every size and every socket, about the set-up of the parties and
the loading of the data for every argument, about MSB, MUX, MUL and NORM on shares
for every ring, and about the metrics for every list.

    tlc -workers 2 -config MCSort.cfg MCSort    # one run
    tlapm SortProofs.tla                        # the proofs of one module

`PROJECT.json` lists the runs, a mutant for every property, the lines of source
each definition stands for, the findings, the hazards and the theorems.

## 1. The system

| component | source | state | operations |
|---|---|---|---|
| SORT | `core/auc.h:454-687` | the stations' lists, the pair being merged, counters | rounds, pairs, shuffle, selection, exchange of roles, drain, compaction |
| metrics | `core/auc.h:11-452` | running counts, last threshold, areas, group flags | `MRound`, `ROCNOTIE`, `ROCWITHTIE`, `PRCURVE` |
| vector MSB, CMP | `core/core.h:760-972` | mask, its bit shares, the opened sum, candidates | deal, open, compare, answer, select |
| MOC, scalar MSB, PCB | `core/core.h:398-758` | as above, and shares of the comparison and of the carry | deal, open, compare, convert, divide, select |
| NORM | `core/core.h:1184-1247` | quotient and what was taken off the numerator | one round per fractional bit |
| MUX | `core/core.h:239-396` | masked products | scalar and vector |
| MUL, PMUL, triples | `core/core.h:215-237, 981-1182` | triples, opened e and f | scalar, batch, vector |
| REC, ADD | `core/core.h:33-208` | none | exchange of shares |
| command loop | `apps/helper.cpp` | the current command | `ReadByte`, `ReadInt`, dispatch, end |
| applications | `apps/*/proxy.cpp` | arguments, lists | load, SORT, metric, REC, `CORE_END` |
| Party | `core/Party.h` | two buffers, seeds, sockets | `SendBytes`, `ReadByte`, `ReadInt`, common stream, `createShare` |
| connection | `utils/connection.h:462-714` | sockets, byte counters | set-up, `Snd`/`Rcv`, `Send`/`Receive` |
| data | `utils/auc_utils.h`, `utils/llib.h` | lists, sizes | `random_data`, `file_data`, `quickSort` |
| fixed point | `utils/flib.h` | none | conversions, encodings |

How they interact.  An application makes a sequence of *calls*.  For most of
them it first sends the operation (and a size) to the helper, from `P1` only;
both proxies and the helper then run the same C++ function, each its own branch
of it, and the three branches talk over one TCP socket per pair of parties.
Nothing in the messages says what they are: each side takes the next bytes of a
socket for what its place in the program expects.  Calls nest (`ROCWITHTIE` calls
`MUL`, which calls `PMUL`, which calls `REC`); a nested call sends no command,
because the helper's branch makes the same nested call.  Within a call, messages
to or from two peers are transferred by threads and joined.  The proxies draw
masks from a common pseudo-random stream and must draw in the same order.

What is hard here:

- *Framing and memory.*  Three programs must agree on every byte of three
  streams, and concurrent threads work on two shared buffers per party.
- *Deadlock.*  Proxies send to each other at the same time over finite sockets.
- *Lock step.*  The helper may run ahead; acknowledgements and the next command
  come over the same socket.
- *Sorting obliviously.*  Samples change lists by position, heads are taken
  without a comparison, the two lists change roles, slots are reused in place.
- *Ring arithmetic.*  Carries of three sums modulo 2^63, bits modulo 67, factors
  that must not be zero, sign bits for comparison.
- *Off by one.*  Counts from a 0-based index, ties, first and last samples.
- *Truncation.*  Each proxy rounds its own share, in NORM once more every round.
- *Files.*  Each proxy reads a directory of its own, in the order the machine gives
  it, and nothing makes the two orders one.
- *Failures.*  Short and failing transfers, peers that close or reset, three
  processes started in any order.
- *Memory.*  One element more than there are samples is sorted, and it is
  whatever lay there.

What makes each component correct:

- SORT: it ends; the result has every sample once, descending; arrays and lists
  are never indexed outside; it implements "emit a greatest sample of the pair".
- messages: whatever is read is the field that place decodes; masks come from
  the same draw; nothing is left in a socket; all end.
- command loop: the helper serves the command the proxies are in, with its size,
  and nobody leaves a command that another party has not reached.
- MSB: the shares add up to the sign bit for every mask and carry, in both
  versions; MOC's to the low bits.
- metrics: the sums are the areas, with ties; NORM divides and rounds down.
- MUX and MUL: the masks cancel; the result is the operand, or the product
  rounded, whatever the shares are, and how wrong it is when they cross the ring;
  NORM on shares gives the quotient in spite of the roundings inside.
- set-up: both ends of a socket mean the same peer and number; nothing of the
  hand-shakes is left in a stream; all get through.
- transfers: no message is taken for whole before it is; the counters; an end.
- data: each list is descending, of its size, and holds what was generated; the
  two proxies have the same station in the same slot, and every station the user
  named is merged.

## 2. The modules

| module | models | used by |
|---|---|---|
| `Sort` | SORT over reconstructed values, every step of its loops | `SortRefinement`, `MCSort`, `SortProofs` |
| `RunMerge` | what SORT promises: runs merged two at a time by emitting a greatest sample | `SortRefinement` |
| `SortRefinement` | the refinement mapping from `Sort` to `RunMerge` | `MCSort`, `SortProofs` |
| `SortProofs` | theorems about `Sort`, and that it implements `RunMerge` | |
| `Blocks` | per role and call, the transfers every building block makes | `Session` |
| `Session` | three parties, sockets, threads, buffers, the command loop | `SessionRefinement`, `SessionProofs` |
| `SessionProofs` | theorems about `Blocks` and `Session`, and that it implements `Lockstep` | |
| `Lockstep` | what a session promises: three parties in one sequence of commands | `SessionRefinement` |
| `SessionRefinement` | the refinement mapping from `Session` to `Lockstep` | `MCSession`, `SessionProofs` |
| `Binary` | powers of two | `Msb`, `Products`, `Curve`, `Lemmas` |
| `Lemmas` | lemmas on numbers: induction, functions defined by recursion, powers of two, remainders, congruence; and on sequences of sequences | the proofs about rings, metrics, messages and set-up |
| `Msb` | the arithmetic of both versions of MSB (with MSB_SUB, PCB, MOC, CMP) for one element | `MCMsb`, `MsbProofs` |
| `MsbProofs` | theorems about `Msb` | |
| `Curve` | the three metrics over a sorted list, and NORM over the integers | `CurveProofs` |
| `CurveProofs` | theorems about `Curve` | |
| `Products` | MUX, MUL and NORM on the shares of one element, with what truncating a share does | `MCProducts`, `ProductsProofs` |
| `ProductsProofs` | theorems about `Products` | |
| `Connection` | the constructors of the three parties: sockets, hand-shakes, seed | `Startup` |
| `Startup` | a proxy's `main` up to the metric: argument, Party, files or random lists, the rounds of SORT | `MCStartup`, `StartupProofs` |
| `StartupProofs` | theorems about `Connection` and `Startup` | |
| `Transport` | `Snd`, `Rcv` and the counters of one party against a kernel and peers that fail | `MCTransport` |
| `QuickSort` | `quickSort` and `partition`, every iteration and every pending call | `RandomData` |
| `RandomData` | `random_data` over P2's array, with what lay in its memory | `MCRandomData`, `RandomDataProofs` |
| `RandomDataProofs` | theorems about `RandomData` and `QuickSort` | |
| `MCSort`, `MCSession`, `MCMsb`, `MCProducts`, `MCStartup`, `MCTransport`, `MCRandomData` | instances for TLC | |

**Sort.**  `c_data`, `nstation`, `i`, `fl_index`, `ll_index`, `delta`, `sorted`,
`min_val`, `j`, `fl_pop`, `ll_pop` are the variables of the C++ function;
`tmp_delta` is the argument, `alloc` the length of the arrays of lines 471-474
and `pc` the loop the program is in.  Each action is one iteration of a loop or
what lies between two loops.  Both proxies run the same control flow, since it
depends on sizes and opened comparisons only; so the module keeps the value two
shares add up to.  `MSB` returns the sign bit of a ring element and `MUX` one of
its operands: that they do is what `Msb` and `Products` are about.  Samples
carry a label that is different for every sample in the runs, so that losing or
doubling one shows.  Predictions lie in `0..N1-1` of a ring of `2*N1`: a sign bit
compares only values less than half the ring apart.  That is an assumption on the
data: `random_data` draws predictions below 2^20, and the prediction in a file is
whatever its shares add up to.

**Blocks and Session.**  A call of a role is a sequence of blocks, a block a set
of transfers that run in threads of their own and are joined, a transfer a
sequence of fields between a buffer and a socket.  `Blocks` writes this down for
each role of each building block, in the order of the code, as pure operators;
`Session` runs three such scripts.  A transfer moves unit by unit
(`SendUnit`, `ReceiveUnit`: an iteration of `Snd` or `Rcv`), so the threads of
all parties interleave at every field.  The buffers are memory: `Send` reads what
the buffer holds *at that moment*, and `Receive` writes where a later block may
read, so a buffer used twice at once is visible.  Each unit carries which field
it is, who computed it and how many common values had been drawn: ghosts that no
action reads, only the properties (except the operation and the size, which are
data to the helper).  The helper takes one unit for the operation and, for
the operations that have one, one for the size, from `P1`'s socket.  The constant
`Settings` pairs what a socket holds with the calls the proxies make.  `CodeTable`
has the scripts of the three roles for every call of the settings, so that TLC
computes each once; `CodeOf` looks one up.

**Lockstep and SessionRefinement.**  `Lockstep` has no messages: a script of
commands, how many each party has begun and ended, and the command the helper is
serving.  The helper begins what `P1` has begun (`Named`); a party leaves a
command only when the others are in it or past it (`Complete`), but for
CORE_END, which has no messages, and for the helper's scalar product
(`core.h:981-1052`), which ends without an acknowledgement (`Waits`).  The mapping
counts the calls of a party that are commands (a REC of a proxy's own is none)
and takes the helper's call for `served`, so the refinement says that operation
and size reach the helper as they were sent, through untagged bytes.

**Msb.**  One element.  Both versions share `Deal` (the helper's mask `y`, its
shares, its bit shares modulo `LP`) and `Open` (REC of `x + y` modulo `N1`).  The
vector version goes on with `Compare` (MSB_SUB: comparison and candidates) and
`Answer` (the helper's search for a zero and the correction of both candidates);
the scalar one with `PCB` and `Found` (shares of the comparison), `Convert` (the
end of MOC), `Offer` and `Divide` (the helper halves what is left); `Select` is
again common.  `CMP` is one minus the result.  Elements of a vector do not
influence each other but for the seed of the blinding factors, which the module
takes as a constant set.  PCB's common swaps of bits are left out: the helper
looks for a zero anywhere.  `Blocks` counts them as draws.

**Curve.**  One action per iteration of a metric's loop, in whole units of
fixed-point one.  `FindGroups` is the blinding of neighbouring differences and
`MRound`; `Precisions` is PRCURVE's vector NORM; `Close` is the last division.
`SampleNoTie` stands for the sum of products that the code computes by one vector
MUL and a local sum.  The reference definitions (`OrderedPairs`,
`TwiceMannWhitney`, `TwiceAreaPR`) are over sets of samples and share nothing
with the loops but `PositivesIn`; the last is a sum over the thresholds (`AreaTo`).

**Products.**  One element, with every share: `Mask`, `Serve`, `Select` are MUX
(the proxies' own products under four common masks, the helper's product, the
logical shift of each share), `Deal`, `Open`, `Multiply` are MUL (triple, the
opened `e` and `f`, the product and `truncate`, an arithmetic shift).  P2 divides
its negated share in both.  `Round` is an iteration of NORM: the shifted remainder
(`Remainder`), its sign by what MSB returns, the two products by fresh sharings
that each proxy then truncates, and the denominator truncated share by share.
`Total(f)` is what two shares add up to, and `apart` remembers that two shares NORM
truncated had crossed the end of the ring.

**Connection.**  `Constructor(p)` is the list of sockets a party opens or
connects to, in order, with ports; `Listen`, `Accept`, `Connect` are
`openscoket` and `connect2socket`, `Say` and `Ask` the byte each end sends, and
`SendSeed`/`ReceiveSeed` are `SetCommonSeed`.  A listener takes one connection
and is closed; a connection that still waits at it is reset.  `connect` is
repeated once a second, so that it simply waits until somebody listens.

**Startup** composes `Connection` with what `main` of a proxy does around it:
`Parse` reads the last argument (sample sizes, a directory, or nothing) and may
reject it, `Construct` is a step of the Party's constructor, `Load` is
`random_data` or `file_data`, `Round` one round of SORT and `Finish` its return.
A list is the set of stations that went into it, and a number of rows; what SORT
does to the samples is in `Sort`.  The proxies are processes on machines of their
own, so each has its own directory, with any entries in any order: a list of files
is the file *with its slot*, so that lists made of files that do not belong together
are different after every round.  The
number of files `file_data` counts is a parameter by value and stays 2.  For no
station at all the code clears slots that do not exist: the stage `"undefined"`.

**Transport.**  One party, running a script of blocks; the kernel and the peers
are external actions.  `Read` and `Write` are one iteration of `Rcv` and `Snd` and
move any number of bytes the kernel has; `ReadError` is the -1 that takes the loop
a byte back, `WriteError` the same of `Snd`; at the end of a stream `Rcv` spins
(`Spinning`, no step).  A first write to a peer that has closed succeeds, since the
kernel does not know yet; a later one, or one after the error of a reset was
reported, is a SIGPIPE nobody handles (`BrokenPipe`).  `Load` and
`Store` are the two halves of `bytesReceived += sz`.  `Session` abstracts this
module to reliable sockets; it cares for the contents, this one for amounts.

**QuickSort and RandomData.**  The recursion is a stack of intervals, the
next call first; `Scan` is an iteration of `partition`'s loop and `Place` puts the
pivot between the halves.  `sort_values(tmp, n)` passes `n` on as the last *index*
(`Whole`), so `n + 1` elements are sorted.  `random_data` declares `tmp` inside
its loop and never initialises it: `Memory` is what may lie there before, and the
array keeps its values from one station to the next (one of the outcomes an
uninitialised local array has, and the one a compiler produces that gives it one
place in the frame).  The module follows P2, since `createShare` uses the value
on P2 only; P1's share is a random number.  `given` and `fresh` are ghosts.

## 3. The runs

| run | question | instance | states |
|---|---|---|---|
| `sort` | is every merge right, are slots reused without loss, does it end | 5 stations, two of them with all descending lists of at most 4 samples over 3 values, or all with at most one; deltas 0, 1, 2, 5 | 746 187 |
| `session` | do frames, memory, masks and progress hold; does it implement the lock step | the three applications after SORTs of 1, 2 and 5 samples over sockets of 1 unit; every command alone, and every scalar one right after a scalar MUL, over sockets of 1 and of 12 units, metrics over 12 of one sample only; FRAC 2, MAXMUL 2 | 176 121 |
| `msb` | are MSB, CMP and MOC right for every mask, carry and bit share | ring of 16, modulus 7, seeds 3 and 252, two rows of factors for PCB | 1 142 864 |
| `curve` | do the metrics add up the areas | all lists of 4 samples over 3 values, all labels, factors 0, 1, 5, FRAC 4 | 408 240 |
| `products` | what do MUX, MUL and NORM return | ring of 128, FRAC 2, operands of both signs, quotients of whole denominators up to 3, every random share of the helper | 1 848 480 |
| `startup` | who is joined to whom, which stations are merged, do all get through | 3 parties in any order, 3 sockets per pair, 22 arguments | 5 378 |
| `transport` | do short and failing transfers spoil a message or a counter | a proxy and the helper through a command, an MSB and a product; sockets of 2 bytes | 87 300 |
| `random_data` | what ends up in the lists | up to 3 stations of up to 3 scores over 3 values, zeroed and used memory | 51 068 |
| `curve_auroc`, `curve_norm`, `curve_last`, `random_data_stale` | four statements of the documentation | as `curve` with lists of 3 samples over 2 values; as `random_data` with zeroed memory | violated |

Why the bounds are enough for what they ask.

- *sort.*  Lists of four are the shortest for which a shuffle is followed by
  selections from both lists, an exchange of roles in the middle, and a second
  shuffle over arrays allocated for the first; three values give ties inside and
  across lists.  `delta` 5 is more than any list of a station, 0 is no selection.
  Five stations need three rounds, of which two have a list left over, one at slot
  4 and one at slot 2.  The theorems of section 6 hold for every size.
- *session.*  One unit per socket is the hardest case for deadlock, and with it
  nobody can run ahead by more than a field; sockets that take a whole message let
  a party run ahead as far as it ever can within a command.  FRAC 2 gives NORM
  more than one round; MAXMUL 2 gives MUL one and several batches, and every size
  up to three batches is tried, each followed by a REC, which sends no command.
  The scalar MUL is the one command that the helper may leave before the proxies
  have begun it, so every scalar command is also tried right behind it.  The
  theorems of section 6 hold for every socket, size and sequence of calls.
- *msb.*  The ring is small, but every `x` of P2, every mask, every share of it
  and every bit share (in the scalar version two values for each of P1's) are
  tried with one share of P1; a carry out of each of the three sums, with and
  without the others, occurs.  Seed 252 wraps in eight bits from the second bit
  on.  The theorems of section 6 hold for
  every ring.
- *curve.*  Four samples over three values contain ties at the start, middle and
  end, groups of mixed labels and lists of one label only.  The theorems hold for
  every list.
- *products.*  Two shares of P1 and two masks per value, but every share that
  the helper draws, which is what decides whether shares cross the ring; the
  operands include a negative one and zero.  NORM's two products are shared by two
  masks of its own in each round; denominators zero to three give quotients that
  end, that do not, of zero, of one, and of zero over zero.  What a truncation adds to the
  sum is at most one unit, which the shift of the last round multiplies by four.
  The theorems hold for every ring and point.
- *startup.*  `SCKNUM` is 1 (`constant.h:27`); the run takes 3, so that first,
  middle and last differ and the order of the loops shows.  One to five stations
  give up to three rounds, with and without a list left over; the arguments also
  hold one that is too short, one too long, sizes of zero, no and fewer than no
  stations.  Directories hold up to three files, one that cannot be opened, a
  directory, and the two entries `.` and `..` in any place; the two proxies' have the
  same first two files in one order, or in two, or files that differ in name, in rows
  or in number.
- *transport.*  Messages are longer than a socket holds, so that every transfer
  can be short; each peer may close or reset at any moment.
- *random_data.*  Sizes that grow, shrink and stay; `flag` copies every second
  score.  Four slots leave one behind the longest list.  What is checked is also
  proved for every array.

Each property of a passing run has a mutant (`Mutant...` next to the definition
it replaces): a plausible slip in the code that this property detects.

### Properties

`TypeOK` of `Sort` and `Session` apart:

- *SORT.*  `PositionsOrdered` is the heart of the algorithm: while samples are
  selected, the sample of the first list at an original position is not below that
  of the last list at the same one, so equal positions need no comparison.
  `PrefixAbove`, `HeadsExist` (no head is taken from an empty list),
  `BuffersHold` (the arrays allocated once per pair are long enough after the
  lists changed roles), `ResultSorted`; the action property `SamplesKept` (no step
  loses or adds a sample); `Termination`; and `ImplementsRunMerge`, the refinement.
- *Messages.*  `FramesAgree`: the next unit of every socket somebody is reading
  is the field that place decodes.  `MasksAgree`: two messages that are combined
  were computed at the same place of the common stream (two side by side in a party's
  buffers, so not the scalar MUX, whose messages the helper receives in turn).
  `Drained`: nothing is left in a socket at the end.  `ImplementsLockstep`, the refinement: the helper
  serves the very command the proxies are in, with its size, and nobody leaves a
  command the others have not reached.  `Termination`.
- *MSB.*  `SignIsShared` (both versions, and CMP), `ComparesMask` (the helper
  learns exactly whether the mask is above the opened sum), `OneZero` (stopping at
  the first zero loses nothing), `MocConverts` (shares of the low bits in the half
  ring become shares of the same number in the full one).
- *Metrics.*  `NoTieCounts`, `WithTieCounts`, `PRIsTrapezoid`, `NormRoundsDown`.
- *Products.*  `MuxSelects`: the masks cancel and MUX returns its operand exactly, and
  is off by the ring divided by 2^FRAC for each time the shares of its product
  wrapped around the ring (`Wraps`: at most once, for operands not too far apart),
  which cannot matter when the first operand is kept; `MulRounds`: the shares of a
  product add up to it, and truncated to the product rounded down or one unit
  above, a whole one exactly.  `NormDivides`: NORM's result is the quotient
  rounded down, and the greatest fraction for a quotient of one and for zero over zero,
  though each round truncates shares three times.
- *Connection.*  `SocketsPair` (sockets of one name are two ends of one
  connection, and nobody is refused on the way), `StreamsClean` (nothing of the
  hand-shakes or the seed is left).
- *Start-up.*  `StationsAligned`: at the same round the proxies hold, slot by slot,
  shares of the same stations if the data is generated or the first two files that
  each could open are the same in the same order (`OneOrder`), whatever stands between
  them, *and in no other case* (section 4).  `MergesStations`: the metric is of all the
  stations the argument names; of a directory, of the first two files, however many it has.
  `ProxiesFinish`: with data that belongs together both come to the metric, whoever
  starts first.
- *Transport.*  `WholeMessages`: no block goes on with less than its bytes.
  `CountersWithin`: an update is lost only to the other thread of the same block
  and direction, whichever of the two stores last; so a proxy's counters are exact
  and the helper's may fall short.
  `EndsWithPeers`: a party whose peers stay ends.
- *Data.*  `SortTypeOK` holds the indices in their bounds; `OrderedAcross`,
  `OnlySwaps` are quickSort's contract; `ListsReady` is what SORT assumes of its
  inputs; `GreatestKept` and `FreshIsExact` say which values a list holds.

### Fairness

`Sort!FairSpec` is weak fairness of its next-state relation: the function is
sequential and every step is a computation that ends (its calls of MSB, MUX and
REC end by `Session!Termination`).  `Session!FairSpec` is weak fairness of each
party's main thread and of each transfer thread on its own: they are threads and
processes of the operating system, and blocked only while a socket is full or
empty, or a join is pending.  No strong fairness is assumed.
`Startup!StartupSpec`: weak fairness of each party's program; every process is
started some day and runs on, in any order.  `Transport!FairSpec`: weak fairness
of each of the party's threads, of the join, and of peers that are alive
(`PeerSends`, `PeerReads`), which send what the script says and read what they
are sent: the same that `Session` shows of them.
That a peer closes or resets is never fair, and `EndsWithPeers` promises nothing
then.  The other runs check safety only.

Every run checks for deadlock: only a state in which the module's program has
ended may stutter (`Done`; in `StartupDone` also after an argument was rejected,
when the helper waits for ever), and in `Transport` also one in which `Rcv` spins
(`Idle`).

## 4. Findings

- `curve_auroc` (`auc.h:76`, also 207): FP is computed as `i - TP` from the
  0-based index, after TP was increased.  The numerator is the number of ordered
  pairs *less the first label*: ROCNOTIE returns slightly less than the AUC when
  the first sample is positive; for ROCWITHTIE it is the first group's positives.
  `NoTieCounts` and `WithTieCounts` state exactly what is computed, and hold.
- `curve_norm` (`auc.h:368`): the documentation of NORM (`core.h:1185-1186`)
  assumes numerators below denominators; PRCURVE divides equal operands for every
  prefix of positives, and gets `1 - 2^-FRAC`.
- `curve_last` (`auc.h:140`, 286): "the last prediction must be in the list"
  (`auc.h:137`), but its constant is multiplied by a factor that may be zero, and
  then the last group is lost.  `WithTieCounts` and `PRIsTrapezoid` hold whenever
  no factor erases a difference (`Blinded`).
- `random_data_stale` (`llib.h:49`): `sort_values` sorts one element more than
  there are scores.  In an array never initialised that is 0 at best, and then
  nothing is lost (`FreshIsExact`); after a longer list it is a score of that other
  station, which takes the place of the least score generated ("Generate random
  prediction scores", `auc_utils.h:41`).  `GreatestKept` says exactly what is kept.

No document speaks of the order of files, so no run stands for the following, but
`StationsAligned` and the theorem `ListsMatch` say it exactly: `read_directory` takes
the entries as `readdir` returns them (`auc_utils.h:34`) and `file_data` fills the
slots in that order.  When the two directories come in different orders, a slot of
one proxy holds shares of one station and the same slot of the other those of
another; SORT adds them up in every comparison, no round brings them together, and
the areas mean nothing.  The run `startup` has such directories.

## 5. The plan

Done: the sort (`Sort`, `RunMerge`, `SortRefinement`, `SortProofs`), the messages
(`Blocks`, `Session`, `Lockstep`, `SessionRefinement`, `SessionProofs`), the
arithmetic (`Msb`, `MsbProofs`, `Products`, `ProductsProofs`, `Curve`,
`CurveProofs`), the processes (`Connection`, `Startup`, `StartupProofs`,
`Transport`) and the data (`QuickSort`, `RandomData`, `RandomDataProofs`).  What
would come next:

1. Theorems about the amounts of `Transport` (`WholeMessages`, `CountersWithin`).
2. The counts of `Curve` on shares through `Products`, with the precisions that
   PRCURVE multiplies after NORM.

## 6. What is proved

Every theorem holds for all values of the constants that the named assumptions
of the module allow; they are the ones the code or its inputs justify.

`SortProofs` is about every number of stations, every delta, every ring and every
set of descending inputs.  It rests on the assumptions named in `Sort`:
`NStationAssumption` (at least one station), `N1Assumption`, `DeltasAssumption`
(integers, negative ones too) and `InputsAssumption` (lists of samples,
descending); `SortImplements` also on `DistinctAssumption` of `SortRefinement`: no
two samples of the input are the same record, since `RunMerge` keeps what is left
to emit as a set.  A label that is different for every sample provides for that,
and the code compares predictions only.

| theorem | statement |
|---|---|
| `SortInvariant` | the inductive invariant `SortInv` always holds |
| `SortTypes`, `SortPrefix`, `SortHeads`, `SortBuffers`, `SortResult` | `TypeOK`, `PrefixAbove`, `HeadsExist`, `BuffersHold`, `ResultSorted` |
| `SortDrains` | `DrainsAll`: what is thrown away at a drain is empty |
| `SortPositions`, `SortSlots` | `PositionsOrdered`; `PairSlots` and `SlotsCleared` |
| `SortKeepsSamples` | the action property `SamplesKept` |
| `SortImplements` | `ImplementsRunMerge`, the refinement |

The argument.  `SortInv` is the conjunction of three layers, each inductive
given the ones before it.  *Shape* (`ShapeInv`): types, `PairSlots` and
`HeadsExist`; it says that the lists being merged are the two slots at `i`, and
that the counters allow the head the next step takes.  *Bookkeeping*:
`BuffersHold`, `DrainsAll`, `SlotsCleared`.  *Order* (`OrderInv`): `ListsDescend`,
`PrefixAbove` and `PositionsOrdered`.  None of the order conditions is
inductive alone: that a head may be appended to the sorted prefix needs that it is
the greatest of both lists, which after a comparison follows from `ListsDescend`
and without one only from `PositionsOrdered`; that in turn is established by the
shuffle (`ShuffleOrders`) and survives a selection because taking a head shifts
the one list against the other by exactly one position, which `fl_pop - ll_pop`
counts.  `CmpCompares` is the arithmetic fact underneath: the sign bit compares
predictions less than half the ring apart.  For `SamplesKept`, `TakeKeepsElements`
shows that a take moves one sample from a list to the prefix; the shuffle keeps
the samples because `MUX` with the operands in one order and then in the other is
an exchange.

The refinement adds one conjunct to the invariant, `Apart`: all places, of the
slots and of the prefix, hold different samples.  It is inductive because every
step moves samples and copies none (`TakeKeepsApart`, `ShuffleKeepsApart`,
`MovedApart` for the compaction).  With it the steps map one by one: `BeginPair`
opens two runs, a take emits a greatest sample of the pool (`TakeEmits`, where
`Apart` gives that what leaves the list leaves the pool), `EndPair` closes a run or,
when both lists were empty, changes nothing, and everything else stutters.

`MsbProofs` is about every ring of `2^L1` and its double, every modulus above the
number of bits, every share, mask, seed and coin.  It rests on the assumptions of
`Msb`: `L1Assumption`, `LPAssumption`, `YbAssumption`, `N1Assumption`,
`OneAssumption`, `RandomAssumption`, `SeedsAssumption` and `MocAssumption`.

| theorem | statement |
|---|---|
| `ComparisonCorrect` | `ComparesMask`: the blinded comparison finds a zero just when the mask is above the opened sum |
| `AtMostOneZero` | `OneZero` |
| `MocCorrect` | `MocConverts` |
| `MsbCorrect` | `SignIsShared`, for both versions and CMP |

The argument has two halves.  The first is about bits.  Of two different numbers
one is above just when it has the one where they first differ, which is proved by
induction on the bits below a place; so there is at most one place that decides.
What the proxies compute is a recursion over the bits, of which each proxy has its
own half: its sums add up, modulo `LP`, to one at the deciding place less that,
plus the number of places above where the numbers differ, a number below `LP`,
and a nonzero factor does not turn a nonzero remainder of a prime into zero.  The
invariant `CInv` carries this from the dealt bit shares (`BitsDealt`) to what the
helper looks at (`ComparedWell`).  The second half is about carries.  `IInv`
follows the protocol (`DealtWell`, `OpenedWell`, `AnsweredWell`, `FoundWell`,
`ConvertedWell`, `OfferedWell`, `SelectedWell`, `SharedWell`): each says which
numbers the shares add up to, as sums of integers without remainders plus a
multiple of the ring, so that which additions wrapped is a case split.  Two wraps
of N1 are none in the full ring, and what is left of `x` without its low bits is
0 or N1.

`ProductsProofs` is about every ring of `2^W`, every point below it, and all
operands, shares and masks.  It rests on `WAssumption`, `FRACAssumption`,
`OperandsAssumption` (signed ring elements), `RandomAssumption` and
`RatiosAssumption`: NORM gets a numerator not above a whole denominator, and one
that leaves room for the shift, as the comment above NORM and its callers have it.

| theorem | statement |
|---|---|
| `MuxCorrect` | `MuxSelects` |
| `MulCorrect` | `MulRounds` |
| `NormCorrect` | `NormDivides` |

The argument.  `ProductsInv` says that the shares of every operand, product and
triple are congruent to it (`ShareInv`, `MuxInv`, `MulInv`); masks cancel by
distributing four products over congruences.  What truncation does is division:
the logical shifts of two shares, the second negated, differ by the quotient of
their difference *as numbers*, and that difference is the product plus `Wraps`
times the ring, so that MUX is off by just that often the ring divided by 2^FRAC;
both shares being the same number modulo the ring when the bit is zero, nothing is
off then.  For MUL the two arithmetic shifts round in opposite directions.  NORM's
conjunct (`NormInv`, with `Quotient`) is a loop invariant: some number of bits `q`
is what the result's shares add up to, `q` units of the denominator are what came
off, and what is left, shifted, is below the denominator, or equal to it when the
operands were equal.  Each truncation in a round is of a multiple of the power of
two, so it is exact unless the shares crossed, and `apart` says when.

`CurveProofs` is about lists of every length, with any predictions in the lower
half of the ring, labels, common factors and numbers of bits.  It rests on
`SizeAssumption`, `FRACAssumption`, `RINGAssumption` and `ScalarsAssumption`.

| theorem | statement |
|---|---|
| `CurveInvariant` | the inductive invariant `CurveInv` always holds |
| `NoTieCorrect`, `WithTieCorrect`, `PRCorrect` | `NoTieCounts`, `WithTieCounts`, `PRIsTrapezoid` |
| `NormCorrect` | `NormRoundsDown` |

The argument.  `LoopInv` ties the loop's counters to the list: `TP` is the number
of positives so far, and everything after the last threshold passed (`Passed`)
is tied.  `NoTieInv` says what the rectangles add up to after each sample,
`WithTieInv` and `PRInv` after the last threshold; a sample inside a group
changes nothing, since its flag is zero (`FlagsAreThresholds`, which needs
`Blinded`).  The sets of pairs grow by products of stretches: a negative sample
comes below every positive before it (`OrderedGrows`), and a group adds all pairs
of its negatives with the positives above the group, which count once, and with
its own positives, which count half (`PairsGrow`).  That FP lags by one
(`Lagging`) is why the first label, or the first group's positives, is missing
from the sums.  `NormValue` is about NORM itself, by the invariant of its rounds
(`NormBit`): it is the quotient rounded down, or all ones for equal operands;
`Precisions` needs the second case as well.

`RandomDataProofs` is about `RandomData` and the `QuickSort` it extends, for every
array length, set of values, sizes and memory.  It rests on
`MAXSAMPLESIZEAssumption`, `ValuesAssumption` (the array is of unsigned integers),
`SampleSizesAssumption` (each list leaves a slot free, which `random_data` needs
for the element behind it) and `MemoryAssumption`.

| theorem | statement |
|---|---|
| `DataInvariant`, `ScoreInvariant` | the inductive invariants `Inv` and `ScoreInv` always hold |
| `QuickSortTypes` | `SortTypeOK`: indices stay within what was given |
| `QuickSortOrders` | `OrderedAcross` |
| `QuickSortOnlySwaps` | the action property `OnlySwaps` |
| `DataReady` | `ListsReady` |
| `DataGreatest`, `DataExact` | `GreatestKept`, `FreshIsExact` |

The argument.  `Inv` is `SortTypeOK`, the types of the data, `Ascending` (the
pending intervals are disjoint and lie one behind the other), `Partitioned`
(partition's own loop invariant: up to `i` above the pivot, from there to `j` not
above), `OrderedAcross`, and what the sort leaves behind.  `OrderedAcross` alone
is not inductive: an exchange inside the interval on top keeps it only because
every other element is in order with the whole interval or with none of it
(`OutsideTop`), and that needs `Ascending`; and when the interval is replaced by
its halves, the pairs that are no longer sorted together are the ones `Partitioned`
puts in order.  `DataReady` is what makes `InputsAssumption` of `Sort` true of
generated data: the lists descend, even with the stale element in them.

Which scores a list holds is about counting.  `Counted` says that for *every set*
of values the array has as many elements in it as what the sort was given; an
exchange keeps all those numbers (`SwapCount`).  When the sort is over the array
descends, and the last element is a least one, so that all but the last are the
greatest of what was given (`GreatestFirst`).  For `FreshIsExact` the element
behind the scores must be zero: `Cleared` says that the memory is, from the
greatest slot on that a list has reached, as long as lists do not become shorter.

`SessionProofs` is about every sequence of calls that ends with CORE_END, of every
size, over sockets of every capacity, every number of bits, of rounds of NORM and
of products in a batch.  It rests on `SettingsAssumption` of `Session` (a socket
holds at least one unit; the calls are calls the applications can make) and
`BITSAssumption`, `FRACAssumption` and `MAXMULAssumption` of `Blocks`; for the lock
step also on `SizesAssumption` of `SessionRefinement`: a building block is called for
one element or more, as the loops and metrics do, since one of no element has no
messages by which anybody could wait for another.

| theorem | statement |
|---|---|
| `Invariance` | the inductive invariant `Inv` always holds |
| `SessionTypes` | `TypeOK`: no transfer moves more than it has, no socket holds more than it can |
| `SessionFrames` | `FramesAgree`: what is read is the field that place decodes |
| `SessionMasks` | `MasksAgree`: messages that are combined come from one place of the common stream |
| `SessionDrained` | `Drained`: when all have ended, no socket holds anything |
| `SessionImplements` | `ImplementsLockstep`, the refinement |
| `LockstepTyped` | the types of `Lockstep`, for what the mapping shows of a session |
| `WithinOneCommand` | `Abstract!Adjacent`: no party is more than one command ahead of another |
| `HelperServes` | `Abstract!ServesTheScript`: the helper serves the command at its place, which `P1` has begun |
| `LockstepNeverStuck` | `Abstract!NeverStuck`: until all have ended, the lock step leaves some party a step |

The argument.  None of the four is inductive: that the next unit of a socket is the
right one says nothing of the unit behind it.  What is, is a statement about
everything that is still to come.  A program, as a sequence of blocks, is a
sequence of units said to each other role and one of units heard from it
(`Stream`), each with the place of the common stream its sender is at.  `Match` says
of the programs of three roles that, wherever the proxies start in the common
stream, they take the same number of values from it, and that what `p` says to `q`
is, unit by unit and place by place, what `q` hears from `p`.  Programs one after
the other match when each does (`MatchConcat`), loops when their bodies do; so every
building block matches (`MatchMUX`, `MatchMSB`, `MatchPMUL`, ..., from a few forms
of exchange: `Asks`, `AsksEach`, `Opens`), and every call with the command
that announces it (`MatchBody`, `MatchWhole`).  That the helper goes through its own
branch, in batches and rounds of its own, is what these lemmas are about.

`Inv` then says that each party stands somewhere in its program (`Local`: the block
it is in, what its threads have moved, what its buffers hold of it, what is left to
do), and that for every two roles *what is on its way followed by what the one will
still say is what the other will still hear* (`Linked`).  Each step takes one unit
from one of these sequences and puts it on the next, or regroups what is still to
come.  `Local` holds the memory in `Busy`: a sender's buffer holds its message until
it is sent, although a receiver writes the other one at the same time, since the
transfers of one block share no buffer (`ApartIn`).  In the command loop the
helper's program is not in its own hands: what it will do is what `P1` says next,
and the invariant makes that the call the proxies are in (`Awaits`, `ByteRead`).
The four properties follow by looking at the first of what is still to come, at
what the buffers hold when all threads are joined, and at the end, where nothing is
left to be said or heard.

The refinement needs to know who is where, and that too is read off what is still to
come.  A party's place in the calls and what it has still to say, or to hear, fix how
much it has said or heard so far (`Talk`, `LeftIs`); by `Linked` nobody has heard more
than was said.  So a party that is over with a call (`Over`) in which another one
says anything to it finds that one in the call or past it (`Passed`).  `CallTalks`
goes through the calls: in each the helper tells both proxies something; P2 tells the
helper something but in the scalar MUL, and P1 but in a few blocks (`Answers`: both
MUX and MRound) where the proxies do not talk.  There P1 knows of P2 through the
helper, which says its last word only when it has nothing more to hear of P2
(`LastWord`, `Answered`).  That the helper is in no call `P1` has not named is the
same count over the commands in the socket (`HelperBehind`).  Together, who leaves a
command knows the other two in it (`LeavesOver`), with the exceptions that `Lockstep`
has: CORE_END, which says nothing more, and the helper in the scalar MUL.
`CommandedIs` then translates places in the calls into places in the commands, of
which a REC is none, and the steps map one by one (`StepsTogether`): a proxy begins a
command when it begins the call (`ProxyBegins`), the helper when it has read the last
unit of it (`ReadsByte`, `ReadsSize`), each ends it on return (`Returns`), and every
other step stutters.

The last four theorems follow from the refinement and an invariant of `Lockstep`
(`KeepsStep`).  What holds of every pair is not inductive, since the helper may leave
a scalar MUL that the proxies have not begun.  `LeftBehind` says what a *proxy* knows
once it has left a command, that the others are in it, and `HelperFollows` that the
helper never passes `P1`; the two bound every pair.

`StartupProofs` is about every number of sockets per pair, all ports and backlogs,
all arguments and directories, and every order in which the three processes start and
run.  It rests on `SCKNUMAssumption`, `BacklogAssumption` and `PortAssumption` of
`Connection` and on `ArgumentsAssumption` (sizes are not negative; a directory has
`.` and `..` in it) and `DefaultAssumption` of `Startup`.  Of what else the two
directories hold, and in which orders, nothing is assumed.

| theorem | statement |
|---|---|
| `SocketsOfAName`, `NothingIsLeft` | `SocketsPair`, `StreamsClean` |
| `ConstructorsAgree` | both, for the constructors without the programs around them |
| `ListsMatch` | `StationsAligned` |
| `EveryStationMerged` | `MergesStations` |

The argument.  `ConnectionInv` has one conjunct per connection (`Link`): where the
party that opens it and the party that connects to it are in their plans (`Phase`),
what each has of it, what the listener's queue and the two streams hold.
`Shaking` lists the ways these go together, from "nobody is there" through the
role that is asked for, sent and read to "both are past it".  That plans fit
together is a fact about the constructors alone: every step has its mate at the
other end (`PlanFits`), the two use one address and say what the other asks for
(`EndsAgree`), and no two connections share an address (`AddressesDiffer`): the helper
listens for P2 above the ports it listened on for P1, and P1 on a host of its own.  So a step of one party changes one connection and
leaves the others (`LinksKept`).  The seed goes over a connection that is already
made, and only there may something be left in a stream (`SeedUnderway`).  For the
data, `Levels` is the sequence of lists that the rounds of SORT make of what a
proxy has loaded; `AtLevel` says that the proxy has the lists of some level of its
own.  No round loses or adds a station (`RoundKeepsStations`), and the number of
lists falls strictly (`LevelsFall`), so that equally many lists are of the same level,
and one list is all of them.  What a proxy loads from a directory is a matter of the
first two files alone (`FirstOfPath`): the index is the number of files before
(`IndexCounts`), so each comes into its slot whatever stands between them
(`SlotOfFile`).  Hence proxies with the same two files in one order have equal levels
(`LevelsAgree`).  Conversely (`AlignedExactly`), lists that are equal at some level
show which files went into which slot (`NoneLost`: a round joins sets and drops
nothing), and these are then the same.

Induction over data.  What a recursive function computes (the bits of a number,
the sums of MSB_SUB, the rounds of NORM, the area under a curve, a power of two)
is proved from the principle of the least number: `Lemmas` derives from the
library's well-founded order that a set of numbers that has 0 and with `n` also
`n + 1` has all (`SetInduction`, `BoundedInduction`), and that a function given by a
first value and a step exists (`BeginningExists`, `Recursion`).

Only model-checked: `Termination`, `ProxiesFinish`, `EndsWithPeers` and everything
under fairness, which TLAPS does not treat, so also that no cycle of parties waits on
full and empty sockets (`LockstepNeverStuck` is about commands); and the two
invariants of `Transport`.  These are sums over sets of transfers and blocks by
`MapThenSumSet`, which takes an operator: to prove anything of such a sum is an
induction over the set with that operator as a parameter, and they are checked for
the blocks of the code instead.

## 7. What is not modelled, and why

- *Failures across parties.*  The code does not handle them: `Rcv` spins at the
  end of a stream and counts a byte back on an error.  `Transport` shows what one
  party does then; `Session` has sockets that neither fail nor close.
- *Values on shares in Sort and Curve.*  They use MUX, MUL and MSB by what
  `Products` and `Msb` show they return.  In `Curve` labels and counts are whole,
  so products lose nothing; precisions would lose up to a few units of 2^-FRAC on
  shares, and a wrap of shares (`MuxSelects`) is taken not to happen.
- *Wraps in NORM.*  `Products` takes MSB by what it returns; quotients above one
  and denominators that are no whole numbers, which no application has, are left
  out of its inputs.
- *Arguments and files.*  The text of an argument and of a file's rows is taken as
  read.  Left out: a path that is no directory, a size that is negative or above
  50 000, and more than 100 stations, all of which the code accepts and which
  write behind arrays (the test of the number of stations in `auroc`,
  `nstation <= 2 && nstation > 1000`, is never true).  What the commands of SORT do
  with lists that do not belong together (vectors of different lengths, an endless
  wait) is not modelled; `ProxiesFinish` excludes it.  Labels of `random_data` are random bits that
  take part in no step of the data.
- *Ports of one host.*  The three parties' hosts are taken as distinct; port ranges
  that overlap when all run on one host, as README.md's example has them apart, are
  not modelled.
- *Predictions half the ring apart.*  `InputsAssumption` of `Sort` excludes them;
  what SORT does with a file that has some is not shown by any run.
- *`ADD`, `parse_options`, `print_data`*: local or textual, and nothing calls them.
  The timers and `PrintBytes` only report.
- *Encodings.*  A field is a unit; that `addVal2CharArray` and `convert2Long` are
  inverse is not modelled.
- *Sizes.*  A party's buffers hold 400 000 000 bytes, of which the models know
  nothing; a proxy's generators are choices.
- *Build files, experiment scripts, the notebook*: none of the system's logic.
