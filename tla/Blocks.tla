------------------------------- MODULE Blocks -------------------------------
(***************************************************************************)
(* What the three parties say to each other in every building block of      *)
(* src/core: for a role and a call, the sequence of blocks of transfers     *)
(* that role makes.  The transfers of one block run in threads of their     *)
(* own and are joined before the next block (REC's Send and Receive, the    *)
(* helper's pairs of Receives and of Sends); a block with one transfer is   *)
(* a plain call.  `draws' counts what the role takes from the proxies'      *)
(* common random stream before the transfers of the block start.            *)
(*                                                                          *)
(* A unit is one encoded field: a ring element, a bit share, an operation   *)
(* byte, a size.  Every sz*8, sz*16, sz*71 ... of the code becomes the      *)
(* number of fields it counts.                                              *)
(***************************************************************************)
EXTENDS Integers, Sequences, SequencesExt

CONSTANTS
    BITS,       \* bit shares of a masked element (L_BIT - 1 in the code)
    FRAC,       \* rounds of NORM: bits of a fraction
    MAXMUL      \* most products that share one set of messages

ASSUME BITSAssumption == BITS \in Nat \ {0}
ASSUME FRACAssumption == FRAC \in Nat \ {0}
ASSUME MAXMULAssumption == MAXMUL \in Nat \ {0}

P1 == 0
P2 == 1
HELPER == 2

Proxies == {P1, P2}
Roles == {P1, P2, HELPER}
Other(p) == 1 - p

-----------------------------------------------------------------------------
(* The calls. *)

ScalarOps == {"CORE_MC", "CORE_MSB", "CORE_CMP", "CORE_MUX", "CORE_MUL"}
SizedOps == {"CORE_MMC", "CORE_MMSB", "CORE_MCMP", "CORE_MMUX", "CORE_MMUL",
             "CORE_MNORM",
             "AUC_MROU", "AUC_ROCNOTIE", "AUC_ROCWITHTIE", "AUC_PR"}
Commands == ScalarOps \cup SizedOps \cup {"CORE_END"}

(* A call of a proxy: a command, with 0 for n when it has no size, or the   *)
(* reconstruction of n shares, which the helper has no part in.             *)
Call == [op : SizedOps \cup {"REC"}, n : Nat]
            \cup [op : ScalarOps \cup {"CORE_END"}, n : {0}]
ACall(op, n) == [op |-> op, n |-> n]

-----------------------------------------------------------------------------
(* Transfers and blocks. *)

Messages == Commands \cup
    {"size", "rec", "mux", "muxed", "mask", "masked", "msb", "compare", "compared",
     "wrap", "ack", "triple", "round", "rounded"}
Unit == [msg : Messages, k : Nat]
Fields(msg, n) == [k \in 1..n |-> [msg |-> msg, k |-> k]]

(* Buffer 1 is getBuffer1(), also the buffer of SendBytes; 2 is             *)
(* getBuffer2().                                                            *)
Send(q, units, b) == [dir |-> "send", peer |-> q, units |-> units, buf |-> b]
Receive(q, units, b) ==
    [dir |-> "receive", peer |-> q, units |-> units, buf |-> b]

Block(draws, transfers) == [draws |-> draws, transfers |-> transfers]
Alone(transfer) == Block(0, <<transfer>>)

ToBoth(units) == Block(0, <<Send(P1, units, 1), Send(P2, units, 2)>>)
FromBoth(units) == Block(0, <<Receive(P1, units, 1), Receive(P2, units, 2)>>)

(* Values a proxy takes from the common stream outside of a building block. *)
Draw(p, n) == IF p = HELPER THEN <<>> ELSE <<Block(n, <<>>)>>

-----------------------------------------------------------------------------
(* The building blocks. *)

(* The proxies exchange their shares: both send first, so the two           *)
(* directions need threads of their own.                                    *)
MutantRECInTurn(p, n) ==
    IF p = HELPER THEN <<>> ELSE
    <<Alone(Send(Other(p), Fields("rec", n), 1)),
      Alone(Receive(Other(p), Fields("rec", n), 2))>>
MutantRECOneBuffer(p, n) ==
    IF p = HELPER THEN <<>> ELSE
    <<Block(0, <<Send(Other(p), Fields("rec", n), 1),
                 Receive(Other(p), Fields("rec", n), 1)>>)>>
REC(p, n) ==
    IF p = HELPER THEN <<>> ELSE
    <<Block(0, <<Send(Other(p), Fields("rec", n), 1),
                 Receive(Other(p), Fields("rec", n), 2)>>)>>

(* Values a proxy draws for each element of MUX. *)
MutantMUXDraws(p) == IF p = P1 THEN 4 ELSE 2
MUXDraws(p) == 4

MUX(p, n) ==
    IF p = HELPER
    THEN <<FromBoth(Fields("mux", 2 * n)), ToBoth(Fields("muxed", n))>>
    ELSE <<Block(n * MUXDraws(p), <<Send(HELPER, Fields("mux", 2 * n), 1)>>),
           Alone(Receive(HELPER, Fields("muxed", n), 1))>>

(* The scalar MUX: the helper serves one proxy after the other. *)
MUX1(p) ==
    IF p = HELPER
    THEN <<Alone(Receive(P1, Fields("mux", 2), 1)),
           Alone(Receive(P2, Fields("mux", 2), 2)),
           Alone(Send(P1, Fields("muxed", 1), 1)),
           Alone(Send(P2, Fields("muxed", 1), 2))>>
    ELSE <<Block(4, <<Send(HELPER, Fields("mux", 2), 1)>>),
           Alone(Receive(HELPER, Fields("muxed", 1), 1))>>

(* The sign bits of n elements: the helper's masks, the masked elements     *)
(* opened between the proxies, their comparison with the mask and the two   *)
(* candidate bits.  The proxies draw the bit f, then the seed of MSB_SUB.   *)
MSB(p, n) ==
    LET mask   == Fields("mask", n * (1 + BITS))
        masked == Fields("masked", n * (BITS + 2))
        answer == Fields("msb", n * 2)
    IN  IF p = HELPER
        THEN <<ToBoth(mask), FromBoth(masked), ToBoth(answer)>>
        ELSE <<Block(1, <<Receive(HELPER, mask, 1)>>)>>
             \o REC(p, n)
             \o <<Block(1, <<Send(HELPER, masked, 1)>>),
                  Alone(Receive(HELPER, answer, 2))>>

(* The comparison of n opened values with bit-shared ones: each bit is      *)
(* multiplied by a common factor and then swapped with another one, chosen  *)
(* by two more common values.  The helper serves one proxy after the other. *)
PCB(p, n) ==
    IF p = HELPER
    THEN <<Alone(Receive(P1, Fields("compare", n * BITS), 1)),
           Alone(Receive(P2, Fields("compare", n * BITS), 2)),
           Alone(Send(P1, Fields("compared", n), 1)),
           Alone(Send(P2, Fields("compared", n), 2))>>
    ELSE <<Block(n * BITS * 3, <<Send(HELPER, Fields("compare", n * BITS), 1)>>),
           Alone(Receive(HELPER, Fields("compared", n), 1))>>

(* n shares moved from the half ring to the ring: a mask with its bit       *)
(* shares and its wrap, the masked values opened, their comparison.         *)
MOC(p, n) ==
    LET wrap == Fields("wrap", n * (1 + BITS + 1))
    IN  (IF p = HELPER THEN <<ToBoth(wrap)>>
                       ELSE <<Alone(Receive(HELPER, wrap, 1))>>)
        \o REC(p, n) \o PCB(p, n)

(* The scalar MSB: the conversion and then two candidates, which a common   *)
(* bit puts in order.                                                       *)
MSB1(p) ==
    MOC(p, 1) \o
    IF p = HELPER
    THEN <<FromBoth(Fields("masked", 2)), ToBoth(Fields("msb", 2))>>
    ELSE <<Block(1, <<Send(HELPER, Fields("masked", 2), 1)>>),
           Alone(Receive(HELPER, Fields("msb", 2), 1))>>

(* Each proxy acknowledges a batch of products, so that the helper does not *)
(* run ahead of them.                                                       *)
MutantNoAck(p) == <<>>
Ack(p) ==
    IF p = HELPER
    THEN <<Alone(Receive(P1, Fields("ack", 1), 1)),
           Alone(Receive(P2, Fields("ack", 1), 2))>>
    ELSE <<Alone(Send(HELPER, Fields("ack", 1), 1))>>

(* n products from multiplication triples. *)
Triples(p, n) ==
    IF p = HELPER
    THEN <<Alone(Send(P1, Fields("triple", 3 * n), 1)),
           Alone(Send(P2, Fields("triple", 3 * n), 2))>>
    ELSE <<Alone(Receive(HELPER, Fields("triple", 3 * n), 1))>>
             \o REC(p, 2 * n)

(* The scalar MUL has no acknowledgement. *)
MUL1(p) == Triples(p, 1)
PMUL(p, n) == Triples(p, n) \o Ack(p)

(* MUL cuts n products into batches of at most MAXMUL. *)
Batches(n) == (n + MAXMUL - 1) \div MAXMUL
BatchSize(n, c) ==
    LET left == n - (c - 1) * MAXMUL
    IN  IF left < MAXMUL THEN left ELSE MAXMUL
MUL(p, n) == FlattenSeq([c \in 1..Batches(n) |-> PMUL(p, BatchSize(n, c))])

(* One round of NORM per fractional bit. *)
NORM(p, n) == FlattenSeq([r \in 1..FRAC |-> MSB(p, n) \o MUL(p, 2 * n)])

(* Zero stays zero and all else becomes one, by the helper. *)
MRound(p, n) ==
    IF p = HELPER
    THEN <<FromBoth(Fields("round", n)), ToBoth(Fields("rounded", n))>>
    ELSE <<Alone(Send(HELPER, Fields("round", n), 1)),
           Alone(Receive(HELPER, Fields("rounded", n), 1))>>

-----------------------------------------------------------------------------
(* The three metrics; proxies and helper call the same blocks in the same   *)
(* order.                                                                   *)

(* One sample of a curve with ties. *)
Sample(p) == MUL(p, 2) \o MUL(p, 2) \o MUX(p, 2)
Samples(p, n) == FlattenSeq([s \in 1..n |-> Sample(p)])

(* createShare takes a value from the common stream. *)
ROCNOTIE(p, n) == MUL(p, n) \o Draw(p, 1) \o MUL1(p) \o NORM(p, 1)

(* A common factor per sample hides the differences from the helper. *)
ROCWITHTIE(p, n) ==
    Draw(p, n) \o MRound(p, n) \o Samples(p, n) \o MUL1(p) \o NORM(p, 1)

PRCURVE(p, n) ==
    Draw(p, n) \o MRound(p, n) \o NORM(p, n) \o Samples(p, n) \o NORM(p, 1)

-----------------------------------------------------------------------------
(* Only P1 tells the helper what to do. *)
Command(c) ==
    <<[msg |-> c.op, k |-> 0]>>
        \o IF c.op \in SizedOps THEN <<[msg |-> "size", k |-> c.n]>> ELSE <<>>
MutantSendBytes(p, c) ==
    IF p \in Proxies /\ c.op \in Commands
    THEN <<Alone(Send(HELPER, Command(c), 1))>> ELSE <<>>
SendBytes(p, c) ==
    IF p = P1 /\ c.op \in Commands
    THEN <<Alone(Send(HELPER, Command(c), 1))>> ELSE <<>>

(* The blocks of role p in call c. *)
Body(p, c) ==
    CASE c.op = "REC"            -> REC(p, c.n)
      [] c.op = "CORE_MC"        -> MOC(p, 1)
      [] c.op = "CORE_MMC"       -> MOC(p, c.n)
      [] c.op = "CORE_MSB"       -> MSB1(p)
      [] c.op = "CORE_CMP"       -> MSB1(p)
      [] c.op = "CORE_MMSB"      -> MSB(p, c.n)
      [] c.op = "CORE_MCMP"      -> MSB(p, c.n)
      [] c.op = "CORE_MUX"       -> MUX1(p)
      [] c.op = "CORE_MMUX"      -> MUX(p, c.n)
      [] c.op = "CORE_MUL"       -> MUL1(p)
      [] c.op = "CORE_MMUL"      -> MUL(p, c.n)
      [] c.op = "CORE_MNORM"     -> NORM(p, c.n)
      [] c.op = "AUC_MROU"       -> MRound(p, c.n)
      [] c.op = "AUC_ROCNOTIE"   -> ROCNOTIE(p, c.n)
      [] c.op = "AUC_ROCWITHTIE" -> ROCWITHTIE(p, c.n)
      [] c.op = "AUC_PR"         -> PRCURVE(p, c.n)
      [] c.op = "CORE_END"       -> <<>>
Code(p, c) == SendBytes(p, c) \o Body(p, c)

-----------------------------------------------------------------------------
(* The calls SORT and the applications make. *)

(* SORT's element-wise comparison and exchange of the first n samples. *)
Shuffle(n) == <<ACall("CORE_MMSB", n), ACall("CORE_MMUX", 2 * n),
                ACall("CORE_MMUX", 2 * n)>>

(* SORT's selection: one comparison, opened. *)
Select == <<ACall("CORE_MMSB", 1), ACall("REC", 1)>>

(* After SORT: the metric of n samples, its reconstruction, the end. *)
CalcAuc(op, n) == <<ACall(op, n), ACall("REC", 1), ACall("CORE_END", 0)>>
=============================================================================
