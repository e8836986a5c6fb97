----------------------------- MODULE Transport -----------------------------
(***************************************************************************)
(* The transfers of one party (src/utils/connection.h) against the kernel:  *)
(* Snd and Rcv loop over calls of write and read that may move less than    *)
(* they were asked for, a peer may close its end at any time, and the       *)
(* threads of a block add to the two byte counters without a lock.          *)
(* Module Session has reliable sockets and cares for what is in them; here  *)
(* only amounts count.                                                      *)
(***************************************************************************)
EXTENDS Integers, Sequences, FiniteSetsExt

CONSTANTS
    Peer,       \* the other parties
    Capacity,   \* bytes a socket holds in one direction
    Scripts     \* what the party may do: sequences of blocks of transfers

(* A transfer: Send and Receive count their bytes, while SendBytes, ReadByte *)
(* and ReadInt call Snd and Rcv themselves.                                  *)
Transfer == [dir : {"send", "receive"}, peer : Peer, sz : Nat, counted : BOOLEAN]

ASSUME CapacityAssumption == Capacity \in Nat \ {0}
ASSUME ScriptsAssumption ==
    \A script \in Scripts : \A b \in 1..Len(script) :
        Len(script[b]) \in {1, 2} /\ \A t \in 1..Len(script[b]) : script[b][t] \in Transfer

VARIABLES
    script, \* the blocks of this party
    at,     \* the block it is in
    status, \* run, killed or done
    thread, \* thread[t]: where the thread of transfer t is
    left,   \* left[t]: bytes it still has to move
    tmp,    \* tmp[t]: the counter as the thread has read it
    count,  \* count[d]: bytesSend and bytesReceived
    ready,  \* ready[q]: bytes from q that can be read
    supply, \* supply[q]: bytes q has yet to send
    room,   \* room[q]: bytes the socket to q takes
    open,   \* open[q]: q has not closed its end
    lost,   \* lost[q]: bytes from q that a reset threw away
    fault   \* fault[q]: the error of a reset, until read or write reports it

party == <<script, at, status, thread, left, tmp, count>>
kernel == <<ready, supply, room, open, lost, fault>>
vars == <<party, kernel>>

Dirs == {"send", "receive"}
Block == script[at]
Threads == 1..Len(Block)

(* Bytes the transfers of block b that satisfy Counts move. *)
Moves(b, Counts(_)) ==
    MapThenSumSet(LAMBDA t : script[b][t].sz,
                  {t \in 1..Len(script[b]) : Counts(script[b][t])})

Fresh(block) == [t \in 1..Len(block) |-> "move"]
Sizes(block) == [t \in 1..Len(block) |-> block[t].sz]

Init ==
    /\ script \in Scripts
    /\ at = 1
    /\ status = "run"
    /\ thread = Fresh(script[1])
    /\ left = Sizes(script[1])
    /\ tmp = [t \in {1, 2} |-> 0]
    /\ count = [d \in Dirs |-> 0]
    /\ ready = [q \in Peer |-> 0]
    /\ supply = [q \in Peer |->
                    MapThenSumSet(LAMBDA b : Moves(b, LAMBDA t : t.dir = "receive" /\ t.peer = q),
                                  1..Len(script))]
    /\ room = [q \in Peer |-> Capacity]
    /\ open = [q \in Peer |-> TRUE]
    /\ lost = [q \in Peer |-> 0]
    /\ fault = [q \in Peer |-> "none"]

-----------------------------------------------------------------------------
(* The kernel and the peers. *)

PeerSends(q) ==
    /\ open[q]
    /\ supply[q] > 0
    /\ ready[q] < Capacity
    /\ supply' = [supply EXCEPT ![q] = @ - 1]
    /\ ready' = [ready EXCEPT ![q] = @ + 1]
    /\ UNCHANGED <<party, room, open, lost, fault>>

PeerReads(q) ==
    /\ open[q]
    /\ room[q] < Capacity
    /\ room' = [room EXCEPT ![q] = Capacity]
    /\ UNCHANGED <<party, ready, supply, open, lost, fault>>

(* q ends, after it has read everything or not: in the second case the      *)
(* connection is reset.                                                     *)
PeerCloses(q) ==
    /\ open[q]
    /\ open' = [open EXCEPT ![q] = FALSE]
    /\ UNCHANGED <<party, ready, supply, room, lost, fault>>

PeerResets(q) ==
    /\ open[q]
    /\ open' = [open EXCEPT ![q] = FALSE]
    /\ lost' = [lost EXCEPT ![q] = ready[q]]
    /\ ready' = [ready EXCEPT ![q] = 0]
    /\ fault' = [fault EXCEPT ![q] = "pending"]
    /\ UNCHANGED <<party, supply, room>>

-----------------------------------------------------------------------------
(* Snd and Rcv. *)

Moving(t) == status = "run" /\ t \in Threads /\ thread[t] = "move"

(* The loop goes on while something is left. *)
MutantNextOf(t, n) == IF left[t] - n >= 0 THEN "move" ELSE "load"
NextOf(t, n) == IF left[t] - n > 0 THEN "move"
                ELSE IF Block[t].counted THEN "load" ELSE "end"

(* read returns what there is, up to what was asked for.  At the end of the *)
(* stream it returns zero and the loop spins: no step of the model.         *)
Read(t) ==
    LET q == Block[t].peer
    IN  /\ Moving(t)
        /\ Block[t].dir = "receive"
        /\ \E n \in 1..ready[q] :
              /\ n <= left[t]
              /\ left' = [left EXCEPT ![t] = @ - n]
              /\ ready' = [ready EXCEPT ![q] = @ - n]
              /\ thread' = [thread EXCEPT ![t] = NextOf(t, n)]
        /\ UNCHANGED <<script, at, status, tmp, count, supply, room, open, lost, fault>>

(* read fails once after a reset: -1 is taken off what is left. *)
AfterError(t) == left[t] + 1
ReadError(t) ==
    LET q == Block[t].peer
    IN  /\ Moving(t)
        /\ Block[t].dir = "receive"
        /\ fault[q] = "pending"
        /\ fault' = [fault EXCEPT ![q] = "reported"]
        /\ left' = [left EXCEPT ![t] = AfterError(t)]
        /\ UNCHANGED <<script, at, status, thread, tmp, count, ready, supply, room, open, lost>>

(* write takes what there is room for.  The end of a peer is not known to   *)
(* the kernel until it has answered a write with a reset.                   *)
Write(t) ==
    LET q == Block[t].peer
    IN  /\ Moving(t)
        /\ Block[t].dir = "send"
        /\ open[q] \/ fault[q] = "none"
        /\ \E n \in 1..room[q] :
              /\ n <= left[t]
              /\ left' = [left EXCEPT ![t] = @ - n]
              /\ room' = [room EXCEPT ![q] = @ - n]
              /\ thread' = [thread EXCEPT ![t] = NextOf(t, n)]
        /\ UNCHANGED <<script, at, status, tmp, count, ready, supply, open, lost, fault>>

(* After a reset write, too, fails once, and takes the loop a byte back. *)
WriteError(t) ==
    LET q == Block[t].peer
    IN  /\ Moving(t)
        /\ Block[t].dir = "send"
        /\ fault[q] = "pending"
        /\ fault' = [fault EXCEPT ![q] = "written"]
        /\ left' = [left EXCEPT ![t] = AfterError(t)]
        /\ UNCHANGED <<script, at, status, thread, tmp, count, ready, supply, room, open, lost>>

(* The next write is a SIGPIPE, which nobody handles; of a peer that has    *)
(* closed, a write after one that it has not read.                          *)
BrokenPipe(t) ==
    LET q == Block[t].peer
    IN  /\ Moving(t)
        /\ Block[t].dir = "send"
        /\ ~open[q]
        /\ \/ fault[q] \in {"reported", "written"}
           \/ fault[q] = "none" /\ room[q] < Capacity
        /\ status' = "killed"
        /\ UNCHANGED <<script, at, thread, left, tmp, count>>
        /\ UNCHANGED kernel

-----------------------------------------------------------------------------
(* bytesSend += sz and bytesReceived += sz, without a lock. *)

Load(t) ==
    /\ status = "run" /\ t \in Threads /\ thread[t] = "load"
    /\ tmp' = [tmp EXCEPT ![t] = count[Block[t].dir]]
    /\ thread' = [thread EXCEPT ![t] = "store"]
    /\ UNCHANGED <<script, at, status, left, count>>
    /\ UNCHANGED kernel

MutantCounter(t) == "send"
Counter(t) == Block[t].dir

Added(t) == tmp[t] + Block[t].sz

Store(t) ==
    /\ status = "run" /\ t \in Threads /\ thread[t] = "store"
    /\ count' = [count EXCEPT ![Counter(t)] = Added(t)]
    /\ thread' = [thread EXCEPT ![t] = "end"]
    /\ UNCHANGED <<script, at, status, left, tmp>>
    /\ UNCHANGED kernel

(* Both threads are joined. *)
MutantJoined == thread[1] = "end"
Joined == \A t \in Threads : thread[t] = "end"
Join ==
    /\ status = "run"
    /\ Joined
    /\ IF at < Len(script)
       THEN /\ at' = at + 1
            /\ thread' = Fresh(script[at + 1])
            /\ left' = Sizes(script[at + 1])
            /\ status' = status
       ELSE status' = "done" /\ UNCHANGED <<at, thread, left>>
    /\ UNCHANGED <<script, tmp, count>>
    /\ UNCHANGED kernel

Stopped == status \in {"done", "killed"}
Spinning == \E t \in Threads : Moving(t) /\ Block[t].dir = "receive"
                                  /\ ~open[Block[t].peer] /\ ready[Block[t].peer] = 0
                                  /\ fault[Block[t].peer] # "pending"
Idle == (Stopped \/ Spinning) /\ UNCHANGED vars

Work(t) ==
    \/ Read(t) \/ ReadError(t) \/ Write(t) \/ WriteError(t) \/ BrokenPipe(t)
    \/ Load(t) \/ Store(t)
Next ==
    \/ \E t \in {1, 2} : Work(t)
    \/ Join
    \/ \E q \in Peer : PeerSends(q) \/ PeerReads(q) \/ PeerCloses(q) \/ PeerResets(q)
    \/ Idle

Spec == Init /\ [][Next]_vars
FairSpec ==
    /\ Spec
    /\ \A t \in {1, 2} : WF_vars(Work(t))
    /\ WF_vars(Join)
    /\ \A q \in Peer : WF_vars(PeerSends(q)) /\ WF_vars(PeerReads(q))

-----------------------------------------------------------------------------
(* Properties. *)

(* A party never goes on with a message that is not whole: whatever the     *)
(* kernel returned and whoever closed, the bytes read so far are those of   *)
(* the finished transfers and of what the running ones have moved.  (A read *)
(* that failed has taken the loop a byte back.)                             *)
WholeMessages ==
    \A q \in Peer :
        LET Total(b) == Moves(b, LAMBDA t : t.dir = "receive" /\ t.peer = q)
            read == MapThenSumSet(LAMBDA b : Total(b), 1..Len(script))
                        - supply[q] - ready[q] - lost[q]
            now  == MapThenSumSet(LAMBDA t : Block[t].sz - left[t],
                        {t \in Threads : Block[t].dir = "receive" /\ Block[t].peer = q})
            failed == IF fault[q] = "reported" THEN 1 ELSE 0
        IN  read = MapThenSumSet(LAMBDA b : Total(b), 1..(at - 1)) + now + failed

(* A counter is at least what the smaller transfer of each block adds and   *)
(* at most what all add: an update is lost only to the other thread of its  *)
(* block, never to another block's.  Either thread may overwrite the other; *)
(* in the code the two transfers of a block in one direction are of one     *)
(* size.  Where at most one goes in each direction, as in all blocks of the *)
(* proxies, nothing is lost and the figures printed at the end are exact.   *)
CountersWithin ==
    status = "done" =>
        \A d \in Dirs :
            LET Counted(b) == {t \in 1..Len(script[b]) :
                                  script[b][t].counted /\ script[b][t].dir = d}
                Size(b, t) == script[b][t].sz
                Smallest(b) == IF Counted(b) = {} THEN 0
                               ELSE Min({Size(b, t) : t \in Counted(b)})
                All(b) == MapThenSumSet(LAMBDA t : Size(b, t), Counted(b))
                blocks == 1..Len(script)
            IN  /\ count[d] >= MapThenSumSet(LAMBDA b : Smallest(b), blocks)
                /\ count[d] <= MapThenSumSet(LAMBDA b : All(b), blocks)

(* A party whose peers stay comes to its end. *)
EndsWithPeers == <>(status = "done" \/ \E q \in Peer : ~open[q])
=============================================================================
