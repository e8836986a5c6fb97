------------------------------ MODULE Session ------------------------------
(***************************************************************************)
(* A session of the three parties: two proxies that make the same sequence  *)
(* of calls and the helper's command loop (src/apps/helper.cpp), over       *)
(* sockets that hold a bounded number of units in each direction.  Every    *)
(* transfer of a block is a thread: its Snd or Rcv loop moves the units     *)
(* one by one between the party's buffer and the socket, and the threads    *)
(* of all parties interleave.                                               *)
(* The buffers are memory: a unit is sent as the buffer holds it then, and  *)
(* a received one lands where the next block reads it.                      *)
(***************************************************************************)
EXTENDS Blocks

CONSTANTS
    Settings    \* what is run: units a socket holds in one direction, and the
                \* sequence of calls the proxies make

ASSUME SettingsAssumption ==
    \A s \in Settings :
        /\ s \in [capacity : Nat \ {0}, calls : Seq(Call)]
        /\ s.calls # <<>>
        /\ \A k \in 1..Len(s.calls) :
               (s.calls[k].op = "CORE_END") = (k = Len(s.calls))

VARIABLES
    capacity, \* units a socket holds
    calls,  \* the sequence of calls of this session
    pc,     \* pc[p]: where party p is
    begun,  \* begun[p]: calls (of the helper: commands) p has begun
    call,   \* call[p]: the call p is in, or was in last
    at,     \* at[p]: block of that call
    moved,  \* moved[p]: units each transfer of the block has moved
    buf,    \* buf[p][b]: units in buffer b of p
    drawn,  \* drawn[p]: values p has taken from the common stream
    chan    \* chan[p][q]: units on their way from p to q

vars == <<capacity, calls, pc, begun, call, at, moved, buf, drawn, chan>>
blockVars == <<at, moved, buf, drawn>>

(* A unit in memory or on its way carries who computed it, and how many     *)
(* common values that party had drawn by then: what it is masked with.      *)
Packet == [msg : Messages, k : Nat, from : Roles, stamp : Nat]
Stamped(unit, p, stamp) ==
    [msg |-> unit.msg, k |-> unit.k, from |-> p, stamp |-> stamp]

(* The calls that can occur, and the code of the three parties for each.    *)
Calls == UNION {{s.calls[k] : k \in 1..Len(s.calls)} : s \in Settings}
             \cup {ACall("CORE_END", 0)}
CodeTable ==
    {[call |-> c, code |-> <<Code(P1, c), Code(P2, c), Body(HELPER, c)>>] : c \in Calls}
CodeOf(p, c) == (CHOOSE entry \in CodeTable : entry.call = c).code[p + 1]

(* The blocks of the call p is in. *)
BlocksOf(p) == CodeOf(p, call[p])
Transfers(p) == IF at[p] = 0 THEN <<>> ELSE BlocksOf(p)[at[p]].transfers

-----------------------------------------------------------------------------
Init ==
    /\ \E s \in Settings : capacity = s.capacity /\ calls = s.calls
    /\ pc = [p \in Roles |-> IF p = HELPER THEN "command" ELSE "call"]
    /\ begun = [p \in Roles |-> 0]
    /\ call = [p \in Roles |-> ACall("CORE_END", 0)]
    /\ at = [p \in Roles |-> 0]
    /\ moved = [p \in Roles |-> <<>>]
    /\ buf = [p \in Roles |-> [b \in {1, 2} |-> <<>>]]
    /\ drawn = [p \in Roles |-> 0]
    /\ chan = [p \in Roles |-> [q \in Roles |-> <<>>]]

-----------------------------------------------------------------------------
(* Threads. *)

(* What p's buffers hold when the messages to send have been encoded. *)
Encoded(p, transfers, stamp) ==
    [b \in {1, 2} |->
        LET out == {i \in 1..Len(transfers) :
                        transfers[i].dir = "send" /\ transfers[i].buf = b}
        IN  IF out = {} THEN buf[p][b]
            ELSE LET units == transfers[CHOOSE i \in out : TRUE].units
                 IN  [k \in 1..Len(units) |-> Stamped(units[k], p, stamp)]]

(* Units the i-th thread of p's block still has to move. *)
Left(p, i) == Len(Transfers(p)[i].units) - moved[p][i]
Joined(p) == \A i \in 1..Len(Transfers(p)) : Left(p, i) = 0

(* Rcv's loop goes on. *)
MutantReading(p, i) == Left(p, i) >= 0
Reading(p, i) == Left(p, i) > 0

(* The socket from p to q takes another unit. *)
Room(p, q) == Len(chan[p][q]) < capacity

(* One write of Snd's loop. *)
SendUnit(p, i) ==
    LET t == Transfers(p)[i]
        k == moved[p][i] + 1
    IN  /\ pc[p] = "run"
        /\ t.dir = "send"
        /\ Left(p, i) > 0
        /\ Room(p, t.peer)
        /\ chan' = [chan EXCEPT ![p][t.peer] = Append(@, buf[p][t.buf][k])]
        /\ moved' = [moved EXCEPT ![p][i] = k]
        /\ UNCHANGED <<capacity, calls, pc, begun, call, at, buf, drawn>>

(* One read of Rcv's loop: the unit lands in the buffer. *)
ReceiveUnit(p, i) ==
    LET t == Transfers(p)[i]
        k == moved[p][i] + 1
    IN  /\ pc[p] = "run"
        /\ t.dir = "receive"
        /\ Reading(p, i)
        /\ chan[t.peer][p] # <<>>
        /\ chan' = [chan EXCEPT ![t.peer][p] = Tail(@)]
        /\ buf' = [buf EXCEPT ![p][t.buf] =
                      [n \in DOMAIN @ \cup {k} |->
                          IF n = k THEN Head(chan[t.peer][p]) ELSE @[n]]]
        /\ moved' = [moved EXCEPT ![p][i] = k]
        /\ UNCHANGED <<capacity, calls, pc, begun, call, at, drawn>>

(* All threads are joined: the next block draws, encodes and starts its     *)
(* threads.                                                                 *)
NextBlock(p) ==
    /\ pc[p] = "run"
    /\ Joined(p)
    /\ at[p] < Len(BlocksOf(p))
    /\ LET block == BlocksOf(p)[at[p] + 1]
           stamp == drawn[p] + block.draws
       IN  /\ at' = [at EXCEPT ![p] = @ + 1]
           /\ drawn' = [drawn EXCEPT ![p] = stamp]
           /\ moved' = [moved EXCEPT ![p] = [i \in 1..Len(block.transfers) |-> 0]]
           /\ buf' = [buf EXCEPT ![p] = Encoded(p, block.transfers, stamp)]
    /\ UNCHANGED <<capacity, calls, pc, begun, call, chan>>

-----------------------------------------------------------------------------
(* Proxies. *)

Start(p, c) ==
    /\ pc' = [pc EXCEPT ![p] = "run"]
    /\ begun' = [begun EXCEPT ![p] = @ + 1]
    /\ call' = [call EXCEPT ![p] = c]
    /\ at' = [at EXCEPT ![p] = 0]
    /\ moved' = [moved EXCEPT ![p] = <<>>]

BeginCall(p) ==
    /\ pc[p] = "call"
    /\ begun[p] < Len(calls)
    /\ Start(p, calls[begun[p] + 1])
    /\ UNCHANGED <<capacity, calls, buf, drawn, chan>>

(* The call returns: to the program, or to the helper's loop. *)
ReturnFrom(p) ==
    /\ pc[p] = "run"
    /\ Joined(p)
    /\ at[p] = Len(BlocksOf(p))
    /\ pc' = [pc EXCEPT ![p] = IF p = HELPER THEN "command" ELSE "call"]
    /\ UNCHANGED <<capacity, calls, begun, call, chan>>
    /\ UNCHANGED blockVars

(* The program is over. *)
Exit(p) ==
    /\ pc[p] = "call"
    /\ begun[p] = Len(calls)
    /\ pc' = [pc EXCEPT ![p] = "exit"]
    /\ UNCHANGED <<capacity, calls, begun, call, chan>>
    /\ UNCHANGED blockVars

-----------------------------------------------------------------------------
(* The helper's command loop. *)

(* What P1's socket has for the helper. *)
Incoming == chan[P1][HELPER]

TakeIncoming ==
    /\ Incoming # <<>>
    /\ chan' = [chan EXCEPT ![P1][HELPER] = Tail(@)]
    /\ buf' = [buf EXCEPT ![HELPER][1] =
                  [n \in DOMAIN @ \cup {1} |->
                      IF n = 1 THEN Head(Incoming) ELSE @[n]]]

(* ReadByte, and the switch as far as it reads no size.  A byte that is no  *)
(* operation matches no case: the loop reads the next one.                  *)
ReadByte ==
    /\ pc[HELPER] = "command"
    /\ TakeIncoming
    /\ LET op == Head(Incoming).msg
       IN  IF op \in ScalarOps
           THEN Start(HELPER, ACall(op, 0))
           ELSE /\ pc' = [pc EXCEPT ![HELPER] =
                             CASE op \in SizedOps -> "size"
                               [] op = "CORE_END" -> "exit"
                               [] OTHER           -> "command"]
                /\ call' = [call EXCEPT ![HELPER] =
                               IF op \in SizedOps THEN ACall(op, 0) ELSE @]
                /\ UNCHANGED <<begun, at, moved>>
    /\ UNCHANGED <<capacity, calls, drawn>>

(* ReadInt, and the call with that size. *)
ReadInt ==
    /\ pc[HELPER] = "size"
    /\ TakeIncoming
    /\ Start(HELPER, ACall(call[HELPER].op, Head(Incoming).k))
    /\ UNCHANGED <<capacity, calls, drawn>>

-----------------------------------------------------------------------------
Terminated == \A p \in Roles : pc[p] = "exit"
Done == Terminated /\ UNCHANGED vars

Thread(p, i) == i \in 1..Len(moved[p]) /\ (SendUnit(p, i) \/ ReceiveUnit(p, i))
Main(p) == NextBlock(p) \/ ReturnFrom(p)
               \/ (p \in Proxies /\ (BeginCall(p) \/ Exit(p)))
               \/ (p = HELPER /\ (ReadByte \/ ReadInt))

Next == (\E p \in Roles : Main(p) \/ \E i \in {1, 2} : Thread(p, i)) \/ Done

(* The scheduler runs every thread that is not blocked. *)
Fairness == \A p \in Roles :
                WF_vars(Main(p)) /\ \A i \in {1, 2} : WF_vars(Thread(p, i))

Spec == Init /\ [][Next]_vars
FairSpec == Spec /\ Fairness

-----------------------------------------------------------------------------
(* Properties. *)

(* A thread moves no more than its transfer has and a socket holds no more  *)
(* than it can.                                                             *)
TypeOK ==
    /\ [capacity |-> capacity, calls |-> calls] \in Settings
    /\ pc \in [Roles -> {"call", "command", "size", "run", "exit"}]
    /\ begun \in [Roles -> 0..Len(calls)]
    /\ DOMAIN call = Roles
    /\ \A p \in Roles : call[p].op \in Commands \cup {"REC"} /\ call[p].n \in Nat
    /\ DOMAIN at = Roles
    /\ \A p \in Roles : pc[p] = "run" =>
          /\ at[p] \in 0..Len(BlocksOf(p))
          /\ DOMAIN moved[p] = 1..Len(Transfers(p))
          /\ \A i \in DOMAIN moved[p] :
                 moved[p][i] \in 0..Len(Transfers(p)[i].units)
    /\ drawn \in [Roles -> Nat]
    /\ \A p, q \in Roles : chan[p][q] \in Seq(Packet) /\ Len(chan[p][q]) <= capacity

(* Framing: whatever a Rcv, ReadByte or ReadInt takes next from its socket  *)
(* is the very field the code at that place decodes.  A lost, extra or      *)
(* swapped message anywhere, or a buffer overwritten while it is being      *)
(* sent, shows here as a field read as another one.                         *)
FramesAgree ==
    /\ \A p \in Roles : pc[p] = "run" =>
          \A i \in 1..Len(Transfers(p)) :
             LET t == Transfers(p)[i]
             IN  (t.dir = "receive" /\ Left(p, i) > 0 /\ chan[t.peer][p] # <<>>) =>
                    LET next == Head(chan[t.peer][p])
                    IN  /\ next.from = t.peer
                        /\ [msg |-> next.msg, k |-> next.k] = t.units[moved[p][i] + 1]
    /\ (pc[HELPER] = "command" /\ Incoming # <<>>) => Head(Incoming).msg \in Commands
    /\ (pc[HELPER] = "size" /\ Incoming # <<>>) => Head(Incoming).msg = "size"

(* The common stream: when a party has two messages side by side in its     *)
(* buffers (the proxies' messages at the helper, its own and the other      *)
(* proxy's shares in REC), both were computed at the same place of the      *)
(* proxies' common random stream; otherwise masks would not cancel.         *)
MasksAgree ==
    \A p \in Roles :
        (pc[p] = "run" /\ Joined(p) /\ Len(Transfers(p)) = 2) =>
            \A k \in 1..Len(Transfers(p)[1].units) :
                buf[p][1][k].stamp = buf[p][2][k].stamp

(* No message is left over: when all three programs have ended, every unit  *)
(* sent has been read.                                                      *)
Drained == Terminated => \A p, q \in Roles : chan[p][q] = <<>>

(* The session ends: no cycle of parties waits for room in, or units from,  *)
(* each other's sockets.                                                    *)
Termination == <>Terminated
=============================================================================
