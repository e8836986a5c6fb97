------------------------------ MODULE Lockstep ------------------------------
(***************************************************************************)
(* What the messages of a session promise, without the messages: three      *)
(* parties go through the same script of commands one by one.  The helper   *)
(* begins a command only when P1, who names it, has begun it, and serves    *)
(* exactly that command; and a party leaves a command only when the other   *)
(* two are in it or past it.  Two commands ask less of the one who leaves:  *)
(* CORE_END has no messages, and the helper's scalar multiplication, which  *)
(* nobody acknowledges, may leave its triples in the sockets.               *)
(***************************************************************************)
EXTENDS Integers, Sequences

CONSTANT Commands   \* the operations the helper knows

P1 == 0
P2 == 1
HELPER == 2
Parties == {P1, P2, HELPER}

VARIABLES
    script, \* the commands of the session: [op, n]
    begun,  \* begun[p]: commands p has begun
    ended,  \* ended[p]: commands p has ended
    served  \* the command the helper is serving, None between two commands

vars == <<script, begun, ended, served>>

Nothing == [op |-> "none", n |-> 0]

(* CORE_END is the last command and no other. *)
IsScript(s) ==
    /\ s \in Seq([op : Commands, n : Nat])
    /\ s # <<>>
    /\ \A m \in 1..Len(s) : (s[m].op = "CORE_END") = (m = Len(s))

Init ==
    /\ IsScript(script)
    /\ begun = [p \in Parties |-> 0]
    /\ ended = [p \in Parties |-> 0]
    /\ served = Nothing

-----------------------------------------------------------------------------
(* The command p is to begin has been named. *)
Named(p) ==
    /\ begun[p] = ended[p]
    /\ begun[p] < Len(script)
    /\ p = HELPER => begun[p] < begun[P1]

(* The helper's CORE_END is no call: its loop is over. *)
Stops(p) == p = HELPER /\ script[begun[p] + 1].op = "CORE_END"

Begin(p) ==
    /\ Named(p)
    /\ ~Stops(p)
    /\ begun' = [begun EXCEPT ![p] = @ + 1]
    /\ served' = IF p = HELPER THEN script[begun[p] + 1] ELSE served
    /\ UNCHANGED <<script, ended>>

Stop(p) ==
    /\ Named(p)
    /\ Stops(p)
    /\ begun' = [begun EXCEPT ![p] = @ + 1]
    /\ ended' = [ended EXCEPT ![p] = @ + 1]
    /\ UNCHANGED <<script, served>>

(* The commands p cannot leave alone. *)
Waits(p, c) == c.op # "CORE_END" /\ ~(p = HELPER /\ c.op = "CORE_MUL")

Complete(p) ==
    /\ ended[p] < begun[p]
    /\ Waits(p, script[begun[p]]) => \A q \in Parties : begun[p] <= begun[q]

End(p) ==
    /\ Complete(p)
    /\ ended' = [ended EXCEPT ![p] = begun[p]]
    /\ served' = IF p = HELPER THEN Nothing ELSE served
    /\ UNCHANGED <<script, begun>>

Next == \E p \in Parties : Begin(p) \/ Stop(p) \/ End(p)

Spec == Init /\ [][Next]_vars

-----------------------------------------------------------------------------
(* Properties. *)

TypeOK ==
    /\ IsScript(script)
    /\ begun \in [Parties -> 0..Len(script)]
    /\ ended \in [Parties -> 0..Len(script)]
    /\ \A p \in Parties : begun[p] \in {ended[p], ended[p] + 1}

(* No party is ever more than one command ahead of another, whatever the    *)
(* commands are: what one party has sent of a command can meet only the     *)
(* messages of the command before.                                          *)
Adjacent == \A p, q \in Parties : begun[p] <= begun[q] + 1

(* While the helper serves, it serves the command in its place of the       *)
(* script, and P1 is in it or past it.                                      *)
ServesTheScript ==
    ended[HELPER] < begun[HELPER] =>
        /\ served = script[begun[HELPER]]
        /\ begun[HELPER] <= begun[P1]

(* The rules alone block nobody for good: until all three have ended the    *)
(* script, some party can begin, stop or leave a command.                   *)
NeverStuck ==
    \/ \A p \in Parties : ended[p] = Len(script)
    \/ \E p \in Parties : Named(p) \/ Complete(p)
=============================================================================
