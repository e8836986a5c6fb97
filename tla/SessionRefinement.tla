------------------------- MODULE SessionRefinement -------------------------
(***************************************************************************)
(* The session with its threads, sockets and buffers implements the three   *)
(* parties in lock step of module Lockstep.  A proxy's openings are no      *)
(* commands; a call returns to the program when its blocks are over.        *)
(***************************************************************************)
EXTENDS Session

(* A building block is called for one element or more: SORT's loop runs as  *)
(* long as both lists have a sample, and the products and comparisons of a  *)
(* metric are for one sample or for all of them.  With no element a block   *)
(* has no messages and nobody waits.  The metric of no sample at all is not *)
(* excluded: its division has messages.                                     *)
Metrics == {"AUC_ROCNOTIE", "AUC_ROCWITHTIE", "AUC_PR"}
ASSUME SizesAssumption ==
    \A s \in Settings : \A k \in 1..Len(s.calls) :
        s.calls[k].op \in SizedOps \ Metrics => s.calls[k].n # 0

(* The commands among the first k of a sequence of calls, and of this one's *)
(* first n.                                                                 *)
IsCommand(c) == c.op \in Commands
CommandsAmong(cs) ==
    LET among[k \in 0..Len(cs)] ==
            IF k = 0 THEN <<>>
            ELSE IF IsCommand(cs[k]) THEN Append(among[k - 1], cs[k])
            ELSE among[k - 1]
    IN  among
CommandCalls == CommandsAmong(calls)[Len(calls)]
CommandsIn(n) == Len(CommandsAmong(calls)[n])

(* The helper's loop counts no call for CORE_END. *)
BegunCommands ==
    [p \in Roles |->
        IF p \in Proxies    THEN CommandsIn(begun[p])
        ELSE IF pc[p] = "exit" THEN begun[p] + 1 ELSE begun[p]]

EndedCommands ==
    [p \in Roles |->
        IF pc[p] # "run"    THEN BegunCommands[p]
        ELSE IF p = HELPER  THEN begun[p] - 1
        ELSE CommandsIn(begun[p] - 1)]

Served == IF pc[HELPER] = "run" THEN call[HELPER] ELSE [op |-> "none", n |-> 0]

Abstract == INSTANCE Lockstep WITH
    script <- CommandCalls,
    begun  <- BegunCommands,
    ended  <- EndedCommands,
    served <- Served

(* The session implements Lockstep: through the sockets, with one socket    *)
(* per pair of parties and no tag on any message, the helper serves the     *)
(* very command the proxies are in, with its size, and nobody leaves a      *)
(* command the others have not reached.                                     *)
ImplementsLockstep == Abstract!Spec
=============================================================================
