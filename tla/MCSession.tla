----------------------------- MODULE MCSession -----------------------------
(***************************************************************************)
(* Settings for TLC: what the three applications do after a short SORT, and *)
(* the building blocks the helper also serves on their own.                 *)
(***************************************************************************)
EXTENDS SessionRefinement

(* SORT of two stations with one sample each, of one with two samples and   *)
(* one with three, and of one station, which is no call at all.             *)
MCSorts == {<<>>, Shuffle(1), Shuffle(2) \o Select \o Shuffle(1)}

MCApps == {CalcAuc("AUC_ROCNOTIE", 3), CalcAuc("AUC_ROCWITHTIE", 2),
           CalcAuc("AUC_PR", 2)}

(* Every command once, alone, the metrics over n samples, and products of   *)
(* several sizes before an opening that sends no command.                   *)
MCBlocks(n) ==
    {<<ACall(op, IF op \in Metrics THEN n ELSE 2), ACall("CORE_END", 0)>> : op \in SizedOps}
        \cup {<<ACall(op, 0), ACall("CORE_END", 0)>> : op \in ScalarOps}
        \cup {<<ACall("CORE_MMUL", k), ACall("REC", k), ACall("CORE_END", 0)>> :
                  k \in 1..5}

(* After a scalar product, which nobody acknowledges, the helper may be    *)
(* ahead of a proxy: every other scalar command right behind it.            *)
MCAfterMul ==
    {<<ACall("CORE_MUL", 0), ACall(op, 0), ACall("CORE_END", 0)>> : op \in ScalarOps}

(* The applications over sockets of one unit; every command also over       *)
(* sockets that take whole messages, where the metrics have one sample.     *)
MCSettings ==
    {[capacity |-> 1, calls |-> sort \o app] : sort \in MCSorts, app \in MCApps}
        \cup [capacity : {1}, calls : MCBlocks(2) \cup MCAfterMul]
        \cup [capacity : {12}, calls : MCBlocks(1) \cup MCAfterMul]
=============================================================================
