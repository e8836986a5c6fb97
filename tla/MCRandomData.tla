---------------------------- MODULE MCRandomData ----------------------------
(***************************************************************************)
(* Sizes and memories for TLC.                                              *)
(***************************************************************************)
EXTENDS RandomData

MCSizes == {<<3, 2>>, <<2, 3>>, <<3, 3>>, <<1, 1, 2>>, <<3>>}

(* Untouched pages, and something left over from an earlier call. *)
MCMemory == {Zero, [k \in Slots |-> (2 * k + 1) % 3]}
MCZero == {Zero}
=============================================================================
