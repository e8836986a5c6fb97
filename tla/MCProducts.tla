----------------------------- MODULE MCProducts -----------------------------
(***************************************************************************)
(* Operands of both signs, whole and fractional, for TLC.                   *)
(***************************************************************************)
EXTENDS Products

MCOperands == {-3, 0, 2, 4}

(* Denominators are whole numbers, 0 to 3; numerators need not be. *)
MCRatios == {q \in [x : 0..12, y : {0, 4, 8, 12}] : q.x <= q.y}
=============================================================================
