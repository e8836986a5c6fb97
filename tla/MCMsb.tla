------------------------------- MODULE MCMsb -------------------------------
(***************************************************************************)
(* Blinding factors of PCB for TLC, different from bit to bit.              *)
(***************************************************************************)
EXTENDS Msb

MCFactorRows == {[t \in Bits |-> 1 + ((s * (t + 1)) % (LP - 1))] : s \in {1, 5}}
=============================================================================
