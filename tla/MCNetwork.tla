------------------------------ MODULE MCNetwork -------------------------------
(***************************************************************************)
(* Network on small instances; devices are interchangeable.                *)
(***************************************************************************)
EXTENDS Network, TLC

Symmetry == Permutations(Devices)
=============================================================================
