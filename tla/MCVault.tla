------------------------------ MODULE MCVault ------------------------------
(***************************************************************************)
(* Instances of Vault for TLC.                                             *)
(***************************************************************************)
EXTENDS Vault, TLC

Symmetry == Permutations(Proc) \cup Permutations(Id)
=============================================================================
