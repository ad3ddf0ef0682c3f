---------------------------- MODULE MCSecureMem ----------------------------
(***************************************************************************)
(* An instance of SecureMem for TLC: two vaults, three pages of which      *)
(* two can be locked.                                                      *)
(***************************************************************************)
EXTENDS SecureMem, TLC

Symmetry == Permutations(Vault)
=============================================================================
