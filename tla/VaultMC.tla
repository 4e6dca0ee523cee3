------------------------------ MODULE VaultMC ------------------------------
(* Instances of Vault for TLC. *)
EXTENDS Vault, TLC

Symmetry == Permutations(Commands)
=============================================================================
