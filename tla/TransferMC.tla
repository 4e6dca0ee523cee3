----------------------------- MODULE TransferMC -----------------------------
(* Small instances of Transfer.                                            *)
EXTENDS Transfer, TLC

Symmetry == Permutations(Calls) \cup Permutations(Accepts)
=============================================================================
