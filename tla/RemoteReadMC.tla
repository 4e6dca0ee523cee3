---------------------------- MODULE RemoteReadMC ----------------------------
(* Small instances of RemoteRead.                                          *)
EXTENDS RemoteRead, TLC

Symmetry == Permutations(Readers) \cup Permutations(Reporters)
=============================================================================
