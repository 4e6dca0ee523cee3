-------------------------- MODULE RefreshEngineMC --------------------------
(* Small instances of RefreshEngine for TLC.                               *)
EXTENDS RefreshEngine, TLC

\* Calls and processes are interchangeable.
Symmetry == Permutations(Requests) \cup Permutations(Daemons)
=============================================================================
