----------------------------- MODULE AdminAuthMC -----------------------------
(* Instances of AdminAuth for TLC.                                         *)
EXTENDS AdminAuth, TLC

\* Channels, requests and bodies are interchangeable.
Symmetry ==
    Permutations(Channels) \cup Permutations(Requests) \cup Permutations(Bodies)
=============================================================================
