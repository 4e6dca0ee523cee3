--------------------------- MODULE SecretGrantsMC ---------------------------
(***************************************************************************)
(* Instances of SecretGrants for TLC.                                      *)
(***************************************************************************)
EXTENDS SecretGrants, TLC

CONSTANTS head, me, peer, u1, u2

\* Two uses of one head, and a worker of it.
MCParent == [s \in Scopes |-> IF s \in Heads \/ Heads = {} THEN None ELSE head]
MCInstalls == {Flows}
MCLife == [d \in {"once", "hour"} |-> IF d = "once" THEN 2 ELSE 3]
MCNone == [d \in {} |-> 1]
MCOnce == [d \in {"once"} |-> 2]
MCDrifts == {0}
Both == {-1, 0, 1}
CallSymmetry == Permutations(Calls)
=============================================================================
