---------------------------- MODULE ScopedWatchMC ----------------------------
(* Instances of ScopedWatch for TLC.                                       *)
EXTENDS ScopedWatch, TLC

Digests == {"a", "b", "c"}
TwoDigests == {"a", "b"}

\* Any commit may bring about any digest, an earlier one too.
AnyChange == Digests \X Digests
ForwardTwo == {<<"a", "a">>, <<"b", "b">>, <<"a", "b">>}

\* Watches and channels are interchangeable.  Only the safety runs use it.
Symmetry == Permutations(Watches) \cup Permutations(Channels)
=============================================================================
