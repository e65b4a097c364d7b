----------------------------- MODULE MCTDesktop -----------------------------
(* Small instances of TDesktop for TLC.                                    *)
EXTENDS TDesktopVault, TLC

\* Users and random keys are interchangeable.
Symmetry == Permutations(Users) \cup Permutations(RandomKeys)

\* Account lists left by other programs.
NoLists    == {}
DenseLists == {<<0>>, <<0, 1>>, <<0, 1, 2>>}
GapLists   == {<<1>>, <<0, 1, 2>>, <<0, 5>>}
=============================================================================
