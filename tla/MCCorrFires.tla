---------------------------- MODULE MCCorrFires -----------------------------
(***************************************************************************)
(* CorrFires for TLC: one correlation, interchangeable workers and keys.   *)
(***************************************************************************)
EXTENDS CorrFires, TLC

CONSTANT r1

MCWatchers == [r \in {r1} |-> <<1>>]
MCEvents == {<<r1>>}
MCTimespan == [c \in {1} |-> 2]

Symmetric == Permutations(Workers) \cup Permutations(Keys)
=============================================================================
