---------------------------- MODULE MCCorrEngine ----------------------------
(***************************************************************************)
(* CorrEngine for TLC: two correlations, watched by two rids.              *)
(***************************************************************************)
EXTENDS CorrEngine, TLC

CONSTANTS r1, r2

\* r1 selects both correlations, r2 the second only.
MCWatchers == [r \in {r1, r2} |-> IF r = r1 THEN <<1, 2>> ELSE <<2>>]

\* An event that selects correlation 2 twice, and one that matched r2 alone.
MCEvents == {<<r1, r2>>, <<r2>>}

MCTimespan == [c \in {1, 2} |-> c]

\* Workers and keys are interchangeable.
Symmetric == Permutations(Workers) \cup Permutations(Keys)
=============================================================================
