--------------------------- MODULE MCCorrScratch ----------------------------
(***************************************************************************)
(* CorrScratch for TLC.                                                    *)
(***************************************************************************)
EXTENDS CorrScratch
=============================================================================
