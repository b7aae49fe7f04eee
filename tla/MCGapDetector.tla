---------------------------- MODULE MCGapDetector ----------------------------
(***************************************************************************)
(* A gap detector and five sequence numbers, for TLC.                      *)
(***************************************************************************)
EXTENDS GapDetector
=============================================================================
