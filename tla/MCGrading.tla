----------------------------- MODULE MCGrading ----------------------------
(***************************************************************************)
(* Grading for TLC.                                                        *)
(***************************************************************************)
EXTENDS Grading

CONSTANTS w1, w2, w3
===========================================================================
