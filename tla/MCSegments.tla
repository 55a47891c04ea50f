---------------------------- MODULE MCSegments ----------------------------
(***************************************************************************)
(* Segments for TLC.                                                       *)
(***************************************************************************)
EXTENDS Segments

CONSTANTS t1, t2, t3
===========================================================================
