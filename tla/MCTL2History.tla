--------------------------- MODULE MCTL2History ---------------------------
(***************************************************************************)
(* TL2History for TLC, with the threads and constants of MCTL2.            *)
(***************************************************************************)
EXTENDS TL2History, MCTL2
===========================================================================
