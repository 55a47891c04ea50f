------------------------------ MODULE MCBank ------------------------------
(***************************************************************************)
(* Bank for TLC.                                                           *)
(***************************************************************************)
EXTENDS Bank

CONSTANTS t1, t2, t3
===========================================================================
