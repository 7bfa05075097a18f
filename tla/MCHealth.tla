------------------------------ MODULE MCHealth ------------------------------
(* A small instance of Health for TLC.                                     *)
EXTENDS Health

TwoFiles == 1..2
=============================================================================
