---------------------------- MODULE MCEmailBatch ----------------------------
(* Small instances of EmailBatch for TLC. *)
EXTENDS EmailBatch

CONSTANTS p1, p2
=============================================================================
