-------------------------- MODULE MCAttemptExecution -------------------------
(* Small instances of AttemptExecution for TLC. *)
EXTENDS AttemptExecution, TLC

CONSTANTS w1, w2

WorkerSymmetry == Permutations({w1, w2})
=============================================================================
