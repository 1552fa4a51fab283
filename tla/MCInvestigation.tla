-------------------------- MODULE MCInvestigation --------------------------
(* Small instances of Investigation. *)
EXTENDS Investigation, TLC

CONSTANTS w1, w2

WorkerSymmetry == Permutations({w1, w2})
=============================================================================
