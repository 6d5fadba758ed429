------------------------------ MODULE MCWorkers ------------------------------
(* Workers on a small instance.                                            *)
EXTENDS Workers, TLC

WorkerSymmetry == Permutations(Workers)
=============================================================================
