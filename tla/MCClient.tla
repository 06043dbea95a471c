------------------------------- MODULE MCClient -------------------------------
(* Instances of Client for TLC. *)
EXTENDS Client, TLC

\* RunWorkers starts any set of the workers that are left.
WorkerSymmetry == Permutations(Workers)
===============================================================================
