------------------------------ MODULE MCSampler ------------------------------
(* Instances of Sampler for TLC. *)
EXTENDS Sampler, TLC

\* Any set of the workers that are left may be started.
WorkerSymmetry == Permutations(Workers)
===============================================================================
