----------------------------- MODULE MCJobQueue -----------------------------
(* JobQueue on small instances. *)
EXTENDS JobQueueInvariant, TLC

WorkerSymmetry == Permutations(Workers)
=============================================================================
