---------------------------- MODULE MCDocuments ----------------------------
(* Documents on small instances. *)
EXTENDS DocumentsInvariant, TLC

InputSymmetry == Permutations(Docs) \cup Permutations(Keys) \cup Permutations(Contents)
=============================================================================
