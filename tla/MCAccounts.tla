----------------------------- MODULE MCAccounts -----------------------------
(* Accounts on a small instance. *)
EXTENDS Accounts, TLC

ProcSymmetry == Permutations(Procs)
=============================================================================
