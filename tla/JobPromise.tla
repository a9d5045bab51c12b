----------------------------- MODULE JobPromise -----------------------------
(***************************************************************************)
(* What the queue promises the client of a job, without workers, leases or *)
(* attempts: a job is open until it settles, it settles once, its result   *)
(* is there exactly as long as it is complete and never changes, and all   *)
(* that can happen to a settled job is that it expires.                    *)
(***************************************************************************)
EXTENDS Naturals

CONSTANT Jobs

VARIABLES
  phase,   \* what GET /api/jobs/{id} tells the client
  result   \* which result a download returns; 0 is none

Settled == {"complete", "failed", "cancelled"}

Init ==
  /\ phase = [j \in Jobs |-> "none"]
  /\ result = [j \in Jobs |-> 0]

Submit(j) ==
  /\ phase[j] = "none"
  /\ phase' = [phase EXCEPT ![j] = "open"]
  /\ UNCHANGED result

Complete(j) ==
  /\ phase[j] = "open"
  /\ phase' = [phase EXCEPT ![j] = "complete"]
  /\ result'[j] \in Nat \ {0}
  /\ result' = [result EXCEPT ![j] = result'[j]]

GiveUp(j) ==
  /\ phase[j] = "open"
  /\ \E s \in {"failed", "cancelled"} : phase' = [phase EXCEPT ![j] = s]
  /\ UNCHANGED result

Expire(j) ==
  /\ phase[j] \in Settled
  /\ phase' = [phase EXCEPT ![j] = "expired"]
  /\ result' = [result EXCEPT ![j] = 0]

Next == \E j \in Jobs : Submit(j) \/ Complete(j) \/ GiveUp(j) \/ Expire(j)

Spec == Init /\ [][Next]_<<phase, result>>
=============================================================================
