------------------------------- MODULE Service -------------------------------
(***************************************************************************)
(* The parts of the web service beside its queue, documents and accounts.   *)
(* They share no state: a behaviour is one of a single part, which part runs *)
(* chooses, so that their states do not multiply.                           *)
(***************************************************************************)
EXTENDS Downloads, Progress, AiCalls

VARIABLE part

vars == <<part, downloadVars, progressVars, aiVars>>

Init == part \in {"downloads", "progress", "ai"} /\ DownloadsInit /\ ProgressInit /\ AiInit

DownloadsStep == part = "downloads" /\ DownloadsNext /\ UNCHANGED <<part, progressVars, aiVars>>
ProgressStep  == part = "progress" /\ ProgressNext /\ UNCHANGED <<part, downloadVars, aiVars>>
AiStep        == part = "ai" /\ AiNext /\ UNCHANGED <<part, downloadVars, progressVars>>

Next == DownloadsStep \/ ProgressStep \/ AiStep

Spec == Init /\ [][Next]_vars

TypeOK == DownloadsTypeOK /\ ProgressTypeOK /\ AiTypeOK

(* Types, what every URL given out is signed for, how the row of a job, its      *)
(* workers, children and stream belong together, what is left in a bucket and    *)
(* still to be read of the log (the invariant of the proofs).                   *)
IInv == TypeOK /\ ProgressInv /\ AiInv

=============================================================================
