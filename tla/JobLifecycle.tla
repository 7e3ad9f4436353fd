---------------------------- MODULE JobLifecycle ----------------------------
(***************************************************************************)
(* What the persisted record of a job promises to whoever reads it when    *)
(* the processes that touch it take turns: docs/architecture.md, section   *)
(* 10, with the attempt count of ADR-025 and the conservative recovery of  *)
(* ADR-024.  JobRunner implements it.                                      *)
(***************************************************************************)
EXTENDS Naturals

CONSTANT MaxAttempts
VARIABLES status, attempts

vars == <<status, attempts>>

Active == {"running", "retry_pending"}

Init == status = "discovered" /\ attempts = 0

\* An attempt continues the count of the attempts before it ...
Resume ==
    /\ status \in {"discovered", "failed", "retry_pending", "cancelled"}
    /\ attempts < MaxAttempts
    /\ status' = "running" /\ attempts' = attempts + 1

\* ... unless someone forces the job, which is not done to an active one.
Restart ==
    /\ status \notin Active
    /\ status' = "running" /\ attempts' = 1

\* An attempt ends in one of three ways, and an active job whose runner died
\* ends in the first of them.
End ==
    /\ \/ status \in Active /\ status' = "failed"
       \/ status = "running" /\ status' \in {"completed", "cancelled"}
    /\ UNCHANGED attempts

\* The sidecar drops a run it cancelled in its queue, whatever the record says
\* of the runs before it.
Drop ==
    /\ status \notin Active
    /\ status' = "cancelled"
    /\ UNCHANGED attempts

Postpone ==
    /\ status = "failed" /\ attempts < MaxAttempts
    /\ status' = "retry_pending"
    /\ UNCHANGED attempts

\* A completed job whose artifacts are not intact starts from the beginning.
Invalidate ==
    /\ status = "completed"
    /\ status' = "discovered" /\ attempts' = 0

Next == Resume \/ Restart \/ End \/ Drop \/ Postpone \/ Invalidate

Spec == Init /\ [][Next]_vars
=============================================================================
