---------------------------- MODULE WorkerCall ----------------------------
(***************************************************************************)
(* What run_worker (backends/worker_client.py) promises to run_one: one    *)
(* outcome, which has a cause, and before it the progress of the worker,   *)
(* all of it and once, or none if the deadline has passed.  WorkerClient,  *)
(* with its processes, pipes and signals, implements it.                   *)
(***************************************************************************)
EXTENDS Naturals

VARIABLES
    asked,      \* a cancel was requested
    late,       \* the deadline has passed
    produced,   \* the worker has reported a translation
    reported,   \* how often the worker has reported progress
    delivered,  \* and how many of these reports the caller has had
    outcome     \* what the caller gets

vars == <<asked, late, produced, reported, delivered, outcome>>

Init ==
    /\ asked = FALSE /\ late = FALSE /\ produced = FALSE
    /\ reported = 0 /\ delivered = 0 /\ outcome = "pending"

Ask     == asked' = TRUE /\ UNCHANGED <<late, produced, reported, delivered, outcome>>
Expire  == late' = TRUE /\ UNCHANGED <<asked, produced, reported, delivered, outcome>>
Produce == produced' = TRUE /\ UNCHANGED <<asked, late, reported, delivered, outcome>>
Report  == reported' = reported + 1 /\ UNCHANGED <<asked, late, produced, delivered, outcome>>

End(result, cause) ==
    /\ outcome = "pending" /\ cause
    /\ outcome' = result
    /\ delivered' = IF result = "timeout" THEN 0 ELSE reported
    /\ UNCHANGED <<asked, late, produced, reported>>

\* A cancelled call may report a timeout: the waits after a cancel have limits
\* too, and they end in the same handler as the deadline.
Next ==
    \/ Ask \/ Expire \/ Produce \/ Report
    \/ End("completed", produced)
    \/ End("cancelled", asked)
    \/ End("timeout", late \/ asked)
    \/ \E e \in {"failed", "transient"} : End(e, TRUE)

Spec == Init /\ [][Next]_vars
=============================================================================
