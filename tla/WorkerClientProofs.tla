------------------------ MODULE WorkerClientProofs ------------------------
(***************************************************************************)
(* Theorems about WorkerClient, for any number of progress events and with *)
(* or without a process that keeps the pipes of a dead worker.             *)
(***************************************************************************)
EXTENDS WorkerClient, TLAPS

(***************************************************************************)
(* NoOrphan is not inductive: that the client only ends while the worker   *)
(* is dead or was never started needs what each place of the client says   *)
(* of the worker.  The other parts say why an end has its cause.           *)
(***************************************************************************)
Places ==
    /\ client = "idle" => worker = "absent"
    /\ worker = "absent" => client \in {"idle", "done"}
    /\ NoOrphan

Causes ==
    /\ client \in {"terminating", "killing"} => cancel
    /\ client = "overdue" => late \/ cancel

Reports ==
    /\ worker # "dead" => out = "none"
    /\ worker = "absent" => reported = 0
    /\ outcome = "pending" => delivered = 0

CallInv == TypeOK /\ Places /\ Causes /\ Reports

-----------------------------------------------------------------------------
\* An answer is a result only if the worker wrote one (_parse_result).
LEMMA OutcomeTruthful ==
    ASSUME TypeOK
    PROVE  /\ Outcome \in {"completed"} \cup Error
           /\ Outcome = "completed" => out = "result"
BY DEF TypeOK, Outcome, Error, EXIT

\* The invariant holds at the start.
LEMMA CallInvInit == Init => CallInv
<1> SUFFICES ASSUME Init PROVE CallInv
  OBVIOUS
<1>1. EXIT.completed = 0 /\ 0 \in 0..MaxProgress /\ 0 \in 0..0
  BY MaxProgressAssumption DEF EXIT
<1>2. cancel \in BOOLEAN /\ late \in BOOLEAN /\ polluted \in BOOLEAN /\ heir \in BOOLEAN
  BY DEF Init
<1>3. TypeOK
  BY <1>1, <1>2 DEF Init, TypeOK
<1>4. QED
  BY <1>3 DEF Init, CallInv, Places, Causes, Reports, NoOrphan

\* Steps of the thread that runs the job.
LEMMA ThreadKeepsInv ==
    ASSUME CallInv, Thread
    PROVE  CallInv'
<1> USE DEF CallInv, TypeOK, Places, Causes, Reports, NoOrphan, Alive, Error, EXIT,
            ends, work, call, Client, Ends, Send, PipesClosed, Dead
<1>1. CASE Start
  BY <1>1 DEF Start
<1>2. CASE StartFailed
  BY <1>2 DEF StartFailed
<1>3. CASE Terminate
  BY <1>3 DEF Terminate, CancelSeen
<1>4. CASE Expire
  BY <1>4 DEF Expire
<1>5. CASE Wait
  BY <1>5 DEF Wait
<1>6. CASE StillRunning
  BY <1>6 DEF StillRunning
<1>7. CASE Answered
  <2>1. Outcome \in {"completed"} \cup Error
    BY OutcomeTruthful
  <2>2. QED
    BY <1>7, <2>1 DEF Answered, collect_progress
<1>8. CASE Cancelled
  BY <1>8 DEF Cancelled, collect_progress
<1>9. CASE Kill
  BY <1>9 DEF Kill
<1>10. CASE StillHeld
  BY <1>10 DEF StillHeld
<1>11. CASE RaiseTimeout
  BY <1>11 DEF RaiseTimeout
<1>12. QED
  BY <1>1, <1>2, <1>3, <1>4, <1>5, <1>6, <1>7, <1>8, <1>9, <1>10, <1>11 DEF Thread

\* Steps of the worker process.
LEMMA ProcessKeepsInv ==
    ASSUME CallInv, Process
    PROVE  CallInv'
<1> USE MaxProgressAssumption, HeirsAssumption
    DEF CallInv, TypeOK, Places, Causes, Reports, NoOrphan, Alive, Error, EXIT,
            ends, call, Worker, Exit
<1>1. CASE ParseRequest
  BY <1>1 DEF ParseRequest
<1>2. CASE RejectRequest
  BY <1>2 DEF RejectRequest
<1>3. CASE Prepare
  BY <1>3 DEF Prepare
<1>4. CASE PrepareFailed
  <2>1. PICK e \in Error, started \in {FALSE, Heirs} :
            Worker("dead") /\ out' = e /\ code' = EXIT.failed /\ heir' = started
    BY <1>4 DEF PrepareFailed
  <2>2. heir' \in BOOLEAN
    BY <2>1
  <2>3. QED
    BY <1>4, <2>1, <2>2 DEF PrepareFailed
<1>5. CASE Progress
  BY <1>5 DEF Progress
<1>6. CASE \E to \in {"closing", "closing_failed"} : RenderEnds(to)
  BY <1>6 DEF RenderEnds
<1>7. CASE CloseAdapter
  BY <1>7 DEF CloseAdapter
<1>8. CASE CloseFails
  BY <1>8 DEF CloseFails
<1>9. CASE WriteResult
  BY <1>9 DEF WriteResult
<1>10. CASE Pollute
  BY <1>10 DEF Pollute
<1>11. CASE Crash
  BY <1>11 DEF Crash
<1>12. QED
  BY <1>1, <1>2, <1>3, <1>4, <1>5, <1>6, <1>7, <1>8, <1>9, <1>10, <1>11 DEF Process

\* Every step of the client, the worker or its heirs keeps it.
LEMMA StepKeepsInv ==
    ASSUME CallInv, [Next]_vars
    PROVE  CallInv'
<1>1. CASE Thread
  BY <1>1, ThreadKeepsInv
<1>2. CASE Process
  BY <1>2, ProcessKeepsInv
<1>3. CASE HeirExits
  <2>1. heir' \in BOOLEAN /\ UNCHANGED <<ends, call, worker, signal, code, out, polluted, reported>>
    BY <1>3 DEF HeirExits
  <2>2. QED
    BY <2>1 DEF CallInv, TypeOK, Places, Causes, Reports, NoOrphan, Alive, ends, call
<1>4. CASE RequestCancel \/ DeadlinePasses
  <2>1. cancel' \in BOOLEAN /\ late' \in BOOLEAN /\ (cancel => cancel') /\ (late => late')
    BY <1>4 DEF RequestCancel, DeadlinePasses, CallInv, TypeOK
  <2>2. UNCHANGED <<work, call>>
    BY <1>4 DEF RequestCancel, DeadlinePasses
  <2>3. QED
    BY <2>1, <2>2
    DEF CallInv, TypeOK, Places, Causes, Reports, NoOrphan, Alive, work, call
<1>5. CASE UNCHANGED vars
  BY <1>5 DEF vars, CallInv, TypeOK, Places, Causes, Reports, NoOrphan, Alive,
              ends, work, call
<1>6. QED
  BY <1>1, <1>2, <1>3, <1>4, <1>5 DEF Next, Done

\* It holds always: where the client stands says what the worker can be.
THEOREM CallInvariant == Spec => []CallInv
BY CallInvInit, StepKeepsInv, PTL DEF Spec

(***************************************************************************)
(* Every reachable state is well typed, and no call passes on more progress*)
(* than the worker has reported (_collect_progress).                       *)
(***************************************************************************)
THEOREM WellTyped == Spec => []TypeOK
<1>1. CallInv => TypeOK
  BY DEF CallInv
<1>2. QED
  BY <1>1, CallInvariant, PTL

(***************************************************************************)
(* No call leaves a worker behind, whichever of its exits it takes         *)
(* (run_worker, _communicate).                                             *)
(***************************************************************************)
THEOREM NoWorkerLeft == Spec => []NoOrphan
<1>1. CallInv => NoOrphan
  BY DEF CallInv, Places
<1>2. QED
  BY <1>1, CallInvariant, PTL

-----------------------------------------------------------------------------
\* What an end of the client is in WorkerCall.
LEMMA ThreadRefines ==
    ASSUME CallInv, Thread
    PROVE  [Abstract!Next]_(Abstract!vars)
<1> USE DEF CallInv, TypeOK, Reports, Causes, ends, work, call,
            Abstract!Next, Abstract!vars, Abstract!End
<1>1. CASE Start \/ Terminate \/ Expire \/ Wait \/ StillRunning \/ Kill \/ StillHeld
  BY <1>1 DEF Start, Terminate, Expire, Wait, StillRunning, Kill, StillHeld, Client, Send
<1>2. CASE StartFailed
  BY <1>2 DEF StartFailed, Ends, Places
<1>3. CASE Answered
  <2>1. /\ Outcome \in {"completed"} \cup Error
        /\ Outcome = "completed" => out = "result"
    BY OutcomeTruthful
  <2>2. /\ outcome = "pending" /\ outcome' = Outcome /\ delivered' = reported
        /\ UNCHANGED <<cancel, late, out, reported>>
    BY <1>3 DEF Answered, Ends, collect_progress
  <2>3. QED
    BY <2>1, <2>2 DEF Error
<1>4. CASE Cancelled
  BY <1>4 DEF Cancelled, Ends, collect_progress
<1>5. CASE RaiseTimeout
  BY <1>5 DEF RaiseTimeout, Ends
<1>6. QED
  BY <1>1, <1>2, <1>3, <1>4, <1>5 DEF Thread

\* A step of the worker reports progress, produces the result, or is not seen.
LEMMA ProcessRefines ==
    ASSUME CallInv, Process
    PROVE  [Abstract!Next]_(Abstract!vars)
<1> USE DEF CallInv, Reports, Error, ends, call, Worker, Exit,
            Abstract!Next, Abstract!vars, Abstract!Produce, Abstract!Report
<1>1. CASE WriteResult
  BY <1>1 DEF WriteResult
<1>2. CASE Progress
  BY <1>2 DEF Progress
<1>3. CASE ParseRequest \/ Prepare \/ Pollute \/ Crash
  BY <1>3 DEF ParseRequest, Prepare, Pollute, Crash
<1>4. CASE RejectRequest \/ PrepareFailed \/ CloseFails
  BY <1>4 DEF RejectRequest, PrepareFailed, CloseFails
<1>5. CASE CloseAdapter
  BY <1>5 DEF CloseAdapter
<1>6. CASE \E to \in {"closing", "closing_failed"} : RenderEnds(to)
  BY <1>6 DEF RenderEnds
<1>7. QED
  BY <1>1, <1>2, <1>3, <1>4, <1>5, <1>6 DEF Process

(***************************************************************************)
(* run_worker implements WorkerCall: one outcome, with its cause and the   *)
(* progress that belongs to it, for any interleaving of client, worker,    *)
(* signals and pipes.                                                      *)
(***************************************************************************)
THEOREM ImplementsCall == Spec => CallSpec
<1>1. Init => Abstract!Init
  BY DEF Init, Abstract!Init
<1>2. ASSUME CallInv, [Next]_vars PROVE [Abstract!Next]_(Abstract!vars)
  <2>1. CASE Thread
    BY <1>2, <2>1, ThreadRefines
  <2>2. CASE Process
    BY <1>2, <2>2, ProcessRefines
  <2>3. CASE HeirExits
    BY <2>3 DEF HeirExits, ends, call, Abstract!vars
  <2>4. CASE RequestCancel
    BY <2>4 DEF RequestCancel, work, call, Abstract!Next, Abstract!Ask
  <2>5. CASE DeadlinePasses
    BY <2>5 DEF DeadlinePasses, work, call, Abstract!Next, Abstract!Expire
  <2>6. CASE UNCHANGED vars
    BY <2>6 DEF vars, ends, work, call, Abstract!vars
  <2>7. QED
    BY <1>2, <2>1, <2>2, <2>3, <2>4, <2>5, <2>6 DEF Next, Done
<1>3. QED
  BY <1>1, <1>2, CallInvariant, PTL DEF Spec, CallSpec, Abstract!Spec
=============================================================================
