------------------------------ MODULE Sidecar ------------------------------
(***************************************************************************)
(* The GUI's sidecar process (application/sidecar.py): one thread serves   *)
(* the requests of the JSONL protocol one by one, one worker thread runs   *)
(* the jobs in the order they were submitted, and a dictionary, _running,  *)
(* says how a request reaches the run of a job.                            *)
(*                                                                         *)
(* run_one is seen from here as the status it leaves and the places where  *)
(* it looks at the cancel event; what it does to the record is JobRunner.  *)
(* worker_mode is "subprocess", the default: the in-process backend is     *)
(* never told of the event.  A worker's error is never retried there       *)
(* (classify_exception), so a run makes one attempt.                       *)
(***************************************************************************)
EXTENDS FiniteSets, SequencesExt

CONSTANTS
    Jobs,
    Handles,          \* _RunningJob objects: a name is used again when free
    NoHandle,
    NoJob,            \* the job of a handle not yet created
    DuplicateStarts   \* may a client start a job that is queued or running?

ASSUME NullsAssumption == NoHandle \notin Handles /\ NoJob \notin Jobs
ASSUME DuplicateStartsAssumption == DuplicateStarts \in BOOLEAN

VARIABLES
    registry,   \* self._running: per job, the handle requests act on
    handle,     \* the fields of each handle
    queue,      \* the executor's work queue
    current,    \* the handle the worker thread runs
    phase,      \* where the worker thread stands
    status,     \* the persisted status of each job
    open,       \* ~self._closed
    doomed      \* history: runs cancelled before their worker was waited for

vars == <<registry, handle, queue, current, phase, status, open, doomed>>

Status == {"absent", "discovered", "running", "completed", "failed", "cancelled"}
Handle == [job : Jobs \cup {NoJob}, force : BOOLEAN, cancel : BOOLEAN]

NotCreated == [job |-> NoJob, force |-> FALSE, cancel |-> FALSE]

\* A handle some part of the program still refers to.
Queued(h) == h \in ToSet(queue)
Live(h)   == Queued(h) \/ current = h
Free(h)   == ~Live(h) /\ \A j \in Jobs : registry[j] # h

-----------------------------------------------------------------------------
Init ==
    /\ registry = [j \in Jobs |-> NoHandle]
    /\ handle = [h \in Handles |-> NotCreated]
    /\ queue = <<>>
    /\ current = NoHandle
    /\ phase = "idle"
    /\ status \in [Jobs -> Status \ {"running"}]
    /\ open = TRUE
    /\ doomed = {}

(***************************************************************************)
(* Requests, served one by one until the sidecar is closed.                *)
(***************************************************************************)
\* Mutant: the run object of an earlier request is submitted again.
SubmitReused(h, j, forced) ==
    /\ open
    /\ registry' = [registry EXCEPT ![j] = h]
    /\ handle' = [handle EXCEPT ![h] = [job |-> j, force |-> forced, cancel |-> FALSE]]
    /\ queue' = Append(queue, h)
    /\ doomed' = doomed \ {h}
    /\ UNCHANGED <<current, phase, status, open>>

\* A new handle is registered and its run submitted.  The two have locks of
\* their own in the code; the worker tells them apart only by what it claims,
\* and it claims what was submitted.  Handles have no identity, so the new one
\* is one fixed choice among those that are free.
Submit(h, j, forced) ==
    /\ open /\ Free(h) /\ h = CHOOSE g \in Handles : Free(g)
    /\ registry' = [registry EXCEPT ![j] = h]
    /\ handle' = [handle EXCEPT ![h] = [job |-> j, force |-> forced, cancel |-> FALSE]]
    /\ queue' = Append(queue, h)
    /\ doomed' = doomed \ {h}
    /\ UNCHANGED <<current, phase, status, open>>

\* start_translation registers a new handle, whatever is registered; that a
\* client does not start a job twice is the client's doing.
Start(j, h, forced) ==
    /\ DuplicateStarts \/ \A g \in Handles : Live(g) => handle[g].job # j
    /\ Submit(h, j, forced)

\* Mutant: retry_job does not look whether the job is registered.
RetryUnchecked(j, h) ==
    /\ status[j] # "absent"
    /\ Submit(h, j, TRUE)

\* retry_job refuses a job that was not found and one that is registered.
Retry(j, h) ==
    /\ status[j] # "absent" /\ registry[j] = NoHandle
    /\ Submit(h, j, TRUE)

\* cancel_job sets the event of the registered handle, if there is one.
Cancel(j) ==
    /\ open /\ registry[j] # NoHandle
    /\ handle' = [handle EXCEPT ![registry[j]].cancel = TRUE]
    /\ doomed' = IF current = registry[j] /\ phase \in {"waiting", "ended"}
                   THEN doomed ELSE doomed \cup {registry[j]}
    /\ UNCHANGED <<registry, queue, current, phase, status, open>>

\* shutdown, or the end of stdin: the futures that wait are dropped, the one
\* that runs is left alone.
Close ==
    /\ open
    /\ open' = FALSE
    /\ queue' = <<>>
    /\ UNCHANGED <<registry, handle, current, phase, status, doomed>>

-----------------------------------------------------------------------------
(***************************************************************************)
(* The worker thread: _run_job.                                            *)
(***************************************************************************)
Take(next) ==
    /\ phase = "idle" /\ queue # <<>>
    /\ queue' = Tail(queue)
    /\ current' = next
    /\ UNCHANGED <<registry, handle, open, doomed>>

\* Mutant: the run submitted last is taken first.
ClaimNewest ==
    /\ phase = "idle" /\ queue # <<>> /\ ~handle[Last(queue)].cancel
    /\ queue' = Front(queue)
    /\ current' = Last(queue)
    /\ phase' = "claimed"
    /\ UNCHANGED <<registry, handle, open, doomed, status>>

Claim ==
    /\ queue # <<>> /\ ~handle[Head(queue)].cancel
    /\ Take(Head(queue))
    /\ phase' = "claimed"
    /\ UNCHANGED status

\* A job cancelled before it started: CANCELLED is saved over whatever the
\* record said, and the early return is outside the try ... finally.
DropCancelled ==
    /\ queue # <<>> /\ handle[Head(queue)].cancel
    /\ Take(NoHandle)
    /\ status' = [status EXCEPT ![handle[Head(queue)].job] = "cancelled"]
    /\ UNCHANGED phase

\* The worker thread moves on within the job it runs.
Moves(from, to, saved) ==
    /\ phase = from
    /\ phase' = to
    /\ status' = [status EXCEPT ![handle[current].job] = saved]
    /\ UNCHANGED <<registry, handle, queue, current, open, doomed>>

\* run_one returns "skipped": the artifacts of a completed job are intact.
SkipCompleted ==
    /\ phase = "claimed" /\ ~handle[current].force
    /\ status[handle[current].job] = "completed"
    /\ Moves("claimed", "ended", "completed")

\* run_one raises before it announces an attempt: the attempts of an earlier
\* run are used up, or the source cannot be read.
RaiseEarly ==
    /\ phase = "claimed"
    /\ Moves("claimed", "ended", status[handle[current].job])

\* RUNNING is saved and the worker process started ...
BeginAttempt == Moves("claimed", "spawned", "running")

\* ... or it cannot be started.
StartFails == Moves("claimed", "ended", "failed")

\* The cancel event is looked at between two waits of a quarter second: SIGTERM.
Terminate ==
    /\ phase = "spawned" /\ handle[current].cancel
    /\ Moves("spawned", "terminating", "running")

\* The worker is gone within two waits of five seconds ...
Terminated == Moves("terminating", "ended", "cancelled")

\* ... or its pipes are still held: the handler of the deadline takes over.
StillHeld == Moves("terminating", "overdue", "running")

\* Mutant: the event is not looked at.
WaitBlindly == Moves("spawned", "waiting", "running")

Wait ==
    /\ phase = "spawned" /\ ~handle[current].cancel
    /\ Moves("spawned", "waiting", "running")

StillRunning == Moves("waiting", "spawned", "running")

Complete == Moves("waiting", "ended", "completed")

Fail == Moves("waiting", "ended", "failed")

\* The deadline has passed: the worker is killed, and its pipes waited for
\* without a limit.
Expire ==
    /\ phase = "spawned" /\ ~handle[current].cancel
    /\ Moves("spawned", "overdue", "running")

RaiseTimeout == Moves("overdue", "ended", "failed")

\* Mutant: the worker does not take the job's entry out.
ReleaseUnpopped ==
    /\ phase = "ended"
    /\ current' = NoHandle
    /\ phase' = "idle"
    /\ UNCHANGED <<registry, handle, queue, status, open, doomed>>

\* finally: the job's entry is popped, whichever handle it holds.
Release ==
    /\ phase = "ended"
    /\ registry' = [registry EXCEPT ![handle[current].job] = NoHandle]
    /\ current' = NoHandle
    /\ phase' = "idle"
    /\ UNCHANGED <<handle, queue, status, open, doomed>>

(***************************************************************************)
(* The process exits, at once or when it is killed, and the GUI starts     *)
(* another: its memory is gone, and the scan of the new process finds the  *)
(* jobs the old one left active.                                           *)
(***************************************************************************)
Restart ==
    /\ registry' = [j \in Jobs |-> NoHandle]
    /\ handle' = [h \in Handles |-> NotCreated]
    /\ queue' = <<>>
    /\ current' = NoHandle
    /\ phase' = "idle"
    /\ status' = [j \in Jobs |-> IF status[j] = "running" THEN "failed" ELSE status[j]]
    /\ open' = TRUE
    /\ doomed' = {}

-----------------------------------------------------------------------------
\* The thread that waits for the worker process.
Await ==
    \/ Wait \/ StillRunning \/ Complete \/ Fail
    \/ Terminate \/ Terminated \/ StillHeld

Worker ==
    \/ Claim \/ DropCancelled \/ SkipCompleted \/ RaiseEarly \/ BeginAttempt
    \/ StartFails \/ Await \/ Release

Next ==
    \/ \E j \in Jobs, h \in Handles :
         \/ \E forced \in BOOLEAN : Start(j, h, forced)
         \/ Retry(j, h)
    \/ \E j \in Jobs : Cancel(j)
    \/ Close \/ Worker \/ Expire \/ RaiseTimeout \/ Restart

Spec == Init /\ [][Next]_vars

\* The worker thread is scheduled, and a loop that goes round for ever finds
\* the deadline passed.  Nothing is assumed of the worker process, nor of who
\* holds its pipes once it is killed: RaiseTimeout need not come.
FairSpec == Spec /\ WF_vars(Worker) /\ SF_vars(Expire)

-----------------------------------------------------------------------------
TypeOK ==
    /\ registry \in [Jobs -> Handles \cup {NoHandle}]
    /\ handle \in [Handles -> Handle]
    /\ queue \in Seq(Handles) /\ Len(queue) <= Cardinality(Handles)
    /\ current \in Handles \cup {NoHandle}
    /\ phase \in {"idle", "claimed", "spawned", "waiting", "terminating", "overdue", "ended"}
    /\ status \in [Jobs -> Status]
    /\ open \in BOOLEAN
    /\ doomed \subseteq Handles

(***************************************************************************)
(* Every run that is queued or under way is the one registered for its job,*)
(* so cancel_job reaches it and retry_job knows of it; in particular no    *)
(* job has two.                                                            *)
(***************************************************************************)
LiveRunsRegistered == \A h \in Handles : Live(h) => registry[handle[h].job] = h

(***************************************************************************)
(* A run that was cancelled before its worker was waited for translates    *)
(* nothing: wherever the request met it, in the queue, between the look at *)
(* the flag and the start of the process, or between two waits.            *)
(***************************************************************************)
CancelHonoured ==
    [][ \A j \in Jobs : status[j] # "completed" /\ status'[j] = "completed"
          => current \notin doomed ]_vars

(***************************************************************************)
(* What is still registered when its run is over was cancelled while it    *)
(* waited in the queue: every other way out of _run_job pops the entry.    *)
(***************************************************************************)
OnlyDroppedRunsLinger ==
    open => \A j \in Jobs :
        registry[j] # NoHandle /\ ~Live(registry[j])
            => registry[j] \in doomed /\ status[j] # "running"

(***************************************************************************)
(* Every run that is accepted ends, or the sidecar drops it when it closes:*)
(* no job waits behind others for ever.  The exception is the code's: once *)
(* the worker under way has been killed, a process it left behind may hold *)
(* its pipes, and with them the thread (worker_client.py:211).             *)
(***************************************************************************)
RunsEnd == \A h \in Handles : Live(h) ~> (~Live(h) \/ [](phase = "overdue"))
=============================================================================
