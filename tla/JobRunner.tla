----------------------------- MODULE JobRunner -----------------------------
(***************************************************************************)
(* One translation job as every process of the machine sees it: the job's  *)
(* JSON record under the state directory (core/state.py), the runs of      *)
(* Orchestrator.run_one that drive it (core/orchestrator.py), the requests *)
(* of BabelCodexService that read the record, look at the output and write *)
(* the record back (application/service.py), the two front ends that write *)
(* it themselves (application/sidecar.py for a run cancelled in the queue, *)
(* application/mcp.py before it submits one), and the recovery scan every  *)
(* process makes when it starts.  Nothing else saves a record.             *)
(*                                                                         *)
(* A process is an incarnation: it is started once, and once dead it stays *)
(* dead, so its name stands for its pid and pids are not reused.  Each     *)
(* process has one thread that runs the job (the CLI's main thread, or the *)
(* single worker of the sidecar's and the MCP server's executors) and one  *)
(* that serves requests.  A state file is replaced atomically, hence a     *)
(* load or a save is one step, but nothing holds the record between them.  *)
(***************************************************************************)
EXTENDS RetryPolicy

CONSTANTS
    Procs,          \* process incarnations, named by their pids
    NoProc,         \* runner_pid is None
    NoRecord,       \* the state file does not exist
    NoFile,         \* the output PDF does not exist
    MaxRetries,     \* [translation] max_retries
    RetryLimits,    \* [translation] retry_policy
    WorkerMode,     \* [babeldoc] worker_mode
    Overlap,        \* may a process start while another one is alive?
    Requests,       \* which requests that save the record are made on the job
    DiskFaults,     \* may a save exhaust its five tries and raise?
    Tampering       \* may the output PDF change outside any run?

ASSUME ProcsAssumption ==
    /\ NoProc \notin Procs
    /\ Procs \cap {NoFile, "foreign", "not_a_pdf", "empty", "unhashed"} = {}
    /\ NoFile \notin {"foreign", "not_a_pdf", "empty", "unhashed"}
ASSUME MaxRetriesAssumption == MaxRetries \in Int
ASSUME RetryLimitsAssumption == \A c \in DOMAIN RetryLimits : RetryLimits[c] \in Int
ASSUME ModeAssumption ==
    /\ WorkerMode \in {"subprocess", "in_process"}
    /\ Requests \subseteq {"validate", "qa", "start"}
    /\ {Overlap, DiskFaults, Tampering} \subseteq BOOLEAN

MaxAttempts == Ceiling(MaxRetries)

JobStatus ==
    {"discovered", "running", "retry_pending", "completed", "failed", "cancelled"}
JobStage == {"discovered", "preparing_runtime", "translating", "completed"}

\* The statuses run_qa, validate_output, retry_job and recovery call active.
Active == {"running", "retry_pending"}

(***************************************************************************)
(* The output PDF: the pid of the process that wrote it, or a file that no *)
(* run wrote, with or without a PDF header.  The record's artifact list is *)
(* empty, lists a file whose hash is not recorded yet, or carries a hash.  *)
(***************************************************************************)
Content   == Procs \cup {"foreign", "not_a_pdf"}
Artifacts == Content \cup {"empty", "unhashed"}

JobRecord ==
    [status : JobStatus, stage : JobStage, attempts : 0..MaxAttempts,
     error_category : ErrorCategory \cup {NoCategory},
     runner_pid : Procs \cup {NoProc},
     artifacts : Artifacts, qa_status : {"pending", "passed", "failed"}]

ASSUME NoRecordAssumption == NoRecord \notin JobRecord

FreshJob ==
    [status |-> "discovered", stage |-> "discovered", attempts |-> 0,
     error_category |-> NoCategory, runner_pid |-> NoProc,
     artifacts |-> "empty", qa_status |-> "pending"]

VARIABLES
    disk,      \* the persisted record
    output,    \* the output PDF
    life,      \* per process: "unborn", "recovering", "up", "dead"
    run,       \* per process: its run_one, see Run below
    request,   \* per process: the request, or the scan, that holds a copy
    held,      \* per process: that copy of the record
    spent      \* history: translations since the attempt count was reset

vars == <<disk, output, life, run, request, held, spent>>

NoException == [class |-> "other", category |-> "unknown", retryable |-> FALSE]

\* Where a run of the job has announced RUNNING and not yet ended.
Working == {"begun", "translating", "produced", "validated", "raising", "failed", "backoff"}
Location == {"idle", "dropping", "load", "check", "loop"} \cup Working

\* A run_one, or a run dropped before it: where it stands, its JobState object, its force argument and
\* the exception it is handling.
Run == [pc : Location, job : JobRecord, force : BOOLEAN, exc : Exception]

Idle == [pc |-> "idle", job |-> FreshJob, force |-> FALSE, exc |-> NoException]

At(p, location, record) == [run[p] EXCEPT !.pc = location, !.job = record]

Raising(p, record, x) == [At(p, "raising", record) EXCEPT !.exc = x]

Becomes(p, state) == run' = [run EXCEPT ![p] = state]

(***************************************************************************)
(* validate_artifacts(update=...): an empty list is invalid, a recorded    *)
(* hash must match, and only an empty hash is ever filled in.              *)
(***************************************************************************)
ValidArtifacts(artifacts) ==
    /\ artifacts # "empty"
    /\ output \notin {NoFile, "not_a_pdf"}
    /\ artifacts \in {"unhashed", output}

Hashed(artifacts) ==
    IF artifacts = "unhashed" /\ output # NoFile THEN output ELSE artifacts

\* StateStore.save by the run of p: it replaces the record, or it raises.
Save(p, record, saved, raised) ==
    \/ disk' = record /\ Becomes(p, saved)
    \/ DiskFaults /\ disk' = disk /\ Becomes(p, raised)

Alive(p) == life[p] \in {"recovering", "up"}

\* StateStore.load: the record, or a new job.
Loaded == IF disk = NoRecord THEN FreshJob ELSE disk

-----------------------------------------------------------------------------
Init ==
    /\ disk = NoRecord
    /\ output = NoFile
    /\ life = [p \in Procs |-> "unborn"]
    /\ run = [p \in Procs |-> Idle]
    /\ request = [p \in Procs |-> "none"]
    /\ held = [p \in Procs |-> FreshJob]
    /\ spent = 0

(***************************************************************************)
(* Processes.  Orchestrator.__init__ scans the state directory before it   *)
(* does anything else; the copy it works on is the one list_jobs read.     *)
(***************************************************************************)
Boot(p) ==
    /\ life[p] = "unborn"
    /\ Overlap \/ \A q \in Procs : ~Alive(q)
    /\ IF disk = NoRecord
         THEN /\ life' = [life EXCEPT ![p] = "up"]
              /\ UNCHANGED <<request, held>>
         ELSE /\ life' = [life EXCEPT ![p] = "recovering"]
              /\ request' = [request EXCEPT ![p] = "recover"]
              /\ held' = [held EXCEPT ![p] = disk]
    /\ UNCHANGED <<disk, output, run, spent>>

\* The copy is dropped once it has been used.
Done(p) ==
    /\ request' = [request EXCEPT ![p] = "none"]
    /\ held' = [held EXCEPT ![p] = FreshJob]

\* Mutant: recovery forgets the jobs that wait for a retry.
InterruptedRunningOnly(record) ==
    /\ record.status = "running"
    /\ record.runner_pid = NoProc \/ ~Alive(record.runner_pid)

\* Mutant: recovery forgets the runners that died.
InterruptedUnknownOnly(record) ==
    record.status \in Active /\ record.runner_pid = NoProc

Interrupted(record) ==
    /\ record.status \in Active
    /\ record.runner_pid = NoProc \/ ~Alive(record.runner_pid)

\* Mutant: recovery does not say why the job failed.
TerminalizedSilently(record) ==
    [record EXCEPT !.status = "failed", !.runner_pid = NoProc]

\* Mutant: recovery queues the job again instead of failing it.
TerminalizedRequeued(record) ==
    [record EXCEPT !.status = "discovered", !.runner_pid = NoProc]

Terminalized(record) ==
    [record EXCEPT !.status = "failed", !.error_category = "worker", !.runner_pid = NoProc]

\* A save that raises escapes the constructor: the process does not start.
Recover(p) ==
    /\ request[p] = "recover"
    /\ \/ /\ ~Interrupted(held[p])
          /\ disk' = disk /\ life' = [life EXCEPT ![p] = "up"]
       \/ /\ Interrupted(held[p])
          /\ disk' = Terminalized(held[p]) /\ life' = [life EXCEPT ![p] = "up"]
       \/ /\ Interrupted(held[p]) /\ DiskFaults
          /\ disk' = disk /\ life' = [life EXCEPT ![p] = "dead"]
    /\ Done(p)
    /\ UNCHANGED <<output, run, spent>>

\* The process exits, is killed or loses power: only the files survive.
Crash(p) ==
    /\ Alive(p)
    /\ life' = [life EXCEPT ![p] = "dead"]
    /\ Becomes(p, Idle) /\ Done(p)
    /\ UNCHANGED <<disk, output, spent>>

\* Someone replaces, damages or deletes the output, or an attempt that died
\* half way left something behind.
Tamper ==
    /\ Tampering
    /\ output' \in {NoFile, "foreign", "not_a_pdf"}
    /\ UNCHANGED <<disk, life, run, request, held, spent>>

-----------------------------------------------------------------------------
(***************************************************************************)
(* run_one.  A caller starts it with or without force; retry_job forces it *)
(* after it has seen a record that is not active.                          *)
(***************************************************************************)
StartRun(p, forced) ==
    /\ life[p] = "up" /\ run[p].pc = "idle"
    /\ Becomes(p, [Idle EXCEPT !.pc = "load", !.force = forced])
    /\ UNCHANGED <<disk, output, life, request, held, spent>>

RetryJob(p) ==
    /\ disk # NoRecord /\ disk.status \notin Active
    /\ StartRun(p, TRUE)

(***************************************************************************)
(* A run of the sidecar that was cancelled in the queue: the worker thread *)
(* loads the record and saves it as CANCELLED, whatever it says and with   *)
(* its other fields as they are.                                           *)
(***************************************************************************)
LoadCancelled(p) ==
    /\ life[p] = "up" /\ run[p].pc = "idle"
    /\ Becomes(p, At(p, "dropping", Loaded))
    /\ UNCHANGED <<disk, output, life, request, held, spent>>

\* Mutant: the record is saved as DISCOVERED, to be picked up again.
CancelledRequeued(record) == [record EXCEPT !.status = "discovered"]

CancelledUnrun(record) == [record EXCEPT !.status = "cancelled"]

SaveCancelled(p) ==
    /\ run[p].pc = "dropping"
    /\ Save(p, CancelledUnrun(run[p].job), Idle, Idle)
    /\ UNCHANGED <<output, life, request, held, spent>>

\* Mutant: every run starts counting from zero.
UncountedJob(p, record) == [record EXCEPT !.attempts = 0]

\* force clears the attempt count of the object, not of the file.
CountedJob(p, record) ==
    IF run[p].force THEN [record EXCEPT !.attempts = 0] ELSE record

\* Mutant: a completed job is run like any other.
NeverSettled(p, record) == FALSE

Settled(p, record) == record.status = "completed" /\ ~run[p].force

\* state.load, then the branch on COMPLETED.
LoadJob(p) ==
    /\ run[p].pc = "load"
    /\ Becomes(p, At(p, IF Settled(p, Loaded) THEN "check" ELSE "loop",
                     CountedJob(p, Loaded)))
    /\ UNCHANGED <<disk, output, life, request, held, spent>>

\* The source or the output cannot be read: the exception leaves run_one, and
\* the record as it was.
CannotRead(p) ==
    /\ run[p].pc \in {"load", "check"}
    /\ Becomes(p, Idle)
    /\ UNCHANGED <<disk, output, life, request, held, spent>>

\* A completed job is skipped while its artifacts are intact ...
SkipCompleted(p) ==
    /\ run[p].pc = "check" /\ ValidArtifacts(run[p].job.artifacts)
    /\ Becomes(p, Idle)
    /\ UNCHANGED <<disk, output, life, request, held, spent>>

\* ... and starts over when they are not.
RejectCompleted(p) ==
    /\ run[p].pc = "check" /\ ~ValidArtifacts(run[p].job.artifacts)
    /\ LET reset == [run[p].job EXCEPT !.status = "discovered", !.stage = "discovered",
                                       !.attempts = 0, !.qa_status = "failed"]
       IN  Save(p, reset, At(p, "loop", reset), Idle)
    /\ spent' = IF run'[p].pc = "loop" THEN 0 ELSE spent
    /\ UNCHANGED <<output, life, request, held>>

\* Mutant: one attempt too many.
AttemptLeftOver(record) == record.attempts <= MaxAttempts

\* for attempt in range(job.attempts + 1, max_attempts + 1)
AttemptLeft(record) == record.attempts < MaxAttempts

\* Mutant: the attempt is not recorded.
UnrecordedAttempt(p, record) ==
    [record EXCEPT !.status = "running", !.stage = "preparing_runtime",
                   !.error_category = NoCategory, !.runner_pid = p]

Attempt(p, record) ==
    [record EXCEPT !.attempts = @ + 1, !.status = "running", !.stage = "preparing_runtime",
                   !.error_category = NoCategory, !.runner_pid = p]

BeginAttempt(p) ==
    /\ run[p].pc = "loop" /\ AttemptLeft(run[p].job)
    /\ LET begun == Attempt(p, run[p].job)
       IN  Save(p, begun, At(p, "begun", begun), Idle)
    /\ spent' = IF run'[p].pc = "begun" /\ run[p].force /\ run[p].job.attempts = 0
                 THEN 0 ELSE spent
    /\ UNCHANGED <<output, life, request, held>>

\* The range is empty: RuntimeError, and the record is left as it was.
OutOfAttempts(p) ==
    /\ run[p].pc = "loop" /\ ~AttemptLeft(run[p].job)
    /\ Becomes(p, Idle)
    /\ UNCHANGED <<disk, output, life, request, held, spent>>

\* Saved inside the try block, so a save that raises is a failed attempt.
\* The history counter saturates above the ceiling.
StartTranslating(p) ==
    /\ run[p].pc = "begun"
    /\ LET started == [run[p].job EXCEPT !.stage = "translating"]
       IN  Save(p, started, At(p, "translating", started), Raising(p, started, NoException))
    /\ spent' = IF run'[p].pc = "translating" THEN Capped(spent + 1, MaxAttempts + 1) ELSE spent
    /\ UNCHANGED <<output, life, request, held>>

\* The backend returns: it wrote the PDF, or it lists no artifact at all.
Translated(p) ==
    /\ run[p].pc = "translating"
    /\ \E listed \in {"empty", "unhashed"} :
         /\ Becomes(p, At(p, "produced", [run[p].job EXCEPT !.artifacts = listed]))
         /\ output' = IF listed = "empty" THEN output ELSE p
    /\ UNCHANGED <<disk, life, request, held, spent>>

(***************************************************************************)
(* What the backend can raise.  In subprocess mode every failure of the    *)
(* worker is a WorkerClientError; a cancelled one is recognised by its     *)
(* code, and only that mode looks at the cancel event.                     *)
(***************************************************************************)
Raise(class, category, retryable) ==
    [class |-> class, category |-> category, retryable |-> retryable]

Raised ==
    IF WorkerMode = "subprocess"
      THEN {Raise("worker_client", "worker", TRUE), Raise("worker_client", "worker", FALSE),
            Raise("worker_client", "translation", TRUE),
            Raise("worker_client", "cancelled", FALSE), NoException}
      ELSE {Raise("babelcodex", "babeldoc", TRUE), Raise("babelcodex", "babeldoc", FALSE),
            Raise("babelcodex", "translation", TRUE), Raise("babelcodex", "auth", TRUE),
            Raise("file_not_found", "unknown", FALSE), NoException}

IsCancellation(x) == x.class = "worker_client" /\ x.category = "cancelled"

TranslateRaises(p, x) ==
    /\ run[p].pc = "translating"
    /\ Becomes(p, Raising(p, run[p].job, x))
    /\ UNCHANGED <<disk, output, life, request, held, spent>>

\* validate_artifacts(update=True); an invalid output is a RuntimeError.
ValidateResult(p) ==
    /\ run[p].pc = "produced"
    /\ LET hashed == [run[p].job EXCEPT !.artifacts = Hashed(@)]
       IN  IF ValidArtifacts(run[p].job.artifacts)
             THEN Becomes(p, At(p, "validated", hashed))
             ELSE Becomes(p, Raising(p, hashed, NoException))
    /\ UNCHANGED <<disk, output, life, request, held, spent>>

CompleteJob(p) ==
    /\ run[p].pc = "validated"
    /\ LET completed == [run[p].job EXCEPT !.status = "completed", !.stage = "completed",
                                           !.qa_status = "passed", !.runner_pid = NoProc]
       IN  Save(p, completed, Idle, Raising(p, completed, NoException))
    /\ UNCHANGED <<output, life, request, held, spent>>

CancelJob(p) ==
    /\ run[p].pc = "raising" /\ IsCancellation(run[p].exc)
    /\ Save(p, [run[p].job EXCEPT !.status = "cancelled", !.error_category = NoCategory,
                                  !.runner_pid = NoProc], Idle, Idle)
    /\ UNCHANGED <<output, life, request, held, spent>>

\* FAILED is saved first, with the pid still in the record.
FailAttempt(p) ==
    /\ run[p].pc = "raising" /\ ~IsCancellation(run[p].exc)
    /\ LET failed == [run[p].job EXCEPT !.status = "failed",
                        !.error_category = classify_exception(run[p].exc).category]
       IN  Save(p, failed, At(p, "failed", failed), Idle)
    /\ UNCHANGED <<output, life, request, held, spent>>

\* Mutant: the last attempt of the category is never used.
MayRetryEarly(p) ==
    LET error == classify_exception(run[p].exc)
    IN  /\ run[p].job.attempts + 1 < retry_limit_for(error.category, RetryLimits, MaxRetries)
        /\ error.retryable

MayRetry(p) ==
    LET error == classify_exception(run[p].exc)
    IN  /\ run[p].job.attempts < retry_limit_for(error.category, RetryLimits, MaxRetries)
        /\ error.retryable

ScheduleRetry(p) ==
    /\ run[p].pc = "failed" /\ MayRetry(p)
    /\ LET pending == [run[p].job EXCEPT !.status = "retry_pending"]
       IN  Save(p, pending, At(p, "backoff", pending), Idle)
    /\ UNCHANGED <<output, life, request, held, spent>>

GiveUp(p) ==
    /\ run[p].pc = "failed" /\ ~MayRetry(p)
    /\ Save(p, [run[p].job EXCEPT !.runner_pid = NoProc], Idle, Idle)
    /\ UNCHANGED <<output, life, request, held, spent>>

\* Mutant: the thread leaves the loop after the back-off.
BackoffLost(p) ==
    /\ run[p].pc = "backoff"
    /\ Becomes(p, Idle)
    /\ UNCHANGED <<disk, output, life, request, held, spent>>

\* The sleep of min(2 ** (attempt - 1), 8) seconds ends.
BackoffOver(p) ==
    /\ run[p].pc = "backoff"
    /\ Becomes(p, [At(p, "loop", run[p].job) EXCEPT !.exc = NoException])
    /\ UNCHANGED <<disk, output, life, request, held, spent>>

-----------------------------------------------------------------------------
(***************************************************************************)
(* validate_output and run_qa: refuse an active job, look at the output,   *)
(* write the whole record back.                                            *)
(***************************************************************************)
LoadForRequest(p, kind) ==
    /\ life[p] = "up" /\ request[p] = "none" /\ kind \in Requests \ {"start"}
    /\ disk # NoRecord /\ disk.status \notin Active
    /\ request' = [request EXCEPT ![p] = kind]
    /\ held' = [held EXCEPT ![p] = disk]
    /\ UNCHANGED <<disk, output, life, run, spent>>

\* The request's save: it replaces the record, or it raises to the caller.
SaveForRequest(p, record) ==
    /\ \/ disk' = record
       \/ DiskFaults /\ disk' = disk
    /\ Done(p)
    /\ UNCHANGED <<output, life, run, spent>>

ValidateOutput(p) ==
    /\ request[p] = "validate"
    /\ SaveForRequest(p,
         [held[p] EXCEPT !.artifacts = Hashed(@),
                         !.qa_status = IF ValidArtifacts(held[p].artifacts)
                                         THEN "passed" ELSE "failed"])

(***************************************************************************)
(* _start_translation of the MCP server: load the record, and unless it is *)
(* COMPLETED or the registry knows the job (McpServer has the registry,    *)
(* and it may have lost a run that lives), save it as it was loaded.       *)
(***************************************************************************)
LoadForStart(p) ==
    /\ life[p] = "up" /\ request[p] = "none" /\ "start" \in Requests
    /\ Loaded.status # "completed"
    /\ request' = [request EXCEPT ![p] = "start"]
    /\ held' = [held EXCEPT ![p] = Loaded]
    /\ UNCHANGED <<disk, output, life, run, spent>>

SaveForStart(p) ==
    /\ request[p] = "start"
    /\ SaveForRequest(p, held[p])

RefuseStart(p) ==
    /\ request[p] = "start"
    /\ Done(p)
    /\ UNCHANGED <<disk, output, life, run, spent>>

\* Without PDF artifacts the battery has nothing to object to; a missing
\* file is an objection; otherwise its findings decide.
RunQa(p) ==
    /\ request[p] = "qa"
    /\ \E ok \in BOOLEAN :
         /\ held[p].artifacts = "empty" => ok
         /\ held[p].artifacts # "empty" /\ output = NoFile => ~ok
         /\ SaveForRequest(p, [held[p] EXCEPT !.qa_status = IF ok THEN "passed" ELSE "failed"])

-----------------------------------------------------------------------------
\* The backend's call returns or raises.
BackendStep(p) == Translated(p) \/ \E x \in Raised : TranslateRaises(p, x)

\* The steps of a run that the scheduler alone can take.
OwnStep(p) ==
    \/ SaveCancelled(p)
    \/ LoadJob(p) \/ CannotRead(p) \/ SkipCompleted(p) \/ RejectCompleted(p) \/ BeginAttempt(p)
    \/ OutOfAttempts(p) \/ StartTranslating(p) \/ ValidateResult(p)
    \/ CompleteJob(p) \/ CancelJob(p) \/ FailAttempt(p) \/ ScheduleRetry(p)
    \/ GiveUp(p) \/ BackoffOver(p)

RunStep(p) == OwnStep(p) \/ BackendStep(p)

Next ==
    \/ \E p \in Procs :
         \/ Boot(p) \/ Recover(p) \/ Crash(p)
         \/ \E forced \in BOOLEAN : StartRun(p, forced)
         \/ RetryJob(p) \/ LoadCancelled(p)
         \/ RunStep(p)
         \/ \E kind \in Requests : LoadForRequest(p, kind)
         \/ ValidateOutput(p) \/ RunQa(p)
         \/ LoadForStart(p) \/ SaveForStart(p) \/ RefuseStart(p)
    \/ Tamper

Spec == Init /\ [][Next]_vars

(***************************************************************************)
(* A thread that can take a step of its own takes it, and the back-off     *)
(* sleep ends.  The call of the backend need not end: in in_process mode   *)
(* it has no deadline and no cancel, and in subprocess mode the last       *)
(* communicate has no limit (WorkerClient).  Nobody is obliged to start a  *)
(* process, a run or a request.                                            *)
(***************************************************************************)
FairSpec ==
    /\ Spec
    /\ \A p \in Procs : WF_vars(OwnStep(p)) /\ WF_vars(Recover(p))

-----------------------------------------------------------------------------
TypeOK ==
    /\ disk \in JobRecord \cup {NoRecord}
    /\ output \in Content \cup {NoFile}
    /\ life \in [Procs -> {"unborn", "recovering", "up", "dead"}]
    /\ run \in [Procs -> Run]
    /\ request \in [Procs -> {"none", "recover", "validate", "qa", "start"}]
    /\ held \in [Procs -> JobRecord]
    /\ spent \in 0..(MaxAttempts + 1)

(***************************************************************************)
(* The fields of a record agree, whatever copy it was written from:        *)
(* run_one, recovery, validate_output, run_qa and the front ends all write *)
(* whole records, so an interleaving or a crash may lose a record but must *)
(* never mix two.  Only CANCELLED may stand over the fields of another     *)
(* status: the sidecar puts it there when it drops a run from its queue.   *)
(***************************************************************************)
FieldsAgree(record) ==
    /\ record.status = "discovered" =>
         record.attempts = 0 /\ record.runner_pid = NoProc
    /\ record.status \in Active =>
         record.attempts > 0 /\ record.runner_pid # NoProc
    /\ record.status = "running" => record.error_category = NoCategory
    /\ record.status = "retry_pending" =>
         /\ record.error_category \in ErrorCategory
         /\ record.attempts < retry_limit_for(record.error_category, RetryLimits, MaxRetries)
    /\ record.status = "failed" =>
         record.attempts > 0 /\ record.error_category \in ErrorCategory
    /\ record.status = "cancelled" =>
         record.runner_pid = NoProc /\ record.error_category = NoCategory
    /\ record.status = "completed" =>
         /\ record.stage = "completed" /\ record.runner_pid = NoProc
         /\ record.error_category = NoCategory
         /\ record.artifacts \in Content /\ record.qa_status # "pending"

Consistent(record) ==
    \E status \in JobStatus :
        /\ record.status \in {status, "cancelled"}
        /\ FieldsAgree([record EXCEPT !.status = status])

RecordConsistent == disk # NoRecord => Consistent(disk)

(***************************************************************************)
(* Why RecordConsistent is preserved: the copies a request or a scan holds *)
(* agree too, and so does the JobState object of a run, as far as the next *)
(* save of that run depends on it.                                         *)
(***************************************************************************)
RunConsistent(state) ==
    LET pc == state.pc
        record == state.job
    IN  /\ pc = "dropping" => Consistent(record)
        /\ pc = "check" => record.status = "completed" /\ Consistent(record)
        /\ pc \in {"begun", "translating", "produced", "validated"} =>
             /\ record.status = "running" /\ record.attempts > 0
             /\ record.error_category = NoCategory /\ record.runner_pid # NoProc
        /\ pc = "validated" => record.artifacts \in Content
        /\ pc = "raising" =>
             /\ record.attempts > 0
             /\ record.runner_pid = NoProc => state.exc = NoException
        /\ pc = "failed" =>
             /\ record.status = "failed" /\ record.attempts > 0
             /\ record.error_category = classify_exception(state.exc).category
             /\ record.runner_pid = NoProc => state.exc = NoException

ConsistencyInv ==
    /\ TypeOK
    /\ RecordConsistent
    /\ \A p \in Procs : Consistent(held[p]) /\ RunConsistent(run[p])

(***************************************************************************)
(* max_retries is "a total-attempt ceiling" for the job (orchestrator.py,  *)
(* errors.py): between two resets of the count no sequence of failures,    *)
(* retries, crashes, recoveries and unforced restarts translates more      *)
(* often than that.  It rests on the count being saved before the backend  *)
(* is called.                                                              *)
(***************************************************************************)
BudgetRespected == spent <= MaxAttempts

(***************************************************************************)
(* Why BudgetRespected is preserved when processes take turns and no       *)
(* request writes the record: the run that is under way is the only one,   *)
(* its JobState object has the count the file has, except where force has  *)
(* cleared it, and the file is one ahead of the translations made when the *)
(* backend is about to be called.                                          *)
(***************************************************************************)
CountOnDisk == IF disk = NoRecord THEN 0 ELSE disk.attempts

StatusOnDisk == IF disk = NoRecord THEN "discovered" ELSE disk.status

RunCounts(state) ==
    /\ state.pc \in Working => disk # NoRecord /\ state.job.attempts = CountOnDisk
    /\ state.pc = "begun" => spent < CountOnDisk
    /\ state.pc = "dropping" => state.job = Loaded
    /\ state.pc \in {"check", "loop"} =>
         state.job.attempts = CountOnDisk \/ (state.force /\ state.job.attempts = 0)

BudgetInv ==
    /\ TypeOK
    /\ \A p, q \in Procs : Alive(p) /\ Alive(q) => p = q
    /\ \A p \in Procs :
         /\ run[p].pc # "idle" => life[p] = "up"
         /\ request[p] \in {"none", "recover"}
         /\ request[p] = "recover" =>
              life[p] = "recovering" /\ disk # NoRecord /\ held[p] = disk
         /\ RunCounts(run[p])
    /\ spent <= CountOnDisk

(***************************************************************************)
(* Once a process has made its scan, a record that says the job is active  *)
(* says so of this process: no orphan of a dead one survives the scan.     *)
(* For processes that take turns.                                          *)
(***************************************************************************)
ServingOwnsActive ==
    \A p \in Procs :
        life[p] = "up" /\ disk # NoRecord /\ disk.status \in Active
            => disk.runner_pid = p

(***************************************************************************)
(* ... and this process is in fact working on it, so a caller that is told *)
(* "active job" has something to wait for.  Only while saves succeed.      *)
(***************************************************************************)
ActiveMeansWorking ==
    \A p \in Procs :
        life[p] = "up" /\ disk # NoRecord /\ disk.status \in Active
            => run[p].pc \in Working \cup {"loop"}

(***************************************************************************)
(* A record that says COMPLETED stops saying so only because somebody      *)
(* forced the job, because its output is no longer the one recorded, or    *)
(* because a run of it was cancelled in the sidecar's queue: that writes   *)
(* CANCELLED over it, with an output that is still good.                   *)
(***************************************************************************)
CompletionDurable ==
    [][ (disk # NoRecord /\ disk.status = "completed" /\ disk'.status # "completed")
        => \/ \E p \in Procs : run[p].force
           \/ ~ValidArtifacts(disk.artifacts)
           \/ disk'.status = "cancelled" /\ \E p \in Procs : run[p].pc = "dropping" ]_vars

(***************************************************************************)
(* Why ServingOwnsActive and CompletionDurable are preserved when          *)
(* processes take turns and no request writes the record, failing saves    *)
(* included: a run that has announced RUNNING has left COMPLETED behind,   *)
(* its object names its own process or none, and an unforced run gets past *)
(* a completed record only through the look at its artifacts.              *)
(***************************************************************************)
OwnsRecord(p) ==
    LET state == run[p]
    IN  /\ state.pc = "check" => disk # NoRecord /\ state.job = disk
        /\ state.pc = "loop" /\ ~state.force => StatusOnDisk # "completed"
        /\ state.pc \in Working =>
             StatusOnDisk # "completed" /\ state.job.runner_pid \in {p, NoProc}

OwnershipInv ==
    /\ BudgetInv
    /\ ConsistencyInv
    /\ ServingOwnsActive
    /\ \A p \in Procs : OwnsRecord(p)

(***************************************************************************)
(* Why ActiveMeansWorking is preserved, and why the record follows its     *)
(* lifecycle, when no save fails either: what the file says is a function  *)
(* of where the run stands, and it never names a process that has not      *)
(* served yet.                                                             *)
(***************************************************************************)
StatusFollows(p) ==
    LET pc == run[p].pc
        attempts == run[p].job.attempts
    IN  /\ life[p] = "up" /\ pc \in {"idle", "load", "dropping"} => StatusOnDisk \notin Active
        /\ pc = "loop" =>
             \/ StatusOnDisk = "retry_pending" /\ attempts = CountOnDisk
             \/ StatusOnDisk \notin Active /\ attempts = 0
             \/ StatusOnDisk \notin Active \cup {"completed"} /\ attempts = CountOnDisk
        /\ pc \in {"begun", "translating", "produced", "validated", "raising"} =>
             StatusOnDisk = "running"
        /\ pc = "failed" => StatusOnDisk = "failed"
        /\ pc = "backoff" => StatusOnDisk = "retry_pending"
        /\ life[p] \in {"unborn", "recovering"} /\ disk # NoRecord => disk.runner_pid # p

LifecycleInv == OwnershipInv /\ \A p \in Procs : StatusFollows(p)

(***************************************************************************)
(* A failure that was raised as retryable, in a category whose limit is    *)
(* not used up, is not given up on (ADR-025; errors.py: "transient         *)
(* translation/resource failures are" retried automatically).              *)
(***************************************************************************)
TransientFailuresRetried ==
    [][ \A p \in Procs :
          GiveUp(p) =>
            ~ /\ run[p].exc.retryable
              /\ run[p].job.attempts <
                   retry_limit_for(run[p].exc.category, RetryLimits, MaxRetries) ]_vars

\* Why TransientFailuresRetried holds in in_process mode: the exception that
\* is handled is one the backend or run_one raised.
HandlesRaised ==
    \A p \in Procs : run[p].pc \in {"raising", "failed"} => run[p].exc \in Raised

\* Every run_one returns or raises, or its process dies, or one of its calls
\* of the backend never returns: the retry loop and the back-off end.
RunEnds ==
    \A p \in Procs :
        run[p].pc # "idle" ~> (run[p].pc = "idle" \/ [](run[p].pc = "translating"))

\* A job that waits for its next attempt gets it, or its runner is dead and
\* the next scan will find it.  Only while saves succeed.
RetryPending == disk # NoRecord /\ disk.status = "retry_pending"

PendingResolves == RetryPending ~> ~(RetryPending /\ Alive(disk.runner_pid))

-----------------------------------------------------------------------------
(***************************************************************************)
(* The record of a job whose processes take turns, as a JobLifecycle.      *)
(***************************************************************************)
Lifecycle == INSTANCE JobLifecycle WITH
    MaxAttempts <- MaxAttempts,
    status      <- StatusOnDisk,
    attempts    <- CountOnDisk

\* The status and the attempt count of the record move only along the
\* transitions of JobLifecycle, through crashes, recoveries and runs cancelled
\* in the queue included.
LifecycleSpec == Lifecycle!Spec
=============================================================================
