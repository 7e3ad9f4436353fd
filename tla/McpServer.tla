----------------------------- MODULE McpServer -----------------------------
(***************************************************************************)
(* The MCP server (application/mcp.py): one thread serves JSON-RPC         *)
(* requests one by one, one executor thread translates.  The two share the *)
(* registry of active jobs (a cancel event and a future per job), the      *)
(* records of the jobs and the working directories, which are named after  *)
(* the stem of the PDF and not after the job.  Beside the server runs      *)
(* "babelcodex cleanup", a process of its own that sweeps the directories. *)
(*                                                                         *)
(* A request is split where it reads something the worker can change       *)
(* before it acts on it.  A run makes one attempt: worker_mode is          *)
(* "subprocess", where failures are not retried.                           *)
(***************************************************************************)
EXTENDS FiniteSets, SequencesExt

CONSTANTS
    Jobs,
    Stems,      \* working directories: job-<stem>
    stem,       \* of each job's source
    Runs,       \* futures, each with its cancel event: used again when free
    NoRun,
    NoJob

ASSUME NullsAssumption == NoRun \notin Runs /\ NoJob \notin Jobs
ASSUME StemAssumption == stem \in [Jobs -> Stems]

VARIABLES
    active,     \* context.active: the cancel event of each job
    futures,    \* context.futures
    run,        \* the runs: job, event, and what the future knows
    queue,      \* the executor's work queue
    current,    \* the run the executor's thread works on
    phase,      \* where that thread stands
    request,    \* where the serving thread stands, and what it read
    open,       \* ~_closed
    status,     \* the persisted status of each job
    dirs,       \* the working directories that exist
    sweep,      \* the cleanup process: the stems it found active, or no sweep
    evicted     \* history: live runs unregistered by the callback of another

registry == <<active, futures, evicted>>
worker   == <<queue, current, phase>>
vars     == <<registry, run, worker, request, open, status, dirs, sweep>>

\* DISCOVERED, FAILED and CANCELLED are all "at_rest": no tool tells them
\* apart.  RETRY_PENDING does not occur with one attempt.
Status == {"absent", "at_rest", "running", "completed"}
Active == {"running"}
Run    == [job : Jobs \cup {NoJob}, cancel : BOOLEAN, done : BOOLEAN, callback : BOOLEAN]

NotCreated == [job |-> NoJob, cancel |-> FALSE, done |-> FALSE, callback |-> FALSE]
Serving    == [at |-> "idle", job |-> NoJob, run |-> NoRun, seen |-> "absent"]
NoSweep    == [on |-> FALSE, keep |-> {}, began |-> NoRun]

Live(r) == r \in ToSet(queue) \/ (current = r /\ ~run[r].done)
Free(r) == /\ r \notin ToSet(queue) /\ current # r /\ request.run # r
           /\ \A j \in Jobs : active[j] # r /\ futures[j] # r

\* What nothing refers to any more is as good as never created.
Collected(runs) == [r \in Runs |-> IF Free(r)' THEN NotCreated ELSE runs[r]]

TypeOK ==
    /\ active \in [Jobs -> Runs \cup {NoRun}] /\ futures \in [Jobs -> Runs \cup {NoRun}]
    /\ run \in [Runs -> Run] /\ current \in Runs \cup {NoRun}
    /\ queue \in Seq(Runs) /\ IsInjective(queue)
    /\ phase \in {"idle", "claimed", "starting", "looking", "waiting", "killing", "ended",
                 "notifying"}
    /\ phase = "idle" <=> current = NoRun
    /\ request.at \in {"idle", "loaded", "submitted", "registered", "attached",
                       "cleaning", "removing"}
    /\ request.job \in Jobs \cup {NoJob} /\ request.run \in Runs \cup {NoRun}
    /\ open \in BOOLEAN /\ status \in [Jobs -> Status]
    /\ dirs \subseteq Stems /\ evicted \subseteq Runs
    /\ sweep.keep \subseteq Stems

Init ==
    /\ active = [j \in Jobs |-> NoRun] /\ futures = [j \in Jobs |-> NoRun]
    /\ run = [r \in Runs |-> NotCreated]
    /\ queue = <<>> /\ current = NoRun /\ phase = "idle"
    /\ request = Serving
    /\ open = TRUE
    /\ status \in [Jobs -> Status \ Active]
    /\ dirs = {}
    /\ sweep = NoSweep
    /\ evicted = {}

-----------------------------------------------------------------------------
(***************************************************************************)
(* The done callback, finish: both entries of the job are removed, whoever *)
(* they belong to.                                                         *)
(***************************************************************************)
\* Mutant: the callback forgets the cancel event.
FinishFuturesOnly(r) ==
    /\ futures' = [futures EXCEPT ![run[r].job] = NoRun]
    /\ UNCHANGED <<active, evicted>>

Finish(r) ==
    /\ active' = [active EXCEPT ![run[r].job] = NoRun]
    /\ futures' = [futures EXCEPT ![run[r].job] = NoRun]
    /\ evicted' = (evicted \ {r}) \cup {q \in Runs \ {r} : active[run[r].job] = q}

\* A handler returns or raises: either way the server answers and goes on.
Answer == request' = Serving

(***************************************************************************)
(* babelcodex_start_translation.                                           *)
(***************************************************************************)
Serve(j, next) ==
    /\ open /\ request.at = "idle"
    /\ request' = [request EXCEPT !.at = next, !.job = j, !.seen = status[j]]
    /\ UNCHANGED <<registry, run, worker, open, status, dirs, sweep>>

\* The record is loaded; a completed job is reported as skipped.
StartLoad(j) == status[j] # "completed" /\ Serve(j, "loaded")

RefuseActive ==
    /\ request.at = "loaded" /\ active[request.job] # NoRun
    /\ Answer
    /\ UNCHANGED <<registry, run, worker, open, status, dirs, sweep>>

\* Mutant: the job is not looked up in the registry.
SubmitUnchecked(r) ==
    /\ request.at = "loaded"
    /\ Free(r) /\ r = CHOOSE q \in Runs : Free(q)
    /\ status' = [status EXCEPT ![request.job] =
                      IF request.seen = "absent" THEN "at_rest" ELSE request.seen]
    /\ run' = [run EXCEPT ![r] = [NotCreated EXCEPT !.job = request.job]]
    /\ active' = [active EXCEPT ![request.job] = r]
    /\ queue' = Append(queue, r)
    /\ request' = [request EXCEPT !.at = "submitted", !.run = r]
    /\ evicted' = evicted \ {r}
    /\ sweep' = [sweep EXCEPT !.began = IF @ = r THEN NoRun ELSE @]
    /\ UNCHANGED <<futures, current, phase, open, dirs>>

\* The job is not registered: the record as it was loaded is saved, the cancel
\* event registered and the run submitted.  The worker sees the run only now.
Submit(r) ==
    /\ request.at = "loaded" /\ active[request.job] = NoRun
    /\ Free(r) /\ r = CHOOSE q \in Runs : Free(q)
    /\ status' = [status EXCEPT ![request.job] =
                      IF request.seen = "absent" THEN "at_rest" ELSE request.seen]
    /\ run' = [run EXCEPT ![r] = [NotCreated EXCEPT !.job = request.job]]
    /\ active' = [active EXCEPT ![request.job] = r]
    /\ queue' = Append(queue, r)
    /\ request' = [request EXCEPT !.at = "submitted", !.run = r]
    /\ evicted' = evicted \ {r}
    /\ sweep' = [sweep EXCEPT !.began = IF @ = r THEN NoRun ELSE @]
    /\ UNCHANGED <<futures, current, phase, open, dirs>>

RegisterFuture ==
    /\ request.at = "submitted"
    /\ futures' = [futures EXCEPT ![request.job] = request.run]
    /\ request' = [request EXCEPT !.at = "registered"]
    /\ UNCHANGED <<active, evicted, run, worker, open, status, dirs, sweep>>

\* add_done_callback calls the callback at once if the future is done.
Attach ==
    /\ request.at = "registered"
    /\ request' = [request EXCEPT !.at = "attached"]
    /\ IF run[request.run].done
         THEN Finish(request.run) /\ UNCHANGED run
         ELSE /\ run' = [run EXCEPT ![request.run].callback = TRUE]
              /\ UNCHANGED registry
    /\ UNCHANGED <<worker, open, status, dirs, sweep>>

\* And the handler calls it again if the future is done by now.
FinishIfDone ==
    /\ request.at = "attached"
    /\ IF run[request.run].done THEN Finish(request.run) ELSE UNCHANGED registry
    /\ Answer
    /\ UNCHANGED <<worker, open, status, dirs, sweep>>
    /\ run' = Collected(run)

(***************************************************************************)
(* babelcodex_cancel_job, babelcodex_cleanup_job, and the end of stdin.    *)
(***************************************************************************)
\* Cancelling a job that is not registered only reports its status.
CancelJob(j) ==
    /\ open /\ request.at = "idle" /\ status[j] # "absent" /\ active[j] # NoRun
    /\ run' = [run EXCEPT ![active[j]].cancel = TRUE]
    /\ UNCHANGED <<registry, worker, request, open, status, dirs, sweep>>

CleanupLoad(j) == status[j] # "absent" /\ Serve(j, "cleaning")

\* Mutant: only the record that was loaded decides.
BusyByRecord == request.seen \in Active

\* A future that is not done, or the status loaded before it was looked up.
Busy ==
    \/ futures[request.job] # NoRun /\ ~run[futures[request.job]].done
    \/ request.seen \in Active

CleanupCheck ==
    /\ request.at = "cleaning"
    /\ IF Busy THEN Answer ELSE request' = [request EXCEPT !.at = "removing"]
    /\ UNCHANGED <<registry, run, worker, open, status, dirs, sweep>>

RemoveWorkDir ==
    /\ request.at = "removing"
    /\ dirs' = dirs \ {stem[request.job]}
    /\ Answer
    /\ UNCHANGED <<registry, run, worker, open, status, sweep>>

\* Mutant: the server closes without telling the run.
CloseQuietly ==
    /\ open /\ request.at = "idle"
    /\ open' = FALSE
    /\ active' = [j \in Jobs |-> NoRun] /\ futures' = [j \in Jobs |-> NoRun]
    /\ queue' = <<>>
    /\ UNCHANGED <<run, evicted, current, phase, request, status, dirs, sweep>>

\* Every registered event is set, the registry cleared, queued runs dropped.
Close ==
    /\ open /\ request.at = "idle"
    /\ open' = FALSE
    /\ active' = [j \in Jobs |-> NoRun] /\ futures' = [j \in Jobs |-> NoRun]
    /\ queue' = <<>>
    /\ UNCHANGED <<evicted, current, phase, request, status, dirs, sweep>>
    /\ run' = Collected([r \in Runs |->
                  [run[r] EXCEPT !.cancel = @ \/ \E j \in Jobs : active[j] = r]])

-----------------------------------------------------------------------------
(***************************************************************************)
(* The executor's thread: start_translation of the service, run_one.       *)
(***************************************************************************)
Job == run[current].job

Moves(to, saved) ==
    /\ phase' = to
    /\ status' = [status EXCEPT ![Job] = saved]
    /\ UNCHANGED <<registry, run, queue, current, request, open, sweep>>

Take ==
    /\ phase = "idle" /\ queue # <<>>
    /\ current' = Head(queue) /\ queue' = Tail(queue) /\ phase' = "claimed"
    /\ UNCHANGED <<registry, run, request, open, status, dirs, sweep>>

\* A completed job is skipped; a job without attempts left raises.
EndEarly ==
    /\ phase = "claimed" /\ Moves("ended", status[Job])
    /\ UNCHANGED dirs

\* RUNNING is saved ...
BeginAttempt ==
    /\ phase = "claimed" /\ status[Job] # "completed" /\ Moves("starting", "running")
    /\ UNCHANGED dirs

\* ... and run_worker makes the directory and starts the worker in it.
StartWorker ==
    /\ phase = "starting" /\ Moves("looking", status[Job])
    /\ dirs' = dirs \cup {stem[Job]}

\* The loop of _communicate looks at the event, then waits a quarter second.
Look ==
    /\ phase = "looking" /\ ~run[current].cancel /\ Moves("waiting", status[Job])
    /\ UNCHANGED dirs

Terminate ==
    /\ phase = "looking" /\ run[current].cancel /\ Moves("killing", status[Job])
    /\ UNCHANGED dirs

\* The client waits for the pipes of the worker it kills, in the end without a
\* limit; only then does it raise.
Terminated ==
    /\ phase = "killing" /\ Moves("ended", "at_rest")
    /\ UNCHANGED dirs

StillRunning ==
    /\ phase = "waiting" /\ Moves("looking", status[Job])
    /\ UNCHANGED dirs

\* The worker answered, or it was killed at the deadline.
Translated(outcome) ==
    /\ phase = "waiting" /\ Moves("ended", outcome)
    /\ UNCHANGED dirs

\* The future is FINISHED before its callbacks are called.
SetResult ==
    /\ phase = "ended"
    /\ IF run[current].callback
         THEN phase' = "notifying" /\ UNCHANGED current
         ELSE phase' = "idle" /\ current' = NoRun
    /\ UNCHANGED <<registry, queue, request, open, status, dirs, sweep>>
    /\ run' = Collected([run EXCEPT ![current].done = TRUE])

Notify ==
    /\ phase = "notifying"
    /\ Finish(current)
    /\ phase' = "idle" /\ current' = NoRun
    /\ UNCHANGED <<queue, request, open, status, dirs, sweep>>
    /\ run' = Collected(run)

-----------------------------------------------------------------------------
(***************************************************************************)
(* babelcodex cleanup with a retention of 0: the stems of the active jobs  *)
(* are collected first, the directories removed one by one after that.     *)
(***************************************************************************)
\* Mutant: what is kept is the jobs, where the directories are compared.
ActiveIds(jobs) == {j \in jobs : status[j] \in Active}

\* Mutant: only jobs that wait for a retry count as active.
ActivePending(jobs) == {stem[j] : j \in {k \in jobs : status[k] = "retry_pending"}}

ActiveStems(jobs) == {stem[j] : j \in {k \in jobs : status[k] \in Active}}

\* A worker process has its files in the directory of the run.
AtWork == phase \in {"looking", "waiting", "killing"}

SweepScan ==
    /\ ~sweep.on
    /\ sweep' = [on |-> TRUE, keep |-> ActiveStems(Jobs),
                 began |-> IF phase = "starting" \/ AtWork THEN current ELSE NoRun]
    /\ UNCHANGED <<registry, run, worker, request, open, status, dirs>>

SweepRemove(s) ==
    /\ sweep.on /\ s \in dirs \ sweep.keep
    /\ dirs' = dirs \ {s}
    /\ UNCHANGED <<registry, run, worker, request, open, status, sweep>>

SweepEnds ==
    /\ sweep.on /\ sweep' = NoSweep
    /\ UNCHANGED <<registry, run, worker, request, open, status, dirs>>

-----------------------------------------------------------------------------
Handle ==
    \/ RefuseActive \/ \E r \in Runs : Submit(r)
    \/ RegisterFuture \/ Attach \/ FinishIfDone
    \/ CleanupCheck \/ RemoveWorkDir

Request ==
    \/ \E j \in Jobs : StartLoad(j) \/ CancelJob(j) \/ CleanupLoad(j)
    \/ Handle
    \/ Close

Worker ==
    \/ Take \/ EndEarly \/ BeginAttempt \/ StartWorker
    \/ Look \/ Terminate \/ StillRunning \/ SetResult \/ Notify

Next ==
    \/ Request
    \/ Worker \/ Terminated
    \/ \E outcome \in {"completed", "at_rest"} : Translated(outcome)
    \/ SweepScan \/ SweepEnds \/ \E s \in Stems : SweepRemove(s)

Spec == Init /\ [][Next]_vars

\* The threads are scheduled.  That a worker ever answers is not assumed, nor
\* that the pipes of a worker that was killed are closed.
FairSpec == Spec /\ WF_vars(Worker) /\ WF_vars(Handle)

-----------------------------------------------------------------------------
(* What an entry of the registry stands for is live, about to be unregistered
   by its own callback, or just being registered: a job that has ended is
   never refused as "already active" (mcp.py:253) once things are quiet.   *)
RegisteredIsLive ==
    \A j \in Jobs : \A r \in {active[j], futures[j]} \ {NoRun} :
        Live(r) \/ current = r \/ request.run = r

(* A live run of an open server can be cancelled and keeps its job from being
   started again, unless the late callback of an earlier run unregistered it:
   the future is FINISHED before its callbacks run (mcp.py:271, 276).      *)
LiveIsRegistered ==
    open => \A r \in Runs : Live(r) => active[run[r].job] = r \/ r \in evicted

(* cleanup_job never removes the directory a run works in, although the record
   it decides from was loaded before, unless that run was unregistered by the
   callback of another (mcp.py:322-328).                                   *)
CleanupSparesRuns ==
    [][request.at = "removing" /\ request'.at = "idle"
           /\ AtWork /\ current \notin evicted
       => dirs \cap {stem[Job]} \subseteq dirs']_vars

(* A sweep spares the directory of a run that had been marked RUNNING when the
   sweep read the jobs (workdir.py:70).  One that begins later has no such
   promise, nor has one whose record a second start overwrote.             *)
SweepSparesRuns ==
    [][sweep.on /\ sweep'.on /\ AtWork
           /\ sweep.began = current /\ current \notin evicted /\ request.at # "removing"
       => dirs \cap {stem[Job]} \subseteq dirs']_vars

(* Closing the server stops the run under way even if its worker never
   answers, and with it the process, which waits for the thread; unless the
   worker is killed and a process it left behind holds its pipes.  A run that
   the callback of another unregistered is not told (mcp.py:148-152).      *)
CloseStopsRun ==
    (~open /\ current \notin evicted) ~> (current = NoRun \/ [](phase = "killing"))
=============================================================================
