# BabelCodex: TLA+ models and proofs

BabelCodex translates PDFs. A job is one PDF under one configuration; its
record is a JSON file that the command line, the GUI's sidecar process and the
MCP server all read and write. The hard part of the program is not the
translation but what happens around it: who owns a job, what a crash or a
failed save leaves behind, which failures are tried again and how often, how a
cancel reaches a run, and how the GUI learns what happened. That is what these
modules model. Paths below are relative to the repository; Python paths to
`src/codex_babeldoc/`.

## 1. Inventory

| Component | State it keeps | Operations | What makes it correct |
|---|---|---|---|
| Retry policy, `core/errors.py` | none | classify an exception; limit of a category | every limit is between 1 and the ceiling; what is transient stays transient |
| Job state store, `core/state.py` | one JSON file per job | load, save (temporary file, `os.replace`, five tries), list, recovery scan | a record is never a mixture of two; only orphans are terminalized |
| Job runs, `core/orchestrator.py` | a `JobState` object per run | `run_one`: attempts, back-off, outcomes | the attempt ceiling; no active record without a run; COMPLETED is durable |
| Artifact manifest, `core/artifact_manifest.py` | hashes inside the record | `validate_artifacts` | a recorded hash is never replaced |
| Application service, `application/service.py` | none | start, retry, validate_output, run_qa, cleanup, glossary, context | a request does not undo a run |
| Sidecar runs, `application/sidecar.py` | `_running`, the executor's queue, `_closed` | start, retry, cancel, close; worker thread `_run_job` | what is live can be cancelled; what is not live is not "active" |
| Sidecar events, same file | bounded log, next sequence number | `_emit`, `poll_events` | a slow client notices what it missed |
| GUI job store, `gui/src/jobStore.ts` | job list, cursor, connection | connect, reconnect, poll, apply events, requests | once caught up it shows what is on disk; it does not kill a healthy sidecar |
| Worker client, `backends/worker_client.py` | the child process | start, wait in slices of 0.25 s, cancel, deadline | cancel and deadline are honoured; the wait ends |
| Worker process, BabelDOC backend, `backends/` | none that lasts | one translation | one result or one classified error |
| MCP server, `application/mcp.py` | `active`, `futures`, executor | tools for start, cancel, validate, cleanup; close | as for the sidecar |
| Batch worker, `translation/batching.py` | queue, flush event, shutdown flag | submit, drain, flush, shutdown | every caller gets its own result or an error, in bounded time |
| Gateway and cache, `translation/` | SQLite table | look up, translate, validate, repair, store | only valid texts are cached |
| Codex thread, `translators/codex_sdk.py`, `translation/thread_state.py` | thread, turn counter, persisted thread id | prime, translate, compact, rotate | the persisted thread is one that was primed |
| Configuration, `core/config.py` | YAML file and one backup | load, save | a crash never loses both |
| Working directories, `core/workdir.py` | directories `job-*` | sweep, remove | never that of an active job |
| PDF QA, glossary, context, CLI, logging, Tauri host | none that interacts | pure checks, formatting, forwarding | outside these models |

How they interact: a front end (CLI, sidecar, MCP) calls the service, the
service calls `run_one`, `run_one` writes the record through the store and
starts a worker process; progress and outcomes come back through callbacks,
become numbered events in the sidecar, and are polled by the GUI. The record on
disk is the only thing independent processes share, and there is no lock on it
between a load and the save that follows.

The behaviours that are hard: several processes on one record; read, think,
write back (recovery scan, `validate_output`, `run_qa`, `_start_translation`); a
crash between any two saves; a save that raises inside the exception handler; a
cancel that races queue, start, answer and deadline; pipes that outlive the
process that wrote to them; callbacks that come after the registry has moved
on; a bounded log read with a cursor by a client whose requests overlap; a cache
that outlives the settings it was filled under; a thread of the SDK that is
replaced while it is in use. `PROJECT.json` lists each with its line.

## 2. Modules

| Module | Models | State and actions |
|---|---|---|
| `RetryPolicy` | `core/errors.py` | operators with the names of the functions; a policy is a partial function from strings to integers |
| `JobRunner` | one job: the record, every `run_one` on it, the requests and the two front ends that rewrite it, the recovery scan, processes that start and die | `disk` is the JSON file, `output` the PDF, `run[p]` a `run_one` of process `p` with its `JobState` and the exception in hand, `held[p]` the copy a scan or a request read, `life[p]` the process. One action per stretch of code between two accesses to shared state |
| `JobLifecycle` | what the record promises to a reader: status and attempts only | implemented by `JobRunner` (`LifecycleSpec`) |
| `Sidecar` | requests against the worker thread of the sidecar, several jobs | `registry` is `_running`, `handle` the `_RunningJob` objects, `queue` the executor's, `phase` where `_run_job` and `_communicate` stand (the two waits after SIGTERM and the unlimited one after the deadline are phases of their own), `status` what the store has |
| `EventFeed` | sidecar and GUI store around the event log | `log`, `next` are `_events`, `_next_sequence`; `asked`, `answered` the pipe in both directions; `shown`, `cursor`, `conn` the GUI's snapshot |
| `McpServer` | the serving thread and the executor's thread of the MCP server, the working directories, and `babelcodex cleanup` beside them | `active`, `futures` as in the code, `run` the futures with their cancel events, `request` where the serving thread stands and what it read, `dirs` the directories by stem, `sweep` the other process |
| `WorkerCall` | what `run_worker` promises to `run_one`: one outcome with a cause, and the progress that belongs to it | implemented by `WorkerClient` (`CallSpec`) |
| `WorkerClient` | `run_worker` and `_communicate`, the worker process from its request to its exit status, the SDK's process inside it | `client`, `worker` the two places; `signal`, `code`, `out`, `polluted`, `reported`, `heir` what passes between them; `outcome`, `delivered` what the caller gets |
| `BatchWorker` | `translation/batching.py` | `queue`, `batch`, `shut` as in the code, `worker` the thread, `stopping` where `shutdown` stands, `answer` what each pending request was told |
| `Validation` | `validate_translation` and the token inventories | operators on texts abstracted to what these look at; no variables |
| `Gateway` | `translate` of the gateway with cache, validation and repairs, through the translator or a `BatchWorker`, for several gateways on one cache | extends the two above; `cache` the SQLite rows by key, `phase`, `repairs`, `result` of each caller, `settings` what this gateway was built with |
| `CodexThread` | the Codex translators of one document: constructor, `translate`, compaction, rotation, the saved thread state | `state` the file, `thread`, `lock`, `turns` the fields of each translator, `life` where it stands, `phase` where each of its callers stands; `primed`, `context` (the texts a thread has taken) and `uncounted` (those the counter leaves out) are history |
| `MC...` | instances for TLC | sets, policies, symmetry |
| `...Proofs` | theorems and proofs | |

They compose where the components do. `Gateway` extends `BatchWorker`, whose
actions it uses as parts of its own. `JobRunner` sees a worker as the result or
the exception of one call (`Raised`); `WorkerCall` says what such a call promises
and `WorkerClient` is shown to implement it. `Sidecar` and `McpServer` repeat the wait loop of
`_communicate` as far as the cancel goes, and know of the record only the
statuses their tools tell apart; what a run does to it is `JobRunner`.
`CodexThread` is one of the translators that `Gateway` leaves open.

Operators whose comment begins with "Mutant:" are not part of any
specification. Each is a definition with one plausible mistake in it; putting
it in the place of the right one makes the property beside it in
`PROJECT.json` fail, which shows that the property can fail.

### Abstractions, by module

`JobRunner`
- Every call of `StateStore.save` in the program is an action here: those of
  `run_one`, the recovery scan, `validate_output` and `run_qa`, the sidecar's for a
  run cancelled in its queue (`LoadCancelled`, `SaveCancelled`), and that of the
  start tool of the MCP server (`LoadForStart`, `SaveForStart`). When either of the
  last two applies depends on a queue or a registry that `Sidecar` and `McpServer`
  have, so here it may come whenever the thread that does it is free.
- A process is an incarnation, so pids are not reused: `_process_is_alive` on a
  pid that now belongs to another program is not modelled.
- `os.replace` is atomic, so load and save are single steps. With `DiskFaults`
  a save may raise, having changed nothing (five failed tries).
- The output is named by the process that wrote it, or is `foreign`,
  `not_a_pdf` or missing; this is what the hash and header checks can tell
  apart. With `Tampering` it may change at any time; that also stands for a
  worker that outlives its parent and writes late.
- `Raised` lists the exceptions that `run_one` can tell apart in each worker
  mode. The cancel event is only looked at in subprocess mode.
- A v1 record is not modelled, nor is a record that cannot be parsed; a load
  that raises leaves `run_one` (`CannotRead`).
- `spent` is a history variable: translations begun since the attempt count was
  last reset. It saturates one above the ceiling.

`Sidecar`
- worker mode is `subprocess`, the default; a run makes one attempt because a
  worker's failure is never retried there (see the run `JobRunnerWorkerRetry`).
- A COMPLETED job whose artifacts are damaged goes from the claim straight to
  RUNNING; the intermediate DISCOVERED save is in `JobRunner`.
- A handle can be used again once nothing refers to it, as Python's
  allocator would do with the object.
- `Restart` is the next sidecar process; its scan is reduced to its effect when
  the old process is gone.

`EventFeed`
- Requests and replies are first in, first out, which is what the pipe and the
  sidecar's loop give; the GUI may have several under way.
- The executor's queue is a set: order between jobs is not what these
  properties are about.
- Cancelling is visible as the outcome `cancelled`; the event
  `cancel_requested` is ignored by the store and counts as `Progress`.
- `reconcileJobs` has nothing to do after a fresh sidecar's scan and is left
  out. Opening a job's details sends one `get_job`.
- `registered` keeps what `_running` keeps, with the entry that
  `DropCancelled` leaves behind.

`McpServer`
- The tools that change nothing are left out; `validate_output` and `run_qa` are
  requests of `JobRunner`.
- DISCOVERED, FAILED and CANCELLED are one status, which is all the tools tell
  apart; with one attempt, RETRY_PENDING does not occur.
- A future can be used again once nothing refers to it (`Collected`).
- A run that is told to stop kills its worker and waits for its pipes (phase
  `killing`); this wait need not end.
- The sweep is that of a retention of 0; a retention only keeps more. One sweep
  of a directory is one step, its five tries included.

`WorkerClient`
- A pipe is what it held and whether anything still holds it open. The reading
  threads of `communicate` are not separate: it returns when both pipes are
  closed and the worker is dead.
- A polluted answer is one a library's output on descriptor 1 was mixed with;
  `json.loads` then fails.
- The `finally` of `run_worker`, which kills a worker that is still alive, is left
  out: `NoOrphan` says that it never finds one.
- `heir` is the SDK's process: started while the worker prepares, stopped when
  the adapter is closed, left behind by a crash or a kill.

`BatchWorker`, `Gateway`
- In the program as it is, only tests and a benchmark use a batch worker; the
  gateway of a run calls its translator directly. Both are checked
  (`batching`).
- The handler of a batch and the translator are external: any text, any subset
  of the results, or an exception.
- Taking from the queue and the counts of `_drain` are one step, since the lock
  is held. The metrics are left out: nothing but a report reads them.
- A text is its token counts, its links, its blemishes and a length; `Valid` is
  what `validate_translation` decides from these. Cache rows older than the
  limit are misses (`Expire`).

`CodexThread`
- Threads are numbered as they are started. Load and save of the state file are
  single steps that may raise, a save also after it has replaced the file.
- `Vanish` is `close` and the death of the process alike: BabelDOC's threads may
  be anywhere when either comes.
- The text of a turn is left out; what is kept is whether it was answered. A turn
  that has run stays in the thread, whoever resumes it and whether or not it was
  answered; the counter belongs to the translator and starts at 0. The turns that
  prime a thread are not among those counted in `context`.

## 3. Runs

| Run | Question | Result |
|---|---|---|
| `JobRunnerTurns` | processes one after another, failing saves, tampering, in-process backend: ceiling, ownership, durable completion, retry policy | holds |
| `JobRunnerLive` | saves that succeed, fair threads, an operator's retry limits: does the record refine `JobLifecycle`, has every active record a run behind it, does every run end whose backend returns, is a pending retry resolved | holds |
| `JobRunnerRequests` | requests and front ends that write the record during a run, subprocess mode, failing saves: are the fields of the record consistent | holds |
| `JobRunnerWorkerRetry` | are transient worker failures retried | violated |
| `Sidecar` | registration, cancel, leftovers; does every accepted run end | holds, unless the pipes of a killed worker are held |
| `Feed` | is every lost event noticed, is the cursor valid, is the GUI current once it has caught up | holds while a page is as long as the log |
| `FeedTruncated` | the same with the page shorter than the log, as in the code | violated |
| `McpServer` | what the registry knows, which directories a cleanup spares, does closing stop the run under way | holds, with the exceptions below |
| `WorkerClient` | does the call have one outcome with its cause, is no worker left behind, does a cancelled or overdue call end | holds |
| `Gateway` | is every returned text valid for its segment and settings, do segments that cannot be translated fail, do calls end | holds |
| `CodexThread` | is what is saved, and translated in, a primed thread; one turn at a time; are the counted turns compacted in time; does every caller return | holds for one translator at a time |
| `CodexThreadShared` | one turn at a time with two translators of one stem | violated |

What the properties say:

- `BudgetRespected`: between two resets of the count, crashes and restarts
  included, a job is translated at most `max(1, max_retries)` times.
- `ServingOwnsActive`: once a process has made its scan, an active record names
  that process. `ActiveMeansWorking`: and a run of it is at work. The second
  needs saves that succeed: when the last save of a run raises, the record says
  RUNNING under a live pid until the process exits.
- `RecordConsistent`: status, attempts, pid, error category, stage, artifacts
  and QA verdict of the record agree. Every writer writes whole records from a
  copy of its own, so this is about the copies. A record the sidecar has marked
  CANCELLED unrun keeps the other fields of the status it had, the error category
  of a failure included; CANCELLED is therefore consistent with the fields of any
  status, and nothing else is.
- `CompletionDurable`: COMPLETED is only left by a forced run, because the output
  is not the one recorded, or for CANCELLED when a run was cancelled in the queue.
  `TransientFailuresRetried`: about giving up.
- `LifecycleSpec`: status and attempts move only as `JobLifecycle` allows, where
  CANCELLED ends an attempt (`End`) or replaces any status that is not active
  (`Drop`). `RunEnds`: every `run_one` ends, unless its call of the backend never
  returns. `PendingResolves`: a job that waits for a retry gets it or its process
  is dead.
- `LiveRunsRegistered`, `OnlyDroppedRunsLinger`, `CancelHonoured`, `RunsEnd`:
  every live run can be reached; the only stale entry is that of a run
  cancelled in the queue; a run cancelled before its worker was waited for does
  not complete; accepted runs end or are dropped at close, unless the worker
  thread waits for pipes that a killed worker has left to another process.
- `NoSilentLoss`, `CursorNotAhead`, `CaughtUpIsCurrent`: the cursor passes only
  what the GUI has heard of, never the numbering of the present sidecar, and a
  quiet system is shown as it is.
- `RegisteredIsLive`, `LiveIsRegistered`, `CloseStopsRun`: the MCP registry
  names live runs and those just ending or beginning; a live run is in it; closing
  stops the run under way even if its worker never answers, unless it was
  unregistered or the pipes of the killed worker are held. `CleanupSparesRuns`,
  `SweepSparesRuns`: no directory is removed under a run that the one who removes
  it could have known of.
- `CallSpec`: a call has one outcome, with its cause: a result the worker wrote, a
  cancel, the deadline; progress is passed on once, all of it or, after the
  deadline, none. `NoOrphan`: no worker survives its call. `CallEnds`: a cancelled
  or overdue call ends, unless the worker is dead and something it left behind
  holds the pipes.
- `OnlyValidTexts`: whatever the route (translator, batch, repair, cache), a
  returned text was made for this segment under these settings and is valid for
  it. `TornSourcesFail`: a segment whose own tags do not pair has no valid
  output, so its call fails after every repair, with an error that is not
  retryable. `CallsEnd`: each call ends without its time-out.
- `SavedIsPrimed`, `TurnsArePrimed`: the id on disk, and the thread a text is
  translated in, is one that answered READY. `OneTurnPerThread`. `CountedTurnsBounded`:
  turns are counted after the lock was given up, so a thread may outgrow the
  limit, by less than the number of callers, beyond the turns the counter leaves
  out (`uncounted`). `GenerationGrows`: each save is one generation further. `CallsReturn`: no failure leaves the lock taken.

### Findings

Each violated run checks one statement made by a document or a comment of the
repository; `PROJECT.json` quotes it. In short:

1. `WorkerClientError` is not a `BabelCodexError`, so in subprocess mode nothing
   is ever retried (`JobRunnerWorkerRetry`).
2. A poll that is cut to 128 events moves the cursor past the rest
   (`FeedTruncated`).
3. The turn lock belongs to the translator and the saved thread to the stem of
   the PDF: two processes that translate PDFs of one stem use one thread at
   once (`CodexThreadShared`).

### What the checked properties do not cover

A property that holds only under a restriction says so here, with what happens
without it. Where a constant is named, changing it in the configuration of the
run shows it in a short trace.

- `BudgetRespected` is for processes that take turns. With `Overlap = TRUE` two
  processes that run one PDF count from the same value, since `run_one` takes no
  ownership of the job, and exceed the ceiling (`JobRunnerTurns`).
- `ServingOwnsActive` and `CompletionDurable` likewise. The recovery scan judges
  and writes back the copies `list_jobs` read, so of two processes that start at
  once one may mark a job as crashed that the other has just taken over, or has
  completed.
- `RecordConsistent` says that the fields agree, not that they are the latest.
  `validate_output` and `run_qa` write back the status they read: between two
  attempts the record says FAILED, so the request is admitted, and it may undo
  RETRY_PENDING, RUNNING or COMPLETED. The start tool of the MCP server does the
  same when another process, or a run its registry has lost, works on the job.
  `BudgetRespected`, `ServingOwnsActive`, `CompletionDurable`, `LifecycleSpec` and
  `ActiveMeansWorking` are therefore checked and proved without these requests
  (`Requests = {}`); the sidecar's CANCELLED is always among the writers.
- A completed job whose next run is cancelled in the queue is recorded as
  CANCELLED, although its output is there and good. `CompletionDurable` and `Drop`
  name the case; nothing excludes it.
- `RunEnds` leaves out a call of the backend that never returns. In `in_process`
  mode nothing limits it: there is neither a deadline nor a cancel.
- `LifecycleSpec` and `ActiveMeansWorking` are for saves that succeed. With
  `DiskFaults = TRUE` a run can end while the record says RUNNING under a pid
  that is alive (`JobRunnerLive`).
- `LiveRunsRegistered` is for clients that do not start a job that is queued or
  running. With `DuplicateStarts = TRUE` the second start replaces the first
  handle and one of the two runs is out of reach of `cancel_job` (`Sidecar`).
- `OnlyDroppedRunsLinger` has the exception in its name: a run cancelled in the
  queue stays registered, and its job can never be retried in that sidecar
  ("already active").
- `NoSilentLoss` and `CaughtUpIsCurrent` are for polls that find no more than a page
  (`FeedTruncated`).
- `CaughtUpIsCurrent` leaves out a job whose last run was told as `job_failed`,
  which carries no status, so the job looks as if it were running; and a new job
  that has no state file when the list is refreshed, whose later events are
  ignored until the next list.
- The GUI reconnects after any refused request, which kills and replaces a
  sidecar that is well (`Rejected`, `Reconnect`); no property forbids it.
- `LiveIsRegistered`, `CleanupSparesRuns`, `SweepSparesRuns` and `CloseStopsRun`
  leave out a run that the late done callback of the run before it has removed
  from the registry (`evicted`): a future is finished before its callbacks are
  called, and the callback removes by job id. Such a run can be neither cancelled
  nor seen by `close`, and its directory is not protected; development-plan.md:1077
  says that closing tells the active jobs.
- `SweepSparesRuns` is about runs that were RUNNING when the sweep read the records.
  A job that starts between that and the removal loses its directory, although
  ADR-027 says that an active job is never cleaned up.
- `SweepSparesRuns` also leaves out a run whose RUNNING a second start overwrote
  with the record it had loaded. Jobs of one stem share one directory: with a
  `stem` that maps both to `s1`, cleaning up one job removes the directory the
  other works in (`McpServer`).
- `CallEnds`, `RunsEnd` and `CloseStopsRun` leave out a killed worker whose heir
  holds the pipes: the last `communicate` has no limit, and with it hang the call,
  the queue behind it and the process that was to close. `CallSpec` lets a cancelled call report a timeout,
  since the second wait after a cancel ends in the handler of the deadline.
- `CallsEnd` leaves out a request queued after `shutdown` has emptied the queue
  (`Forgotten`), which waits for its whole time-out.
- `CountedTurnsBounded` does not bound a thread. A thread is resumed with the turns
  of all earlier attempts while the counter starts at 0, and a turn that ran but was
  answered empty is never counted; of both there may be any number.
- `GenerationGrows`, `OneTurnPerThread` and `CountedTurnsBounded` are for translators
  that do not live at once (`Overlap = FALSE` in `CodexThread`). `close` stops no
  caller: in `in_process` mode a thread of BabelDOC that goes on after an error, next
  to the translator of the next attempt, is such an overlap.

### Bounds, and why they are enough

- `JobRunner`: processes take turns in every run (`Overlap = FALSE`); what holds
  for processes at once is proved (`RecordAlwaysConsistent`,
  `TransientFailuresAreRetried`). Three in turns allow a crash during the recovery
  from a crash, two a crash and a recovery. The requests of `JobRunnerRequests` come
  at any point of a run of the same process, which gives every pair of conflicting
  load and save.
  `max_retries` is 2 or 3: two is the least with a retry, three the least at which
  the category limits (2 for BabelDOC, 3 for translation) differ from the
  ceiling. `OperatorPolicy` has a limit above the ceiling and one below 1.
- `Sidecar`: with two jobs one waits while the other runs; three handles allow
  one running, one queued and one stale. A new handle is a fixed choice among the
  free ones (handles have no identity), which keeps the instance small where
  symmetry cannot be used.
- `EventFeed`: a log of 2 to 4 events instead of 512 and 128. Only their order and
  the possibility of an overflow matter to the code. `MaxEvents` (5 or 6) bounds
  the events of one sidecar process; the guard `Room` keeps space for the events
  that runs under way still owe, so that no run is stuck for the bound. A
  reconnect starts a new log. `MaxInFlight` (2) bounds the requests the GUI has
  under way, so that two polls, or a poll and a resync, overlap.
- `McpServer`: two jobs and two futures: one run ends while the next of the same
  job, or of the other, begins. One request at a time and one worker thread are
  the code's own limits.
- `WorkerClient`: one call; two progress events tell "once" from "all". The clock
  is a flag, since the code only compares it with one deadline; slices of the
  wait repeat without a bound.
- `Gateway`: two callers, so that a batch can mix one that pairs and one that does
  not, one that has timed out and one that waits; batches of two, with a size
  limit two paired segments exceed; one repair, so that there is a first and a
  last; two gateways with two settings, so that the second finds rows of the
  first under the same and under other settings.
- `CodexThread`: two attempts of the job, one after the other (or at once in
  `CodexThreadShared`), two callers, a limit of two turns and three threads: a
  compaction, a failed rotation, another one and a resumed thread fit into one
  behaviour, and a turn is counted after the other caller's next. `MaxContext` (1)
  only limits turns answered empty, which nothing else does: a thread that holds
  one takes no empty turn any more. The theorems have neither bound.
- Deadlock is checked for `Sidecar`, `EventFeed`, `McpServer` and `WorkerClient`,
  where a finished call stutters (`Done`). In `JobRunner` all processes may be
  dead, and none need be started; in `Gateway` and `CodexThread` the calls end and
  the last gateway or attempt is closed.
- Symmetry is used for invariants and action properties only.

### Fairness

- `JobRunner`: weak fairness of each process's scan and of the steps its run takes
  by itself (`OwnStep`). A thread that is not blocked is scheduled, and a sleep ends.
  The call of the backend (`BackendStep`) is not among them: in `in_process` mode,
  which `JobRunnerLive` has, it has no deadline. Starting a process, a run or a
  request and crashing are never fair.
- `Sidecar`: weak fairness of the worker thread; its waits for the worker are slices
  of a quarter second, or of five seconds after SIGTERM. Strong fairness of `Expire`:
  the loop compares the clock with a fixed deadline, so it cannot go round for ever.
  What follows the deadline, `RaiseTimeout`, is not fair: that `communicate` has no
  limit. Nothing is assumed of the worker, nor that requests arrive.
- `McpServer`: weak fairness of the worker thread and of a request under way.
  Neither that a worker ever answers (`Translated`) is assumed, nor that the pipes of
  a killed one are closed (`Terminated`).
- `WorkerClient`: weak fairness of the thread, and that SIGKILL is obeyed. Nothing
  is assumed of the worker, of SIGTERM, or of what holds the pipes.
- `Gateway`: callers run, turns of the translator and of the handler end, the
  worker thread is scheduled and the join in `shutdown` gives up. That the wait
  in `submit` gives up too is left out, since `CallsEnd` is to hold without it.
- `CodexThread`: calls of the SDK and of the store end, answered or not. Strong
  fairness of `CountTurn` says that a caller that finds the lock free again and
  again gets it; Python's lock promises no order, but does not starve a waiter
  for ever.
- `EventFeed` has no liveness property: with a bounded number of events, what
  "eventually" says would be about the bound.

## 4. Proofs

Proved by TLAPS for all values of the constants that meet the assumptions
named in the modules (nulls are not members, `max_retries` and policy limits
are integers, settings are among the named ones, sets of callers and handles are
finite).

`JobRunner`
- `RetryLimitBounds`: a category's limit is between 1 and the ceiling.
- `TypeCorrect`: `Spec => []TypeOK`.
- `RecordAlwaysConsistent`: `Spec => []RecordConsistent`, with overlap,
  requests, failing saves and tampering allowed. `RecordConsistent` is not
  inductive: what the next save writes depends on copies. `ConsistencyInv`
  adds that every held copy is consistent, and for each place in `run_one`
  what its `JobState` and exception must satisfy there (`RunConsistent`). Most
  places are easy; the exception handler is not, since the save at COMPLETED
  can itself raise and the handler then starts from a record with no pid.
  `RunConsistent` therefore ties "no pid" to the exception that arises there,
  which is not retryable, so such a record never becomes RETRY_PENDING.
  The run that was cancelled in the queue is a place of its own (`dropping`), whose
  copy is a consistent record of any status.
- `BudgetHolds`: `Spec => []BudgetRespected` when `~Overlap` and there are no
  requests. `BudgetInv` says that at most one process is alive, that the scan's
  copy is the file, that the run's count is the file's except where `force` has
  cleared it, and that `spent` never exceeds the count on disk and is below it
  when the backend is about to be called. The assumption is needed
  (section 3).
- `ServingAlwaysOwnsActive`, `CompletionIsDurable`: `Spec => []ServingOwnsActive`
  and `Spec => CompletionDurable`, under the same two conditions, failing saves
  included. `OwnershipInv` adds to the two invariants above what each place of
  `run_one` knows of the file (`OwnsRecord`): past the first check it has left
  COMPLETED behind, and its object names its own process or none. A run that was
  cancelled in the queue holds what the file says, so what it writes over COMPLETED
  is CANCELLED and nothing else.
- `ActiveAlwaysMeansWorking`, `ImplementsLifecycle`: `Spec => []ActiveMeansWorking`
  and `Spec => LifecycleSpec` when, besides, saves do not fail. `LifecycleInv` adds
  `StatusFollows`: the status on disk is a function of where the run stands. Every
  step is then one step of `JobLifecycle` or a stutter; `SaveCancelled` is `Drop`,
  since no record is active while the thread that runs jobs drops one. The rule that a run that
  ends has left the active statuses is where a failing save would break it.
- `TransientFailuresAreRetried`: `Spec => TransientFailuresRetried` in in-process
  mode, with overlap, requests and failing saves. `HandlesRaised` says that the
  exception `run_one` handles is one that can be raised there, and
  `classify_exception` keeps the category and the flag of each of those.

`Sidecar`
- `TypesCorrect`: `Spec => []TypeOK` for a finite set of handles. The length of the
  queue is bounded because it holds no handle twice, and exactly those that wait
  (`QueueInv`).
- `RunsReachable`: `Spec => []LiveRunsRegistered` if clients do not start live
  jobs twice; it does not hold without that condition.
- `CancelAlwaysHonoured`: `Spec => CancelHonoured`, without that condition. Its
  invariant says that a doomed handle has its cancel flag set and is not the
  one whose wait is under way.
- `OnlyDroppedLinger`: `Spec => []OnlyDroppedRunsLinger`, also with duplicate
  starts. When the worker drops a cancelled run it leaves the entry, which then
  must not hide another run of that job. `EntryInv` gives this from the order of the
  queue: of several runs of a job the registered one was submitted last, so none is
  left behind it.

`WorkerClient`
- `WellTyped`, `NoWorkerLeft`: `Spec => []TypeOK` and `Spec => []NoOrphan`.
  `CallInv` adds what each place of the client says of the worker (`Places`),
  of cancel and deadline (`Causes`) and of answer and progress (`Reports`).
- `ImplementsCall`: `Spec => CallSpec`, the refinement of `WorkerCall`. Each
  step of the thread, the worker, its heir or the user is one step of the
  abstract call or a stutter; `Causes` gives the cause an end needs, and
  `OutcomeTruthful` that `_parse_result` only finds a result that was written.

`Gateway`
- `WellTyped`, `ReturnsAreValid`: `Spec => []TypeOK` and
  `Spec => []OnlyValidTexts`. What a caller gets is good because what cache and
  batch worker hold is: `TextInv` says that a row is valid for the segment and
  the settings of its key, that an answer was made for its caller's segment, and
  that what is stored has been validated.
- `TornNeverTranslated`: `Spec => []TornSourcesFail`, from the same invariant and
  `TornHasNoValidOutput`: equal inventories have equal balances, so no output is
  valid for a segment whose tags do not pair.

`CodexThread`
- `WellTyped`, `SavedAlwaysPrimed`, `TurnsAlwaysPrimed`: `Spec => []TypeOK`,
  `[]SavedIsPrimed` and `[]TurnsArePrimed`, for any number of translators at
  once. Types alone are not inductive: that a thread is primed is only known to
  name an existing one through `PrimedInv`, which follows the id from `thread`
  through `former` and `found` to the file, and says that a thread being primed
  in `translate` has a former one that was. `HolderAlone` (the lock names the one
  caller inside) keeps the callers apart.
- `GenerationsGrow`, `OneTurnAtATime`: under `~Overlap`. `AloneInv` says that one
  translator lives and that, when it is about to save, what it read is still the
  file. `CodexThreadShared` shows the condition is needed for the second.
- `CountedTurnsStayBounded`: `Spec => []CountedTurnsBounded`, under `~Overlap`, since
  a second translator on the thread would add turns of its own. `Grown` says that
  the turns of the thread, less those in `uncounted`, are the counter's and those
  of the callers about to count, and that a turn only begins below the limit; it
  follows the thread that was in use before a rotation (`Counted`) until the new one
  is primed. `Fresh` says that a thread not yet started holds nothing.

`EventFeed`
- `CursorNeverAhead`: `Spec => []CursorNotAhead`. The cursor is set from replies,
  which carry numbers given out earlier. `FeedInv` types every request and reply
  under way by the numbers given out so far; `NumberedLog` says that the log holds
  the last numbers without a gap; and nothing is under way while no sidecar is up,
  so that nothing belongs to an earlier one.
- `OnlyCutPagesLose`: `Spec /\ [][PageNotCut]_vars => []NoSilentLoss`, for any sizes
  of log and page. `NewsInv` says that a poll only asks for what follows a number
  whose news has arrived, and that a reply brings, with what is known by then,
  everything up to the number it names. `PageNotCut` is a condition on polls:
  none finds more events than fit a page. It holds in every behaviour if a page is
  as long as the log, as in the run `Feed` (`LongPagesFit`, with the corollaries
  `NothingLostSilently` and `NothingShownStale`). In the code 128 is less than 512,
  a page may be cut, and `FeedTruncated` shows what then happens: the theorem says
  that nothing else loses an event.
- `WellTyped`: `Spec => []TypeOK`, the bound on the numbering included: `RoomInv`
  says that the events owed by runs that are under way or asked for fit below it,
  so the bound never stops a run.
- `CaughtUpShowsDisk`: `Spec /\ [][PageNotCut]_vars => []CaughtUpIsCurrent`. The log
  drops events and replies carry old ones, so `CurrentInv` has to say what each
  message may still claim: there is for each job a number `told` of the last event
  that speaks of it, and whoever has heard that event or a list made after it holds
  the truth. A reply about a single job carries no number; it may be stale only if
  the last word about the job is still to come, after it. `told` is an existential
  witness since the event itself may have been dropped.
- What a page does to the list (`Applied`) is a recursive function. `Induction`,
  which these proofs use for it, states induction for a set instead of a predicate
  and follows from the well-foundedness of `<` on the naturals.

`McpServer`
- `WellTyped`, `EntriesAreLive`, `LiveRunsRegistered`: `Spec => []TypeOK`,
  `[]RegisteredIsLive` and `[]LiveIsRegistered`. `ServerInv` says which place each
  run is in (`EntriesInUse`, `WorkerHolds`), how far the request that makes a run
  has got (`RequestHolds`), and that a run without callback still has a request
  that will attach or call it; `FinishDrops` states once what a callback does to
  the runs of others.
- `CleanupIsSafe`: `Spec => CleanupSparesRuns` if no two jobs share a stem.
  `FuturesHeld` makes the look at the registry conclusive and `RemovalSafe` carries
  the result to the removal. With shared stems `cleanup_job` of one job removes the
  directory of the other.
- `SweepIsSafe`: `Spec => SweepSparesRuns`, shared stems allowed. The sweep removes
  long after it has read the records. `SweepInv` says that an attempt under way had
  marked its record RUNNING, that a run the sweep found begun does not begin again,
  and that what it found begun it has decided to keep.

The invariants that carry the proofs were checked with TLC first. Lemmas state
once what is shared: which variables a kind of step changes, what replacing one
run or one record preserves.

So each safety invariant, each action property and each refinement of the passing
runs is also a theorem, under the conditions named here. Only model-checked:
liveness under fairness, which needs `ENABLED` and is out of the prover's reach:
`RunEnds` and `PendingResolves`, `RunsEnd`, `CloseStopsRun`, `CallEnds`, `CallsEnd`
and `CallsReturn`. No module declares a RECURSIVE operator.

## 5. Not modelled

- Configuration: `save_config` moves the file to its backup before it writes the
  new one, and a crash in between leaves neither. One process writes it, on
  request; there is nothing more to the behaviour than this window.
- Glossary, context, PDF QA, reports: functions of a file's content, without
  behaviour over time. Their verdicts and versions are inputs (`Content`,
  `Settings`).
- The other translators are stateless or stubs. `ValidatingTranslator` repeats the
  gateway's loop without a cache.
- The migration of v1 records, file names, path checks, the retries of
  `os.replace` and of the removal of a directory, file permissions.
- CLI, logging, the Tauri host and the rendering of the GUI: they forward.
- The SDK, BabelDOC, SQLite and the operating system are open: their calls
  answer, answer badly, raise, or do not return, as the code that calls them
  allows.

What could follow: liveness as theorems, once the prover can reason about
`ENABLED`; `save_config`, should it ever get a second writer.

## 6. Running

In this directory, with the TLA+ tools, the community modules and TLAPS
installed:

    tlc -config JobRunnerTurns.cfg MCJobRunner.tla
    tlc -config WorkerClient.cfg MCWorkerClient.tla
    tlc -config Feed.cfg MCEventFeed.tla
    tlapm CodexThreadProofs.tla
