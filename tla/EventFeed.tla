----------------------------- MODULE EventFeed -----------------------------
(***************************************************************************)
(* How the GUI learns what its jobs do.  The sidecar keeps a bounded log   *)
(* of numbered events (_emit, _poll_events in application/sidecar.py); the *)
(* GUI's JobStore (gui/src/jobStore.ts) polls it with a cursor on a timer, *)
(* asks for the list of jobs when the log has outrun the cursor, and       *)
(* starts a new sidecar when a request of its own is rejected.             *)
(*                                                                         *)
(* Requests are served in the order they were sent and their replies       *)
(* arrive in that order, but the GUI does not wait for one reply before it *)
(* sends the next request.  Events the store ignores (cancel_requested)    *)
(* count as progress; the queue's order is left open.                      *)
(***************************************************************************)
EXTENDS Integers, FiniteSets, SequencesExt

CONSTANTS
    Jobs, NoJob,
    FreshJobs,     \* jobs that have no state file when the GUI starts
    Outcomes,      \* how a run may end
    MaxRetained,   \* MAX_RETAINED_EVENTS
    MaxPerPoll,    \* MAX_EVENTS_PER_POLL
    MaxEvents,     \* bound: events one sidecar process emits
    MaxInFlight    \* bound: requests under way when the GUI sends another

ASSUME JobsAssumption == NoJob \notin Jobs /\ FreshJobs \subseteq Jobs
ASSUME OutcomesAssumption == Outcomes \subseteq {"completed", "failed", "cancelled"}
ASSUME BoundsAssumption ==
    {MaxRetained, MaxPerPoll, MaxEvents, MaxInFlight} \subseteq Nat \ {0}

VARIABLES
    disk,       \* the persisted status of each job
    registered, \* the keys of self._running
    waiting,    \* jobs accepted and not yet claimed by the worker thread
    running,    \* the job the worker thread runs
    step,       \* how far that run is
    log,        \* self._events
    next,       \* self._next_sequence
    up,         \* the sidecar process is alive
    failing,    \* history: jobs whose last outcome was told as job_failed
    asked,      \* requests the sidecar has not served
    answered,   \* replies the GUI has not handled
    shown,      \* snapshot.jobs: the status shown, or "unlisted"
    cursor,     \* snapshot.lastSequence
    conn,       \* snapshot.connection.status
    known       \* history: sequence numbers whose news reached the GUI

server == <<disk, registered, waiting, running, step, log, next, up, failing>>
gui    == <<shown, cursor, conn, known>>
vars   == <<server, asked, answered, gui>>

Status  == {"absent", "discovered", "running", "completed", "failed", "cancelled"}
Active  == {"discovered", "running"}
NoSequence == 0

Outstanding == waiting \cup ({running} \ {NoJob})

Event(type, job, stat) == [sequence |-> next, type |-> type, job |-> job, status |-> stat]

\* Mutant: the log is not bounded.
EmitUnbounded(type, job, stat) ==
    /\ log' = Append(log, Event(type, job, stat))
    /\ next' = next + 1

\* The deque drops its oldest event when it is full.
Emit(type, job, stat) ==
    /\ log' = LET longer == Append(log, Event(type, job, stat))
              IN  IF Len(longer) > MaxRetained THEN Tail(longer) ELSE longer
    /\ next' = next + 1

\* Requests for a run that the sidecar has not served.
Requested == {i \in DOMAIN asked : asked[i].kind \in {"start_translation", "retry_job"}}

\* Room in the bound for n more events, besides the two each run still owes
\* and the three of a run that is asked for.
Room(n) ==
    next + n + 2 * Cardinality(Outstanding) + 3 * Cardinality(Requested) <= MaxEvents + 1

-----------------------------------------------------------------------------
Init ==
    /\ disk \in [Jobs -> {"absent", "completed", "failed"}]
    /\ \A j \in Jobs : disk[j] = "absent" <=> j \in FreshJobs
    /\ registered = {} /\ waiting = {} /\ running = NoJob /\ step = "idle"
    /\ log = <<>> /\ next = 1 /\ up = FALSE /\ failing = {}
    /\ asked = <<>> /\ answered = <<>>
    /\ shown = [j \in Jobs |-> "unlisted"]
    /\ cursor = 0 /\ conn = "reconnecting" /\ known = {}

(***************************************************************************)
(* The worker thread: RUNNING is announced before run_one saves it, the    *)
(* outcome after, and the job's entry goes last.                           *)
(***************************************************************************)
Announce(j) ==
    /\ up /\ running = NoJob /\ j \in waiting
    /\ waiting' = waiting \ {j} /\ running' = j /\ step' = "announced"
    /\ Emit("status_changed", j, "running")
    /\ UNCHANGED <<disk, registered, up, failing, asked, answered, gui>>

\* Cancelled before it started: saved first, told by Report.
DropCancelled(j) ==
    /\ up /\ running = NoJob /\ j \in waiting /\ "cancelled" \in Outcomes
    /\ waiting' = waiting \ {j} /\ running' = j /\ step' = "dropped"
    /\ disk' = [disk EXCEPT ![j] = "cancelled"]
    /\ UNCHANGED <<registered, log, next, up, failing, asked, answered, gui>>

Saves(from, to, stat) ==
    /\ up /\ step = from
    /\ step' = to
    /\ disk' = [disk EXCEPT ![running] = stat]
    /\ UNCHANGED <<registered, waiting, running, log, next, up, failing, asked, answered, gui>>

Begin == Saves("announced", "running", "running")

\* A completed job whose artifacts are intact is left as it is.
Skip == running # NoJob /\ disk[running] = "completed" /\ Saves("announced", "settled", "completed")

\* run_one raises: before it announces an attempt, or after it saved FAILED.
RaiseEarly == "failed" \in Outcomes /\ Saves("announced", "raised", disk[running])

Settle(outcome) ==
    Saves("running", IF outcome = "failed" THEN "raised" ELSE "settled", outcome)

Progress ==
    /\ up /\ step = "running" /\ Room(1)
    /\ Emit("progress", running, "running")
    /\ UNCHANGED <<disk, registered, waiting, running, step, up, failing, asked, answered, gui>>

Report ==
    /\ up /\ step \in {"settled", "raised", "dropped"}
    /\ Emit(CASE step = "raised"                                -> "job_failed"
              [] step = "settled" /\ disk[running] = "completed" -> "job_completed"
              [] OTHER                                           -> "status_changed",
            running, disk[running])
    /\ step' = IF step = "dropped" THEN "idle" ELSE "reported"
    /\ running' = IF step = "dropped" THEN NoJob ELSE running
    /\ failing' = IF step = "raised" THEN failing \cup {running} ELSE failing \ {running}
    /\ UNCHANGED <<disk, registered, waiting, up, asked, answered, gui>>

\* The job's entry is popped, except for a job that was dropped.
Release ==
    /\ up /\ step = "reported"
    /\ step' = "idle" /\ running' = NoJob
    /\ registered' = registered \ {running}
    /\ UNCHANGED <<disk, waiting, log, next, up, failing, asked, answered, gui>>

-----------------------------------------------------------------------------
(***************************************************************************)
(* The sidecar serves the oldest request.                                  *)
(***************************************************************************)
Reply(reply) ==
    /\ asked' = Tail(asked)
    /\ answered' = Append(answered, reply)

Serving(kind) == up /\ asked # <<>> /\ Head(asked).kind = kind

\* The events after the cursor, which are the last ones of the log since it
\* ascends, cut to one page; next_sequence is the last number given out,
\* whether or not the page reaches it.
ServePoll ==
    /\ Serving("poll")
    /\ LET newer == {i \in DOMAIN log : log[i].sequence > Head(asked).after}
           seen  == Len(log) - Cardinality(newer)
       IN  Reply([kind |-> "events",
                  events |-> SubSeq(log, seen + 1, seen + Min({Cardinality(newer), MaxPerPoll})),
                  next_sequence |-> next - 1,
                  oldest_sequence |-> IF log = <<>> THEN next ELSE log[1].sequence])
    /\ UNCHANGED <<server, gui>>

ServeList ==
    /\ Serving("list_jobs")
    /\ Reply([kind |-> "jobs", status |-> disk, upto |-> next - 1,
              resume |-> Head(asked).resume, job |-> Head(asked).job])
    /\ UNCHANGED <<server, gui>>

ServeGet ==
    /\ Serving("get_job")
    /\ Reply([kind |-> "job", job |-> Head(asked).job, status |-> disk[Head(asked).job]])
    /\ UNCHANGED <<server, gui>>

ServeStart ==
    /\ Serving("start_translation")
    /\ LET j == Head(asked).job
       IN  /\ Emit("job_created", j, IF disk[j] = "absent" THEN "discovered" ELSE disk[j])
           /\ waiting' = waiting \cup {j} /\ registered' = registered \cup {j}
           /\ Reply([kind |-> "started", job |-> j])
    /\ UNCHANGED <<disk, running, step, up, failing, gui>>

\* The job is registered: retry_job raises.
RefuseRetry ==
    /\ Serving("retry_job") /\ Head(asked).job \in registered
    /\ Reply([kind |-> "error"])
    /\ UNCHANGED <<server, gui>>

ServeRetry ==
    /\ Serving("retry_job") /\ Head(asked).job \notin registered
    /\ LET j == Head(asked).job
       IN  /\ Emit("status_changed", j, "running")
           /\ waiting' = waiting \cup {j} /\ registered' = registered \cup {j}
           /\ Reply([kind |-> "retried", job |-> j])
    /\ UNCHANGED <<disk, running, step, up, failing, gui>>

-----------------------------------------------------------------------------
(***************************************************************************)
(* The GUI sends: the timer polls whether or not the last poll has been    *)
(* answered; the user starts a job, or retries one shown as not active.    *)
(***************************************************************************)
Poll(after)        == [kind |-> "poll", after |-> after]
List(resume, then) == [kind |-> "list_jobs", resume |-> resume, job |-> then]
Of(method, j)      == [kind |-> method, job |-> j]

Send(request) ==
    /\ up /\ conn = "ready" /\ Len(asked) + Len(answered) < MaxInFlight
    /\ asked' = Append(asked, request)
    /\ UNCHANGED <<server, answered, gui>>

PollTimer == Send(Poll(cursor))

\* Bounds: one run is asked for at a time, its events have room, and a job is
\* not started while it is queued or running (Sidecar says what happens then).
MayAsk == Requested = {} /\ Room(3)

StartClicked(j) == j \notin Outstanding /\ MayAsk /\ Send(Of("start_translation", j))

RetryClicked(j) ==
    /\ shown[j] \notin Active \cup {"unlisted"} /\ MayAsk
    /\ Send(Of("retry_job", j))

\* The details of a job that is listed are opened: one get_job.
DetailsOpened(j) == shown[j] # "unlisted" /\ Send(Of("get_job", j))

(***************************************************************************)
(* The GUI handles the oldest reply.                                       *)
(***************************************************************************)
Handling(kind) == answered # <<>> /\ Head(answered).kind = kind

\* The reply is used up, and the await that follows sends these requests.
Then(requests) ==
    /\ answered' = Tail(answered)
    /\ asked' = asked \o requests

\* Mutant: the payload of job_completed is not merged.
ApplyCompletedIgnored(jobs, e) ==
    CASE e.type = "job_created" /\ jobs[e.job] = "unlisted" ->
           [jobs EXCEPT ![e.job] = IF e.status = "running" THEN "running" ELSE "discovered"]
      [] e.type = "status_changed" /\ jobs[e.job] # "unlisted" ->
           [jobs EXCEPT ![e.job] = e.status]
      [] OTHER -> jobs

\* applyEvent: only job_created makes a job known, and job_failed brings a
\* message but no status.
ApplyEvent(jobs, e) ==
    CASE e.type = "job_created" /\ jobs[e.job] = "unlisted" ->
           [jobs EXCEPT ![e.job] = IF e.status = "running" THEN "running" ELSE "discovered"]
      [] e.type \in {"status_changed", "job_completed"} /\ jobs[e.job] # "unlisted" ->
           [jobs EXCEPT ![e.job] = e.status]
      [] OTHER -> jobs

\* Mutant: a gap of one event is not seen.
OutrunByTwo(reply) == cursor + 2 < reply.oldest_sequence

\* The log has dropped events the cursor has not reached.
Outrun(reply) == cursor + 1 < reply.oldest_sequence

Resync ==
    /\ Handling("events") /\ Outrun(Head(answered))
    /\ Then(<<List(Head(answered).next_sequence, NoJob)>>)
    /\ UNCHANGED <<server, gui>>

\* Each event of a page, in order.
Applied(events) ==
    LET after[i \in 0..Len(events)] ==
            IF i = 0 THEN shown ELSE ApplyEvent(after[i - 1], events[i])
    IN  after[Len(events)]

ApplyEvents ==
    /\ Handling("events") /\ ~Outrun(Head(answered))
    /\ LET reply == Head(answered)
       IN  /\ shown' = Applied(reply.events)
           /\ cursor' = IF reply.next_sequence > cursor THEN reply.next_sequence ELSE cursor
           /\ known' = known \cup {e.sequence : e \in ToSet(reply.events)}
    /\ Then(<<>>)
    /\ UNCHANGED <<server, conn>>

\* refreshJobs replaces the list, so a job without a state file is dropped.
\* The one connect sends ends the handshake and polls at once; the one of a
\* resync sets the cursor, forwards or backwards; the one of a start is
\* followed by a get_job.
RefreshJobs ==
    /\ Handling("jobs")
    /\ LET reply == Head(answered)
           listed(j) == IF reply.status[j] = "absent" THEN "unlisted" ELSE reply.status[j]
       IN  /\ shown' = [j \in Jobs |-> listed(j)]
           /\ cursor' = IF reply.resume # NoSequence THEN reply.resume ELSE cursor
           /\ known' = known \cup 1..reply.upto
           /\ conn' = IF conn = "listing" THEN "ready" ELSE conn
           /\ Then((IF conn = "listing" THEN <<Poll(cursor)>> ELSE <<>>)
                   \o (IF reply.job # NoJob THEN <<Of("get_job", reply.job)>> ELSE <<>>))
    /\ UNCHANGED server

\* getJob: only a job that is listed is updated.
ShowJob ==
    /\ Handling("job")
    /\ LET reply == Head(answered)
       IN  shown' = IF "absent" = reply.status \/ shown[reply.job] = "unlisted"
                      THEN shown ELSE [shown EXCEPT ![reply.job] = reply.status]
    /\ Then(<<>>)
    /\ UNCHANGED <<server, cursor, conn, known>>

Started ==
    /\ Handling("started")
    /\ Then(<<List(NoSequence, Head(answered).job)>>)
    /\ UNCHANGED <<server, gui>>

Retried ==
    /\ Handling("retried")
    /\ Then(<<Of("get_job", Head(answered).job)>>)
    /\ UNCHANGED <<server, gui>>

\* request() schedules a reconnect for every rejection, the application's
\* refusals included.
Rejected ==
    /\ Handling("error")
    /\ Then(<<>>)
    /\ conn' = "reconnecting"
    /\ UNCHANGED <<server, shown, cursor, known>>

-----------------------------------------------------------------------------
\* The sidecar dies; whatever the GUI had asked is rejected.
Lose ==
    /\ up
    /\ up' = FALSE /\ registered' = {} /\ waiting' = {} /\ running' = NoJob /\ step' = "idle"
    /\ asked' = <<>> /\ answered' = <<>>
    /\ conn' = "reconnecting"
    /\ UNCHANGED <<disk, log, next, failing, shown, cursor, known>>

\* Mutant: the cursor of the old sidecar is used with the new one.
ReconnectKeepsCursor ==
    /\ conn = "reconnecting"
    /\ disk' = [j \in Jobs |-> IF disk[j] = "running" THEN "failed" ELSE disk[j]]
    /\ registered' = {} /\ waiting' = {} /\ running' = NoJob /\ step' = "idle"
    /\ log' = <<>> /\ next' = 1 /\ up' = TRUE /\ failing' = {}
    /\ asked' = <<List(NoSequence, NoJob)>> /\ answered' = <<>>
    /\ cursor' = cursor /\ conn' = "listing" /\ known' = {}
    /\ UNCHANGED shown

\* The timer fires: reconnect kills the sidecar if there is one and starts
\* another, whose scan finds no job still active; connect lists the jobs.
\* reconcileJobs then has no job left to ask about.
Reconnect ==
    /\ conn = "reconnecting"
    /\ disk' = [j \in Jobs |-> IF disk[j] = "running" THEN "failed" ELSE disk[j]]
    /\ registered' = {} /\ waiting' = {} /\ running' = NoJob /\ step' = "idle"
    /\ log' = <<>> /\ next' = 1 /\ up' = TRUE /\ failing' = {}
    /\ asked' = <<List(NoSequence, NoJob)>> /\ answered' = <<>>
    /\ cursor' = 0 /\ conn' = "listing" /\ known' = {}
    /\ UNCHANGED shown

-----------------------------------------------------------------------------
Worker ==
    \/ \E j \in Jobs : Announce(j) \/ DropCancelled(j)
    \/ Begin \/ Skip \/ RaiseEarly \/ Progress \/ Report \/ Release
    \/ \E outcome \in Outcomes : Settle(outcome)

Serve == ServePoll \/ ServeList \/ ServeGet \/ ServeStart \/ RefuseRetry \/ ServeRetry

Handle == Resync \/ ApplyEvents \/ RefreshJobs \/ ShowJob \/ Started \/ Retried \/ Rejected

Next ==
    \/ Worker \/ Serve \/ Handle
    \/ PollTimer
    \/ \E j \in Jobs : StartClicked(j) \/ RetryClicked(j) \/ DetailsOpened(j)
    \/ Lose \/ Reconnect

Spec == Init /\ [][Next]_vars

-----------------------------------------------------------------------------
TypeOK ==
    /\ disk \in [Jobs -> Status]
    /\ registered \subseteq Jobs /\ waiting \subseteq Jobs /\ running \in Jobs \cup {NoJob}
    /\ step \in {"idle", "announced", "running", "settled", "raised", "dropped", "reported"}
    /\ Len(log) <= MaxRetained /\ next \in 1..(MaxEvents + 1)
    /\ up \in BOOLEAN /\ failing \subseteq Jobs
    /\ shown \in [Jobs -> (Status \ {"absent"}) \cup {"unlisted"}]
    /\ cursor \in 0..MaxEvents
    /\ conn \in {"reconnecting", "listing", "ready"}
    /\ known \subseteq 1..MaxEvents

(***************************************************************************)
(* The GUI's cursor never passes an event whose news it has not had, from  *)
(* the event itself or from a later list of jobs: what the bounded log     *)
(* drops is noticed ("a client that finds its cursor behind resyncs with   *)
(* list_jobs", architecture.md), through polls that overlap, resyncs and   *)
(* reconnects.                                                             *)
(***************************************************************************)
NoSilentLoss == \A s \in 1..cursor : s \in known

(***************************************************************************)
(* The cursor is never ahead of the sidecar it is used with, else the      *)
(* first events of a new sidecar would never be asked for.                 *)
(***************************************************************************)
CursorNotAhead == up => cursor < next

(***************************************************************************)
(* When nothing runs, nothing is under way between the two and the cursor  *)
(* has reached the last event, the GUI shows each job it lists as it is on *)
(* disk, whatever was dropped, asked twice or answered in between.  The    *)
(* exception is a job whose last run was told as job_failed, which carries *)
(* no status; a new job may be missing until the next list.                *)
(***************************************************************************)
Quiet ==
    /\ up /\ conn = "ready" /\ asked = <<>> /\ answered = <<>>
    /\ Outstanding = {} /\ cursor = next - 1

Missing == {j \in FreshJobs : shown[j] = "unlisted"}

CaughtUpIsCurrent ==
    Quiet => \A j \in Jobs \ (failing \cup Missing) :
        shown[j] = IF disk[j] = "absent" THEN "unlisted" ELSE disk[j]
=============================================================================
