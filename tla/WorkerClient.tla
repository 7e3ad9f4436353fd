--------------------------- MODULE WorkerClient ---------------------------
(***************************************************************************)
(* One translation in a process of its own: the client in the thread that  *)
(* runs the job (backends/worker_client.py), the worker it starts          *)
(* (babeldoc_worker.py around babeldoc_v064.py), and the process the Codex *)
(* SDK starts inside the worker.  They meet in the two pipes: stdout       *)
(* carries one JSON answer, stderr one line per progress event, and the    *)
(* client sees the end of either only when the last process that holds it  *)
(* is gone.                                                                *)
(***************************************************************************)
EXTENDS Naturals

CONSTANTS
    MaxProgress,  \* bound: progress events of the worker
    Heirs         \* may the SDK's process keep the pipes of a dead worker?

ASSUME MaxProgressAssumption == MaxProgress \in Nat
ASSUME HeirsAssumption == Heirs \in BOOLEAN

VARIABLES
    client,     \* where run_worker and _communicate stand
    cancel,     \* cancel_event
    late,       \* time.monotonic() has passed the deadline
    worker,     \* where the worker process stands
    signal,     \* the strongest signal sent to it
    code,       \* its exit status
    out,        \* the answer on stdout
    polluted,   \* and whether a library wrote to the same descriptor
    reported,   \* progress lines on stderr
    delivered,  \* progress events passed to on_progress
    heir,       \* the SDK's process is alive and holds the pipes
    outcome     \* what run_worker returned or raised

ends == <<cancel, late>>
work == <<worker, signal, code, out, polluted, reported, heir>>
call == <<client, delivered, outcome>>
vars == <<ends, work, call>>

\* Errors as run_one sees them: worth a retry by the worker's word or not.
Error == {"failed", "transient"}
EXIT  == [completed |-> 0, invalid |-> 2, failed |-> 3, crashed |-> 4]

Dead == worker = "dead"
Alive == worker \notin {"absent", "dead"}
PipesClosed == Dead /\ ~heir

TypeOK ==
    /\ client \in {"idle", "looking", "waiting", "terminating", "killing", "overdue", "done"}
    /\ cancel \in BOOLEAN /\ late \in BOOLEAN
    /\ worker \in {"absent", "parsing", "preparing", "rendering", "closing", "closing_failed",
                   "answering", "dead"}
    /\ signal \in {"none", "term", "kill"}
    /\ code \in {EXIT.completed, EXIT.invalid, EXIT.failed, EXIT.crashed, 9}
    /\ out \in {"none", "result"} \cup Error
    /\ polluted \in BOOLEAN /\ heir \in BOOLEAN
    /\ reported \in 0..MaxProgress /\ delivered \in 0..reported
    /\ outcome \in {"pending", "completed", "cancelled", "timeout"} \cup Error
    /\ client = "done" <=> outcome # "pending"

Init ==
    /\ client = "idle" /\ outcome = "pending" /\ delivered = 0
    /\ cancel = FALSE /\ late = FALSE
    /\ worker = "absent" /\ signal = "none" /\ code = 0
    /\ out = "none" /\ polluted = FALSE /\ reported = 0 /\ heir = FALSE

-----------------------------------------------------------------------------
(***************************************************************************)
(* The client.                                                             *)
(***************************************************************************)
Client(to) == client' = to /\ UNCHANGED <<ends, delivered, outcome>>
Send(s) == /\ signal' = IF Alive THEN s ELSE signal
           /\ UNCHANGED <<worker, code, out, polluted, reported, heir>>

\* Mutant: every line is passed on twice.
CollectTwice == delivered' = 2 * reported

\* What stderr held is decoded and passed on, once the pipes are closed.
collect_progress == delivered' = reported

Ends(result) ==
    /\ client' = "done" /\ outcome' = result
    /\ UNCHANGED <<ends, work>>

\* The request file is written and the process started in its directory ...
Start ==
    /\ client = "idle" /\ Client("looking")
    /\ worker' = "parsing"
    /\ UNCHANGED <<signal, code, out, polluted, reported, heir>>

\* ... or it cannot be started.
StartFailed ==
    /\ client = "idle" /\ Ends("failed") /\ UNCHANGED delivered

\* Mutant: the loop waits again without looking at the event.
CancelIgnored == FALSE

CancelSeen == cancel

Terminate ==
    /\ client = "looking" /\ CancelSeen /\ Client("terminating")
    /\ Send("term")

\* Mutant: the time left is compared the wrong way round.
ExpireEarly ==
    /\ client = "looking" /\ ~CancelSeen /\ ~late /\ Client("overdue")
    /\ Send("kill")

\* TimeoutExpired is raised by hand, and its handler kills the worker.
Expire ==
    /\ client = "looking" /\ ~CancelSeen /\ late /\ Client("overdue")
    /\ Send("kill")

Wait ==
    /\ client = "looking" /\ ~CancelSeen /\ ~late /\ Client("waiting")
    /\ UNCHANGED work

StillRunning ==
    /\ client = "waiting" /\ ~PipesClosed /\ Client("looking")
    /\ UNCHANGED work

\* _parse_result and _failure_from_output: what the answer and the exit status
\* mean.  A polluted answer cannot be parsed.  An exit status 2 without a
\* readable answer is an invalid request, and every other silence a crash.
Outcome ==
    LET readable == out # "none" /\ ~polluted
        text == out # "none" \/ polluted
    IN  IF code = EXIT.completed /\ text
          THEN IF readable /\ out = "result" THEN "completed" ELSE "failed"
          ELSE IF readable /\ out \in Error THEN out
          ELSE IF code = EXIT.invalid THEN "failed" ELSE "transient"

Answered ==
    /\ client = "waiting" /\ PipesClosed
    /\ collect_progress /\ Ends(Outcome)

\* After a cancel: five seconds for SIGTERM, five for SIGKILL.
Cancelled ==
    /\ client \in {"terminating", "killing"} /\ PipesClosed
    /\ collect_progress /\ Ends("cancelled")

Kill ==
    /\ client = "terminating" /\ ~PipesClosed /\ Client("killing")
    /\ Send("kill")

\* The second TimeoutExpired is caught by the handler of the deadline.
StillHeld ==
    /\ client = "killing" /\ ~PipesClosed /\ Client("overdue")
    /\ Send("kill")

\* Mutant: the handler raises without waiting for the worker's end.
RaiseTimeoutAtOnce ==
    /\ client = "overdue"
    /\ Ends("timeout") /\ UNCHANGED delivered

\* communicate without a limit.  The progress it returns is dropped.
RaiseTimeout ==
    /\ client = "overdue" /\ PipesClosed
    /\ Ends("timeout") /\ UNCHANGED delivered

-----------------------------------------------------------------------------
(***************************************************************************)
(* The worker process.                                                     *)
(***************************************************************************)
Worker(to) == worker' = to /\ UNCHANGED <<ends, call, signal, polluted>>

Exit(answer, status) ==
    /\ Worker("dead") /\ out' = answer /\ code' = status
    /\ UNCHANGED <<reported, heir>>

\* _emit: the exit status follows from the code and the category of the error.
Emit(status) == \E e \in Error : Exit(e, status)

\* main: the request file is read and checked.  Both sides are one build, so
\* a request that cannot be used is one that cannot be read.
ParseRequest ==
    /\ worker = "parsing" /\ Worker("preparing")
    /\ UNCHANGED <<code, out, reported, heir>>

RejectRequest == worker = "parsing" /\ Exit("failed", EXIT.invalid)

\* The translator is built, which starts the SDK's process, the installed
\* BabelDOC is checked and configured.
Prepare ==
    /\ worker = "preparing" /\ Worker("rendering")
    /\ heir' = Heirs
    /\ UNCHANGED <<code, out, reported>>

\* A failure up to here leaves the SDK's process to its fate: the finally that
\* closes the adapter begins only with the event loop.
PrepareFailed ==
    /\ worker = "preparing"
    /\ \E e \in Error, started \in {FALSE, Heirs} :
           Worker("dead") /\ out' = e /\ code' = EXIT.failed /\ heir' = started
    /\ UNCHANGED reported

\* An event of async_translate that is neither "error" nor "finish".
Progress ==
    /\ worker = "rendering" /\ reported < MaxProgress
    /\ reported' = reported + 1
    /\ UNCHANGED <<ends, call, worker, signal, code, out, polluted, heir>>

\* "finish" with a result; or "error", an exception, no "finish" at all.
RenderEnds(to) ==
    /\ worker = "rendering" /\ Worker(to)
    /\ UNCHANGED <<code, out, reported, heir>>

\* The finally: closing the adapter stops the SDK's process.
CloseAdapter ==
    /\ worker \in {"closing", "closing_failed"}
    /\ IF worker = "closing"
         THEN Worker("answering") /\ UNCHANGED <<code, out>>
         ELSE \E e \in Error : Worker("dead") /\ out' = e /\ code' = EXIT.failed
    /\ heir' = FALSE
    /\ UNCHANGED reported

\* An exception there replaces the result, and is one worth a retry.
CloseFails ==
    /\ worker \in {"closing", "closing_failed"} /\ Exit("transient", EXIT.failed)

WriteResult == worker = "answering" /\ Exit("result", EXIT.completed)

\* A library writes to descriptor 1; sys.stdout alone is redirected.
Pollute ==
    /\ worker \in {"preparing", "rendering"} /\ ~polluted
    /\ polluted' = TRUE
    /\ UNCHANGED <<ends, call, worker, signal, code, out, reported, heir>>

\* The process dies by itself, or of a signal.
Crash ==
    /\ Alive /\ Worker("dead") /\ code' = 9
    /\ UNCHANGED <<out, reported, heir>>

DieOfSignal == signal # "none" /\ Crash

\* Its pipes may outlive it.
HeirExits ==
    /\ Dead /\ heir /\ heir' = FALSE
    /\ UNCHANGED <<ends, call, worker, signal, code, out, polluted, reported>>

-----------------------------------------------------------------------------
RequestCancel ==
    /\ ~cancel /\ cancel' = TRUE /\ UNCHANGED <<late, work, call>>

DeadlinePasses ==
    /\ client # "idle" /\ ~late /\ late' = TRUE /\ UNCHANGED <<cancel, work, call>>

Thread ==
    \/ Start \/ StartFailed
    \/ Terminate \/ Expire \/ Wait \/ StillRunning \/ Answered
    \/ Cancelled \/ Kill \/ StillHeld \/ RaiseTimeout

Process ==
    \/ ParseRequest \/ RejectRequest \/ Prepare \/ PrepareFailed
    \/ Progress \/ \E to \in {"closing", "closing_failed"} : RenderEnds(to)
    \/ CloseAdapter \/ CloseFails \/ WriteResult \/ Pollute \/ Crash

Done == client = "done" /\ UNCHANGED vars

Next ==
    \/ Thread \/ Process \/ HeirExits
    \/ RequestCancel \/ DeadlinePasses
    \/ Done

Spec == Init /\ [][Next]_vars

\* The thread is scheduled and SIGKILL is obeyed.  Nothing is assumed of the
\* worker, of SIGTERM, or of what holds the pipes.
FairSpec == Spec /\ WF_vars(Thread) /\ WF_vars(signal = "kill" /\ DieOfSignal)

-----------------------------------------------------------------------------
(* The call has one outcome, and a cause for it: a result the worker wrote, a
   cancel, the deadline; and it has passed on every progress event once, unless
   the deadline has passed (worker_client.py:174-230).                     *)
Abstract == INSTANCE WorkerCall WITH asked <- cancel, produced <- out = "result"
CallSpec == Abstract!Spec

(* However the call ends, no worker survives it: not after a cancel that SIGTERM
   did not serve, and not after the deadline (worker_client.py:166-171).   *)
NoOrphan == client = "done" => ~Alive

(* A cancel alone ends the call, and so does the deadline, even if the worker
   never answers and ignores SIGTERM; unless the worker is dead and a process
   it left behind holds the pipes: the last communicate has no limit
   (worker_client.py:185-191, 209-211).                                    *)
CallEnds ==
    <>(cancel \/ late) => <>(client = "done" \/ [](client = "overdue" /\ Dead /\ heir))
=============================================================================
