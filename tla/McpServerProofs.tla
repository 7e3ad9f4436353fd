-------------------------- MODULE McpServerProofs --------------------------
(***************************************************************************)
(* Theorems about McpServer, for any jobs, stems and runs.                 *)
(***************************************************************************)
EXTENDS McpServer, SequenceTheorems, TLAPS

-----------------------------------------------------------------------------
(***************************************************************************)
(* The executor's queue as a set of runs.                                  *)
(***************************************************************************)
IsQueue(q) == q \in Seq(Runs) /\ IsInjective(q)

\* Appending a run that is not queued.
LEMMA AppendRun ==
    ASSUME NEW q, IsQueue(q), NEW r \in Runs, r \notin ToSet(q)
    PROVE  IsQueue(Append(q, r)) /\ ToSet(Append(q, r)) = ToSet(q) \cup {r}
<1>1. /\ Append(q, r) \in Seq(Runs) /\ Len(q) \in Nat
      /\ \A i \in 1..Len(q) : Append(q, r)[i] = q[i]
      /\ Append(q, r)[Len(q) + 1] = r
      /\ DOMAIN Append(q, r) = 1..(Len(q) + 1) /\ DOMAIN q = 1..Len(q)
  BY AppendProperties DEF IsQueue
<1>2. ToSet(Append(q, r)) = ToSet(q) \cup {r}
  BY <1>1 DEF ToSet
<1>3. ASSUME NEW a \in DOMAIN Append(q, r), NEW b \in DOMAIN Append(q, r),
             Append(q, r)[a] = Append(q, r)[b]
      PROVE  a = b
  <2>1. \A i \in 1..Len(q) : q[i] # r
    BY <1>1 DEF ToSet
  <2>2. \A i, k \in 1..Len(q) : q[i] = q[k] => i = k
    BY <1>1 DEF IsQueue, IsInjective
  <2>3. a \in 1..Len(q) \/ a = Len(q) + 1
    BY <1>1
  <2>4. b \in 1..Len(q) \/ b = Len(q) + 1
    BY <1>1
  <2>5. QED
    BY <1>1, <1>3, <2>1, <2>2, <2>3, <2>4
<1>4. QED
  BY <1>1, <1>2, <1>3 DEF IsQueue, IsInjective

\* Taking the first run.
LEMMA TakeRun ==
    ASSUME NEW q, IsQueue(q), q # <<>>
    PROVE  /\ IsQueue(Tail(q)) /\ Head(q) \in Runs
           /\ Head(q) \in ToSet(q) /\ ToSet(Tail(q)) = ToSet(q) \ {Head(q)}
<1>1. /\ Tail(q) \in Seq(Runs) /\ Len(q) \in Nat /\ Len(q) > 0 /\ Head(q) = q[1]
      /\ Len(Tail(q)) = Len(q) - 1
      /\ DOMAIN q = 1..Len(q) /\ DOMAIN Tail(q) = 1..(Len(q) - 1)
      /\ \A i \in 1..(Len(q) - 1) : Tail(q)[i] = q[i + 1]
  BY HeadTailProperties DEF IsQueue
<1>2. \A i, k \in 1..Len(q) : q[i] = q[k] => i = k
  BY <1>1 DEF IsQueue, IsInjective
<1>3. Head(q) \in Runs /\ Head(q) \in ToSet(q)
  BY <1>1 DEF IsQueue, ToSet
<1>4. ToSet(Tail(q)) = ToSet(q) \ {Head(q)}
  <2>1. ASSUME NEW i \in DOMAIN Tail(q) PROVE Tail(q)[i] \in ToSet(q) \ {Head(q)}
    <3>1. i + 1 \in 1..Len(q) /\ i + 1 # 1 /\ 1 \in 1..Len(q)
      BY <1>1
    <3>2. QED
      BY <1>1, <1>2, <3>1 DEF ToSet
  <2>2. ASSUME NEW i \in DOMAIN q, q[i] # Head(q) PROVE q[i] \in ToSet(Tail(q))
    <3>1. i - 1 \in DOMAIN Tail(q) /\ Tail(q)[i - 1] = q[i]
      BY <1>1, <2>2
    <3>2. QED
      BY <3>1 DEF ToSet
  <2>3. QED
    BY <2>1, <2>2 DEF ToSet
<1>5. ASSUME NEW a \in DOMAIN Tail(q), NEW b \in DOMAIN Tail(q), Tail(q)[a] = Tail(q)[b]
      PROVE  a = b
  <2>1. a + 1 \in 1..Len(q) /\ b + 1 \in 1..Len(q) /\ q[a + 1] = q[b + 1]
    BY <1>1, <1>5
  <2>2. a + 1 = b + 1
    BY <1>2, <2>1
  <2>3. QED
    BY <1>1, <2>2
<1>6. QED
  BY <1>1, <1>3, <1>4, <1>5 DEF IsQueue, IsInjective

\* Nothing is queued in an empty queue.
LEMMA NoRuns == IsQueue(<<>>) /\ ToSet(<<>>) = {}
  BY DEF IsQueue, IsInjective, ToSet

-----------------------------------------------------------------------------
(***************************************************************************)
(* The invariant.  What the registry says of a run depends on how far the  *)
(* request that made it is, and on who will call the callback.             *)
(***************************************************************************)
Starting == {"submitted", "registered", "attached"}

Shapes ==
    /\ request \in [at : {"idle", "loaded", "cleaning", "removing"} \cup Starting,
                    job : Jobs \cup {NoJob}, run : Runs \cup {NoRun}, seen : Status]
    /\ sweep \in [on : BOOLEAN, keep : SUBSET Stems, began : Runs \cup {NoRun}]

\* A run that is queued, worked on or being registered.
InUse(r) == r \in ToSet(queue) \/ current = r \/ request.run = r

\* The jobs of runs and entries, and no entry outlives its run.
EntriesInUse ==
    /\ \A r \in Runs : InUse(r) => run[r].job \in Jobs
    /\ \A j \in Jobs : \A r \in Runs :
         active[j] = r \/ futures[j] = r => run[r].job = j /\ InUse(r)

\* The request that is handled, and the run it makes.
RequestHolds ==
    /\ request.run = NoRun <=> request.at \notin Starting
    /\ request.at # "idle" => open /\ request.job \in Jobs
    /\ request.at \in Starting =>
         /\ run[request.run].job = request.job
         /\ active[request.job] \in {NoRun, request.run}
         /\ run[request.run].done \/ request.run \in ToSet(queue) \/ current = request.run

\* The worker's run is in no other place; its callback is attached, or about
\* to be.
WorkerHolds ==
    /\ \A r \in ToSet(queue) : ~run[r].done /\ r # current
    /\ current # NoRun => (run[current].done <=> phase = "notifying")
    /\ phase = "notifying" => run[current].callback
    /\ \A r \in Runs : (r \in ToSet(queue) \/ current = r) /\ ~run[r].callback =>
         request.run = r /\ request.at \in {"submitted", "registered"}

\* The future of a live run is registered as well, once it can be.
FuturesHeld ==
    open => \A r \in Runs :
        Live(r) => \/ futures[run[r].job] = r \/ r \in evicted
                   \/ request.run = r /\ request.at = "submitted"

\* What cleanup_job is about to remove belongs to no live run it could know.
RemovalSafe ==
    request.at = "removing" =>
        \A r \in Runs : Live(r) /\ run[r].job = request.job => r \in evicted

ServerInv ==
    /\ TypeOK /\ Shapes
    /\ EntriesInUse /\ RequestHolds /\ WorkerHolds
    /\ LiveIsRegistered /\ FuturesHeld /\ RemovalSafe

-----------------------------------------------------------------------------
\* What is collected is as if it had never been; the rest stays.
LEMMA Collecting ==
    ASSUME NEW runs, runs \in [Runs -> Run], run' = Collected(runs)
    PROVE  /\ run' \in [Runs -> Run]
           /\ \A r \in Runs : ~Free(r)' => run'[r] = runs[r]
           /\ \A r \in Runs : InUse(r)' => run'[r] = runs[r]
<1>1. NotCreated \in Run
  BY DEF NotCreated, Run
<1>2. QED
  BY <1>1 DEF Collected, Free, InUse

\* The initial states.
LEMMA ServerStarts == Init => ServerInv
<1> SUFFICES ASSUME Init PROVE ServerInv
  OBVIOUS
<1>1. TypeOK /\ Shapes
  BY NoRuns DEF Init, TypeOK, Shapes, IsQueue, Run, NotCreated, Serving, NoSweep, Status, Active, Starting
<1>2. \A r \in Runs : ~InUse(r) /\ ~Live(r)
  BY NoRuns, NullsAssumption DEF Init, InUse, Live, Serving
<1>3. QED
  BY <1>1, <1>2, NoRuns, NullsAssumption
     DEF ServerInv, Init, EntriesInUse, RequestHolds, WorkerHolds, LiveIsRegistered, FuturesHeld,
         RemovalSafe, Serving, Starting

Within == {"claimed", "starting", "looking", "waiting", "killing", "ended"}

\* Steps of the worker's thread within an attempt: only phase, status and
\* directories change.
LEMMA AttemptKeeps ==
    ASSUME ServerInv, NEW outcome \in {"completed", "at_rest"},
           EndEarly \/ BeginAttempt \/ StartWorker \/ Look \/ Terminate \/ StillRunning
             \/ Terminated \/ Translated(outcome)
    PROVE  ServerInv'
<1>1. /\ phase \in Within /\ phase' \in Within
      /\ UNCHANGED <<active, futures, evicted, run, queue, current, request, open, sweep>>
  BY DEF EndEarly, BeginAttempt, StartWorker, Look, Terminate, Terminated, StillRunning, Translated,
         Moves, registry, Within
<1>2. current \in Runs /\ Job \in Jobs
  BY <1>1 DEF ServerInv, TypeOK, Within, EntriesInUse, InUse, Job
<1>3. PICK saved \in Status : status' = [status EXCEPT ![Job] = saved]
  <2>1. status[Job] \in Status
    BY <1>2 DEF ServerInv, TypeOK
  <2>2. CASE EndEarly \/ StartWorker \/ Look \/ Terminate \/ StillRunning
    BY <2>1, <2>2 DEF EndEarly, StartWorker, Look, Terminate, StillRunning, Moves
  <2>3. CASE BeginAttempt
    BY <2>3 DEF BeginAttempt, Moves, Status
  <2>4. CASE Terminated \/ Translated(outcome)
    BY <2>4 DEF Terminated, Translated, Moves, Status
  <2>5. QED
    BY <2>2, <2>3, <2>4
<1>4. dirs' \subseteq Stems
  BY <1>2, StemAssumption DEF EndEarly, BeginAttempt, StartWorker, Look, Terminate, Terminated,
         StillRunning, Translated, Moves, ServerInv, TypeOK
<1>5. TypeOK'
  BY <1>1, <1>3, <1>4 DEF ServerInv, TypeOK, Within
<1>6. QED
  BY <1>1, <1>5 DEF ServerInv, Shapes, EntriesInUse, RequestHolds, WorkerHolds, LiveIsRegistered,
         FuturesHeld, RemovalSafe, InUse, Live, Within

\* The cleanup process only removes directories.
LEMMA SweepKeeps ==
    ASSUME ServerInv, SweepScan \/ SweepEnds \/ \E s \in Stems : SweepRemove(s)
    PROVE  ServerInv'
<1>1. UNCHANGED <<registry, run, worker, request, open, status>>
  BY DEF SweepScan, SweepEnds, SweepRemove
<1>2. dirs' \subseteq Stems
  BY DEF SweepScan, SweepEnds, SweepRemove, ServerInv, TypeOK
<1>3. sweep' \in [on : BOOLEAN, keep : SUBSET Stems, began : Runs \cup {NoRun}]
  <2>1. CASE SweepScan
    <3>1. ActiveStems(Jobs) \in SUBSET Stems
      BY StemAssumption DEF ActiveStems
    <3>2. current \in Runs \cup {NoRun}
      BY DEF ServerInv, TypeOK
    <3>3. QED
      BY <2>1, <3>1, <3>2 DEF SweepScan
  <2>2. CASE SweepEnds
    <3>1. {} \in SUBSET Stems
      OBVIOUS
    <3>2. QED
      BY <2>2, <3>1 DEF SweepEnds, NoSweep
  <2>3. CASE \E s \in Stems : SweepRemove(s)
    BY <2>3 DEF SweepRemove, ServerInv, Shapes
  <2>4. QED
    BY <2>1, <2>2, <2>3
<1>4. TypeOK'
  BY <1>1, <1>2, <1>3 DEF ServerInv, TypeOK, registry, worker
<1>5. QED
  BY <1>1, <1>3, <1>4
     DEF ServerInv, Shapes, EntriesInUse, RequestHolds, WorkerHolds, LiveIsRegistered, FuturesHeld,
         RemovalSafe, InUse, Live, registry, worker

\* Requests that only read.
LEMMA ReadingKeeps ==
    ASSUME ServerInv,
           \/ \E j \in Jobs : StartLoad(j) \/ CleanupLoad(j)
           \/ RefuseActive \/ CleanupCheck \/ RemoveWorkDir
    PROVE  ServerInv'
<1>1. UNCHANGED <<registry, run, worker, open, status, sweep>>
  BY DEF StartLoad, CleanupLoad, Serve, RefuseActive, CleanupCheck, RemoveWorkDir
<1>2. dirs' \subseteq Stems
  BY DEF StartLoad, CleanupLoad, Serve, RefuseActive, CleanupCheck, RemoveWorkDir, ServerInv, TypeOK
<1>3. /\ request.run = NoRun /\ request'.run = NoRun
      /\ request' \in [at : {"idle", "loaded", "cleaning", "removing"},
                       job : Jobs \cup {NoJob}, run : Runs \cup {NoRun}, seen : Status]
      /\ request'.at # "idle" => open /\ request'.job \in Jobs
      /\ request'.at = "removing" => CleanupCheck /\ ~Busy /\ request'.job = request.job
  <2>1. CASE \E j \in Jobs : StartLoad(j) \/ CleanupLoad(j)
    <3>1. PICK j \in Jobs, to \in {"loaded", "cleaning"} : Serve(j, to)
      BY <2>1 DEF StartLoad, CleanupLoad
    <3>2. status[j] \in Status
      BY DEF ServerInv, TypeOK
    <3>3. QED
      BY <3>1, <3>2 DEF Serve, ServerInv, Shapes, RequestHolds, Starting
  <2>2. CASE RefuseActive \/ RemoveWorkDir \/ (CleanupCheck /\ Busy)
    BY <2>2 DEF RefuseActive, RemoveWorkDir, CleanupCheck, Answer, Serving, ServerInv, Shapes,
                RequestHolds, Starting, Status
  <2>3. CASE CleanupCheck /\ ~Busy
    BY <2>3 DEF CleanupCheck, ServerInv, Shapes, RequestHolds, Starting
  <2>4. QED
    BY <2>1, <2>2, <2>3
<1>4. RemovalSafe'
  <2> SUFFICES ASSUME CleanupCheck, ~Busy, request'.at = "removing", request'.job = request.job,
                      NEW r \in Runs, Live(r)', run'[r].job = request.job
               PROVE  r \in evicted'
    BY <1>3 DEF RemovalSafe
  <2>1. Live(r) /\ run[r].job = request.job /\ open
    BY <1>1, <1>3 DEF Live, worker
  <2>2. ~run[r].done
    BY <2>1 DEF Live, ServerInv, WorkerHolds
  <2>3. futures[request.job] # r
    BY <2>2, NullsAssumption DEF Busy
  <2>4. request.run # r
    BY <1>3, NullsAssumption
  <2>5. QED
    BY <1>1, <2>1, <2>3, <2>4 DEF ServerInv, FuturesHeld, registry
<1>5. TypeOK' /\ Shapes'
  BY <1>1, <1>2, <1>3 DEF ServerInv, TypeOK, Shapes, registry, worker
<1>6. QED
  BY <1>1, <1>3, <1>4, <1>5, NullsAssumption
     DEF ServerInv, EntriesInUse, RequestHolds, WorkerHolds, LiveIsRegistered, FuturesHeld,
         InUse, Live, Starting, registry, worker

\* A cancel only sets the flag.
LEMMA CancelKeeps ==
    ASSUME ServerInv, NEW j \in Jobs, CancelJob(j)
    PROVE  ServerInv'
<1>1. /\ UNCHANGED <<registry, worker, request, open, status, dirs, sweep>>
      /\ active[j] \in Runs
      /\ run' = [run EXCEPT ![active[j]].cancel = TRUE]
  BY DEF CancelJob, ServerInv, TypeOK
<1>2. /\ run' \in [Runs -> Run]
      /\ \A r \in Runs : /\ run'[r].job = run[r].job /\ run'[r].done = run[r].done
                         /\ run'[r].callback = run[r].callback
  BY <1>1 DEF ServerInv, TypeOK, Run
<1>3. TypeOK' /\ Shapes'
  BY <1>1, <1>2 DEF ServerInv, TypeOK, Shapes, registry, worker
<1>4. \A r \in Runs : InUse(r)' = InUse(r) /\ Live(r)' = Live(r)
  BY <1>1, <1>2 DEF InUse, Live, worker
<1>5. EntriesInUse' /\ FuturesHeld' /\ LiveIsRegistered' /\ RemovalSafe'
  BY <1>1, <1>2, <1>4
     DEF ServerInv, EntriesInUse, LiveIsRegistered, FuturesHeld, RemovalSafe, registry
<1>6. RequestHolds'
  BY <1>1, <1>2 DEF ServerInv, RequestHolds, Shapes, Starting, registry, worker
<1>7. WorkerHolds'
  <2>1. ToSet(queue) \subseteq Runs
    BY DEF ServerInv, TypeOK, ToSet
  <2>2. QED
    BY <1>1, <1>2, <2>1 DEF ServerInv, WorkerHolds, TypeOK, worker
<1>8. QED
  BY <1>3, <1>5, <1>6, <1>7 DEF ServerInv

-----------------------------------------------------------------------------
\* Closing empties queue and registry; the run under way is left alone.
LEMMA CloseKeeps ==
    ASSUME ServerInv, Close
    PROVE  ServerInv'
<1>1. /\ active' = [j \in Jobs |-> NoRun] /\ futures' = [j \in Jobs |-> NoRun]
      /\ queue' = <<>> /\ open' = FALSE /\ request.at = "idle"
      /\ UNCHANGED <<evicted, current, phase, request, status, dirs, sweep>>
  BY DEF Close
<1> DEFINE flag(r) == run[r].cancel \/ \E j \in Jobs : active[j] = r
           told == [r \in Runs |-> [run[r] EXCEPT !.cancel = flag(r)]]
<1>2. run' = Collected(told)
  BY DEF Close
<1>3. /\ told \in [Runs -> Run]
      /\ \A r \in Runs : /\ told[r].job = run[r].job /\ told[r].done = run[r].done
                         /\ told[r].callback = run[r].callback
  <2>1. \A r \in Runs : flag(r) \in BOOLEAN
    BY DEF ServerInv, TypeOK, Run
  <2> HIDE DEF flag
  <2>2. QED
    BY <2>1 DEF ServerInv, TypeOK, Run
<1> HIDE DEF told
<1>4. /\ run' \in [Runs -> Run]
      /\ \A r \in Runs : InUse(r)' =>
           /\ run'[r].job = run[r].job /\ run'[r].done = run[r].done
           /\ run'[r].callback = run[r].callback
  BY <1>2, <1>3, Collecting
<1>5. request.run = NoRun
  BY <1>1 DEF ServerInv, RequestHolds, Starting
<1>6. TypeOK' /\ Shapes'
  BY <1>1, <1>4, NoRuns DEF ServerInv, TypeOK, Shapes, IsQueue
<1>7. \A r \in Runs : InUse(r)' <=> current = r
  BY <1>1, <1>5, NoRuns, NullsAssumption DEF InUse
<1>8. EntriesInUse'
  BY <1>1, <1>4, <1>7, NullsAssumption DEF ServerInv, EntriesInUse, InUse
<1>9. WorkerHolds'
  <2>1. current # NoRun => current \in Runs
    BY DEF ServerInv, TypeOK
  <2>2. phase = "notifying" => current # NoRun
    BY DEF ServerInv, TypeOK
  <2>3. QED
    BY <1>1, <1>4, <1>7, <2>1, <2>2, NoRuns DEF ServerInv, WorkerHolds
<1>10. RequestHolds' /\ LiveIsRegistered' /\ FuturesHeld' /\ RemovalSafe'
  BY <1>1, <1>5 DEF ServerInv, RequestHolds, LiveIsRegistered, FuturesHeld, RemovalSafe, Starting
<1>11. QED
  BY <1>6, <1>8, <1>9, <1>10 DEF ServerInv

\* A run that nothing refers to is registered, queued and named by the request.
LEMMA SubmitKeeps ==
    ASSUME ServerInv, NEW r \in Runs, Submit(r)
    PROVE  ServerInv'
<1>1. /\ request.at = "loaded" /\ open /\ request.job \in Jobs /\ active[request.job] = NoRun
      /\ request.run = NoRun
  BY DEF Submit, ServerInv, RequestHolds, Starting
<1>2. /\ r \notin ToSet(queue) /\ current # r
      /\ \A j \in Jobs : active[j] # r /\ futures[j] # r
  BY DEF Submit, Free
<1>3. /\ run' = [run EXCEPT ![r] = [NotCreated EXCEPT !.job = request.job]]
      /\ active' = [active EXCEPT ![request.job] = r]
      /\ queue' = Append(queue, r)
      /\ request' = [request EXCEPT !.at = "submitted", !.run = r]
      /\ evicted' = evicted \ {r}
      /\ UNCHANGED <<futures, current, phase, open, dirs>>
  BY DEF Submit
<1>4. IsQueue(queue') /\ ToSet(queue') = ToSet(queue) \cup {r}
  BY <1>2, <1>3, AppendRun DEF ServerInv, TypeOK, IsQueue
<1>5. /\ run' \in [Runs -> Run]
      /\ run'[r].job = request.job /\ ~run'[r].done /\ ~run'[r].callback
      /\ \A q \in Runs \ {r} : run'[q] = run[q]
  BY <1>1, <1>3 DEF ServerInv, TypeOK, Run, NotCreated
<1>6. /\ request'.at = "submitted" /\ request'.run = r /\ request'.job = request.job
      /\ Shapes'
  BY <1>1, <1>3 DEF Submit, ServerInv, Shapes, Starting
<1>7. TypeOK'
  <2>1. status' \in [Jobs -> Status]
    BY DEF Submit, ServerInv, TypeOK, Shapes, Status
  <2>2. sweep'.keep \subseteq Stems
    BY <1>6 DEF Shapes
  <2>3. active' \in [Jobs -> Runs \cup {NoRun}]
    BY <1>3 DEF ServerInv, TypeOK
  <2>4. QED
    BY <1>1, <1>3, <1>4, <1>5, <1>6, <2>1, <2>2, <2>3 DEF ServerInv, TypeOK, IsQueue
<1>8. /\ \A q \in Runs \ {r} : /\ (InUse(q)' <=> InUse(q)) /\ (Live(q)' <=> Live(q))
                              /\ (q \in evicted' <=> q \in evicted)
      /\ InUse(r)' /\ Live(r)'
  BY <1>1, <1>2, <1>3, <1>4, <1>5, <1>6, NullsAssumption DEF InUse, Live
<1>9. \A j \in Jobs : active'[j] = IF j = request.job THEN r ELSE active[j]
  BY <1>1, <1>3 DEF ServerInv, TypeOK
<1>10. EntriesInUse'
  <2>1. ASSUME NEW j \in Jobs, NEW q \in Runs, active'[j] = q \/ futures'[j] = q
        PROVE  run'[q].job = j /\ InUse(q)'
    BY <1>2, <1>3, <1>5, <1>8, <1>9, <2>1 DEF ServerInv, EntriesInUse
  <2>2. QED
    BY <1>1, <1>5, <1>8, <2>1 DEF ServerInv, EntriesInUse
<1>11. RequestHolds'
  BY <1>1, <1>3, <1>4, <1>5, <1>6, <1>9, NullsAssumption DEF RequestHolds, Starting
<1>12. WorkerHolds'
  <2>1. ToSet(queue) \subseteq Runs /\ current \in Runs \cup {NoRun}
        /\ (phase = "notifying" => current # NoRun)
    BY DEF ServerInv, TypeOK, ToSet
  <2>2. QED
    BY <1>1, <1>2, <1>3, <1>4, <1>5, <1>6, <2>1 DEF ServerInv, WorkerHolds
<1>13. LiveIsRegistered'
  <2>1. ASSUME NEW q \in Runs, Live(q)', q \notin evicted', q # r
        PROVE  active'[run'[q].job] = q
    <3>1. active[run[q].job] = q /\ run[q].job \in Jobs
      BY <1>1, <1>8, <2>1 DEF ServerInv, LiveIsRegistered, EntriesInUse, InUse, Live
    <3>2. QED
      BY <1>1, <1>5, <1>9, <2>1, <3>1, NullsAssumption
  <2>2. QED
    BY <1>1, <1>5, <1>9, <2>1 DEF LiveIsRegistered
<1>14. FuturesHeld' /\ RemovalSafe'
  BY <1>1, <1>3, <1>5, <1>6, <1>8, NullsAssumption DEF ServerInv, FuturesHeld, RemovalSafe
<1>15. QED
  BY <1>6, <1>7, <1>10, <1>11, <1>12, <1>13, <1>14 DEF ServerInv

\* The future joins the cancel event in the registry.
LEMMA RegisterKeeps ==
    ASSUME ServerInv, RegisterFuture
    PROVE  ServerInv'
<1>1. /\ request.at = "submitted" /\ open /\ request.job \in Jobs /\ request.run \in Runs
      /\ run[request.run].job = request.job
      /\ active[request.job] \in {NoRun, request.run}
  BY DEF RegisterFuture, ServerInv, RequestHolds, Shapes, Starting
<1>2. /\ futures' = [futures EXCEPT ![request.job] = request.run]
      /\ request' = [request EXCEPT !.at = "registered"]
      /\ UNCHANGED <<active, evicted, run, worker, open, status, dirs, sweep>>
  BY DEF RegisterFuture
<1>3. /\ request'.at = "registered" /\ request'.run = request.run /\ request'.job = request.job
      /\ Shapes'
  BY <1>2 DEF ServerInv, Shapes, Starting
<1>4. /\ futures' \in [Jobs -> Runs \cup {NoRun}]
      /\ \A j \in Jobs : futures'[j] = IF j = request.job THEN request.run ELSE futures[j]
  BY <1>1, <1>2 DEF ServerInv, TypeOK
<1>5. TypeOK'
  BY <1>2, <1>3, <1>4 DEF ServerInv, TypeOK, Shapes, worker
<1>6. \A r \in Runs : InUse(r)' = InUse(r) /\ Live(r)' = Live(r)
  BY <1>2, <1>3 DEF InUse, Live, worker
<1>7. EntriesInUse'
  BY <1>1, <1>2, <1>4, <1>6 DEF ServerInv, EntriesInUse, InUse
<1>8. RequestHolds' /\ WorkerHolds'
  BY <1>1, <1>2, <1>3 DEF ServerInv, RequestHolds, WorkerHolds, Starting, worker
<1>9. LiveIsRegistered' /\ RemovalSafe'
  BY <1>2, <1>3, <1>6 DEF ServerInv, LiveIsRegistered, RemovalSafe
<1>10. FuturesHeld'
  <2>1. ASSUME NEW q \in Runs, Live(q), q \notin evicted
        PROVE  futures'[run[q].job] = q
    <3>1. active[run[q].job] = q /\ run[q].job \in Jobs
      BY <1>1, <2>1 DEF ServerInv, LiveIsRegistered, EntriesInUse, InUse, Live
    <3>2. CASE run[q].job = request.job
      BY <1>1, <1>4, <3>1, <3>2, NullsAssumption
    <3>3. CASE run[q].job # request.job
      BY <1>1, <1>4, <2>1, <3>1, <3>3 DEF ServerInv, FuturesHeld
    <3>4. QED
      BY <3>2, <3>3
  <2>2. QED
    BY <1>2, <1>6, <2>1 DEF FuturesHeld
<1>11. QED
  BY <1>3, <1>5, <1>7, <1>8, <1>9, <1>10 DEF ServerInv

-----------------------------------------------------------------------------
\* The callback of an ended run: live runs stay registered or are evicted.
LEMMA FinishDrops ==
    ASSUME ServerInv, NEW r \in Runs, run[r].job \in Jobs, ~Live(r), Finish(r)
    PROVE  /\ active' \in [Jobs -> Runs \cup {NoRun}] /\ futures' \in [Jobs -> Runs \cup {NoRun}]
           /\ evicted' \subseteq Runs
           /\ \A j \in Jobs :
                /\ active'[j] = IF j = run[r].job THEN NoRun ELSE active[j]
                /\ futures'[j] = IF j = run[r].job THEN NoRun ELSE futures[j]
           /\ \A q \in Runs : Live(q) /\ q \notin evicted' /\ open =>
                /\ active'[run[q].job] = q
                /\ futures'[run[q].job] = q \/ (request.run = q /\ request.at = "submitted")
           /\ \A q \in Runs : Live(q) /\ q \in evicted => q \in evicted'
<1>1. /\ active' = [active EXCEPT ![run[r].job] = NoRun]
      /\ futures' = [futures EXCEPT ![run[r].job] = NoRun]
      /\ evicted' = (evicted \ {r}) \cup {q \in Runs \ {r} : active[run[r].job] = q}
  BY DEF Finish
<1>2. \A j \in Jobs :
        /\ active'[j] = IF j = run[r].job THEN NoRun ELSE active[j]
        /\ futures'[j] = IF j = run[r].job THEN NoRun ELSE futures[j]
  BY <1>1 DEF ServerInv, TypeOK
<1>3. /\ active' \in [Jobs -> Runs \cup {NoRun}] /\ futures' \in [Jobs -> Runs \cup {NoRun}]
      /\ evicted' \subseteq Runs
  BY <1>1 DEF ServerInv, TypeOK
<1>4. ASSUME NEW q \in Runs, Live(q), q \notin evicted', open
      PROVE  /\ active'[run[q].job] = q
             /\ futures'[run[q].job] = q \/ (request.run = q /\ request.at = "submitted")
  <2>1. q # r /\ q \notin evicted /\ active[run[r].job] # q
    BY <1>1, <1>4
  <2>2. active[run[q].job] = q /\ run[q].job \in Jobs
    BY <1>4, <2>1 DEF ServerInv, LiveIsRegistered, EntriesInUse, InUse, Live
  <2>3. run[q].job # run[r].job
    BY <2>1, <2>2
  <2>4. futures[run[q].job] = q \/ (request.run = q /\ request.at = "submitted")
    BY <1>4, <2>1 DEF ServerInv, FuturesHeld
  <2>5. QED
    BY <1>2, <2>2, <2>3, <2>4
<1>5. \A q \in Runs : Live(q) /\ q \in evicted => q \in evicted'
  BY <1>1
<1>6. QED
  BY <1>2, <1>3, <1>4, <1>5

\* add_done_callback, before and after the run has ended.
LEMMA AttachKeeps ==
    ASSUME ServerInv, Attach
    PROVE  ServerInv'
<1>1. /\ request.at = "registered" /\ open /\ request.job \in Jobs /\ request.run \in Runs
      /\ run[request.run].job = request.job
      /\ active[request.job] \in {NoRun, request.run}
      /\ run[request.run].done \/ request.run \in ToSet(queue) \/ current = request.run
  BY DEF Attach, ServerInv, RequestHolds, Shapes, Starting
<1>2. /\ request' = [request EXCEPT !.at = "attached"]
      /\ UNCHANGED <<worker, open, status, dirs, sweep>>
  BY DEF Attach
<1>3. /\ request'.at = "attached" /\ request'.run = request.run /\ request'.job = request.job
      /\ Shapes'
  BY <1>2 DEF ServerInv, Shapes, Starting
<1>4. ToSet(queue) \subseteq Runs /\ current \in Runs \cup {NoRun}
      /\ (phase = "notifying" => current # NoRun)
  BY DEF ServerInv, TypeOK, ToSet
<1>5. CASE run[request.run].done
  <2>1. Finish(request.run) /\ run' = run /\ ~Live(request.run)
    BY <1>1, <1>5 DEF Attach, Live, ServerInv, WorkerHolds
  <2>2. TypeOK'
    BY <1>1, <1>2, <1>3, <2>1, FinishDrops DEF ServerInv, TypeOK, Shapes, worker
  <2>3. \A r \in Runs : (InUse(r)' <=> InUse(r)) /\ (Live(r)' <=> Live(r))
    BY <1>2, <1>3, <2>1 DEF InUse, Live, worker
  <2>4. \A j \in Jobs : /\ active'[j] \in {NoRun, active[j]}
                        /\ futures'[j] \in {NoRun, futures[j]}
    BY <1>1, <2>1, FinishDrops
  <2>5. EntriesInUse'
    BY <2>1, <2>3, <2>4, NullsAssumption DEF ServerInv, EntriesInUse
  <2>6. RequestHolds'
    BY <1>1, <1>2, <1>3, <1>5, <2>1, <2>4 DEF ServerInv, RequestHolds, Starting, worker
  <2>7. WorkerHolds'
    <3>1. ASSUME NEW r \in Runs, r \in ToSet(queue) \/ current = r, ~run[r].callback
          PROVE  FALSE
      <4>1. request.run = r
        BY <3>1 DEF ServerInv, WorkerHolds
      <4>2. current = r /\ current # NoRun
        BY <1>5, <3>1, <4>1, NullsAssumption DEF ServerInv, WorkerHolds
      <4>3. QED
        BY <1>5, <3>1, <4>1, <4>2 DEF ServerInv, WorkerHolds
    <3>2. QED
      BY <1>2, <2>1, <3>1 DEF ServerInv, WorkerHolds, worker
  <2>8. LiveIsRegistered' /\ FuturesHeld'
    BY <1>1, <1>2, <1>5, <2>1, <2>3, FinishDrops DEF LiveIsRegistered, FuturesHeld, Live
  <2>9. RemovalSafe'
    BY <1>3 DEF RemovalSafe
  <2>10. QED
    BY <1>3, <2>2, <2>5, <2>6, <2>7, <2>8, <2>9 DEF ServerInv
<1>6. CASE ~run[request.run].done
  <2>1. /\ run' = [run EXCEPT ![request.run].callback = TRUE]
        /\ UNCHANGED registry
    BY <1>6 DEF Attach
  <2>2. /\ run' \in [Runs -> Run]
        /\ \A r \in Runs : run'[r].job = run[r].job /\ run'[r].done = run[r].done
        /\ run'[request.run].callback
        /\ \A r \in Runs \ {request.run} : run'[r] = run[r]
    BY <1>1, <2>1 DEF ServerInv, TypeOK, Run
  <2>3. TypeOK'
    BY <1>2, <1>3, <2>1, <2>2 DEF ServerInv, TypeOK, Shapes, worker, registry
  <2>4. \A r \in Runs : (InUse(r)' <=> InUse(r)) /\ (Live(r)' <=> Live(r))
    BY <1>2, <1>3, <2>2 DEF InUse, Live, worker
  <2>5. EntriesInUse' /\ LiveIsRegistered'
    BY <1>2, <2>1, <2>2, <2>4 DEF ServerInv, EntriesInUse, LiveIsRegistered, registry
  <2>6. RequestHolds'
    BY <1>1, <1>2, <1>3, <1>6, <2>1, <2>2 DEF ServerInv, RequestHolds, Starting, worker, registry
  <2>7. WorkerHolds'
    BY <1>1, <1>2, <1>3, <1>4, <2>2 DEF ServerInv, WorkerHolds, worker
  <2>8. FuturesHeld' /\ RemovalSafe'
    BY <1>1, <1>2, <1>3, <2>1, <2>2, <2>4 DEF ServerInv, FuturesHeld, RemovalSafe, registry
  <2>9. QED
    BY <1>3, <2>3, <2>5, <2>6, <2>7, <2>8 DEF ServerInv
<1>7. QED
  BY <1>5, <1>6

\* The handler's own look at the future, and its answer.
LEMMA FinishIfDoneKeeps ==
    ASSUME ServerInv, FinishIfDone
    PROVE  ServerInv'
<1>1. /\ request.at = "attached" /\ open /\ request.job \in Jobs /\ request.run \in Runs
      /\ run[request.run].job = request.job
      /\ run[request.run].done \/ request.run \in ToSet(queue) \/ current = request.run
  BY DEF FinishIfDone, ServerInv, RequestHolds, Shapes, Starting
<1>2. /\ request' = Serving /\ run' = Collected(run)
      /\ UNCHANGED <<worker, open, status, dirs, sweep>>
  BY DEF FinishIfDone, Answer
<1>3. /\ request'.at = "idle" /\ request'.run = NoRun /\ request'.job = NoJob
      /\ Shapes'
  BY <1>2 DEF ServerInv, Shapes, Starting, Serving, Status
<1>4. /\ run' \in [Runs -> Run]
      /\ \A r \in Runs : InUse(r)' => run'[r] = run[r]
  BY <1>2, Collecting DEF ServerInv, TypeOK
<1>5. /\ active' \in [Jobs -> Runs \cup {NoRun}] /\ futures' \in [Jobs -> Runs \cup {NoRun}]
      /\ evicted' \subseteq Runs
      /\ \A j \in Jobs :
           /\ active'[j] \in {NoRun, active[j]} /\ futures'[j] \in {NoRun, futures[j]}
           /\ run[request.run].done => active'[j] # request.run /\ futures'[j] # request.run
      /\ \A q \in Runs : Live(q) /\ q \notin evicted' =>
           active'[run[q].job] = q /\ futures'[run[q].job] = q
  <2>1. CASE run[request.run].done
    <3>1. Finish(request.run) /\ ~Live(request.run)
      BY <1>1, <2>1 DEF FinishIfDone, Live, ServerInv, WorkerHolds
    <3>2. \A j \in Jobs : active[j] = request.run \/ futures[j] = request.run => j = request.job
      BY <1>1 DEF ServerInv, EntriesInUse
    <3>3. QED
      BY <1>1, <3>1, <3>2, FinishDrops, NullsAssumption
  <2>2. CASE ~run[request.run].done
    <3>1. UNCHANGED registry
      BY <2>2 DEF FinishIfDone
    <3>2. QED
      BY <1>1, <2>2, <3>1 DEF ServerInv, TypeOK, LiveIsRegistered, FuturesHeld, registry
  <2>3. QED
    BY <2>1, <2>2
<1>6. TypeOK'
  BY <1>2, <1>3, <1>4, <1>5 DEF ServerInv, TypeOK, Shapes, worker
<1>7. \A r \in Runs : InUse(r)' <=> r \in ToSet(queue) \/ current = r
  BY <1>2, <1>3, NullsAssumption DEF InUse, worker
<1>8. \A r \in Runs : Live(r)' => Live(r) /\ run'[r] = run[r]
  BY <1>2, <1>4, <1>7 DEF Live, worker
<1>9. EntriesInUse'
  <2>1. ASSUME NEW j \in Jobs, NEW r \in Runs, active'[j] = r \/ futures'[j] = r
        PROVE  run[r].job = j /\ InUse(r)'
    <3>1. active[j] = r \/ futures[j] = r
      BY <1>5, <2>1, NullsAssumption
    <3>2. run[r].job = j /\ InUse(r)
      BY <3>1 DEF ServerInv, EntriesInUse
    <3>3. request.run = r => ~run[r].done
      BY <1>5, <2>1
    <3>4. QED
      BY <1>1, <1>7, <3>2, <3>3 DEF InUse
  <2>2. QED
    BY <1>4, <1>7, <2>1 DEF ServerInv, EntriesInUse, InUse
<1>10. RequestHolds' /\ RemovalSafe'
  BY <1>3 DEF RequestHolds, RemovalSafe, Starting
<1>11. WorkerHolds'
  <2>1. /\ \A r \in ToSet(queue) : r \in Runs /\ run'[r] = run[r]
        /\ current # NoRun => current \in Runs /\ run'[current] = run[current]
        /\ phase = "notifying" => current # NoRun
    BY <1>4, <1>7 DEF ServerInv, TypeOK, ToSet
  <2>2. \A r \in Runs : r \in ToSet(queue) \/ current = r => run[r].callback
    BY <1>1 DEF ServerInv, WorkerHolds
  <2>3. QED
    BY <1>2, <2>1, <2>2, NullsAssumption DEF ServerInv, WorkerHolds, worker
<1>12. LiveIsRegistered' /\ FuturesHeld'
  BY <1>5, <1>8 DEF LiveIsRegistered, FuturesHeld
<1>13. QED
  BY <1>3, <1>6, <1>9, <1>10, <1>11, <1>12 DEF ServerInv

-----------------------------------------------------------------------------
\* The thread takes the oldest run.
LEMMA TakeKeeps ==
    ASSUME ServerInv, Take
    PROVE  ServerInv'
<1>1. /\ phase = "idle" /\ phase' = "claimed" /\ current = NoRun
      /\ current' = Head(queue) /\ queue' = Tail(queue)
      /\ UNCHANGED <<registry, run, request, open, status, dirs, sweep>>
  BY DEF Take, ServerInv, TypeOK
<1>2. /\ IsQueue(queue') /\ current' \in Runs /\ current' # NoRun
      /\ current' \in ToSet(queue) /\ ToSet(queue') = ToSet(queue) \ {current'}
  BY <1>1, TakeRun, NullsAssumption DEF Take, ServerInv, TypeOK, IsQueue
<1>3. TypeOK' /\ Shapes'
  BY <1>1, <1>2 DEF ServerInv, TypeOK, Shapes, IsQueue, registry
<1>4. \A r \in Runs : (InUse(r)' <=> InUse(r)) /\ (Live(r)' <=> Live(r))
  BY <1>1, <1>2, NullsAssumption DEF InUse, Live, ServerInv, WorkerHolds
<1>5. EntriesInUse' /\ LiveIsRegistered' /\ FuturesHeld' /\ RemovalSafe'
  BY <1>1, <1>4 DEF ServerInv, EntriesInUse, LiveIsRegistered, FuturesHeld, RemovalSafe, registry
<1>6. RequestHolds' /\ WorkerHolds'
  BY <1>1, <1>2, NullsAssumption DEF ServerInv, RequestHolds, WorkerHolds, registry
<1>7. QED
  BY <1>3, <1>5, <1>6 DEF ServerInv

\* The future is finished; the callback is called if it is attached.
LEMMA SetResultKeeps ==
    ASSUME ServerInv, SetResult
    PROVE  ServerInv'
<1> DEFINE finished == [run EXCEPT ![current].done = TRUE]
<1>1. /\ phase = "ended" /\ current \in Runs /\ ~run[current].done
      /\ UNCHANGED <<registry, queue, request, open, status, dirs, sweep>>
      /\ run' = Collected(finished)
  BY DEF SetResult, ServerInv, TypeOK, WorkerHolds
<1>2. /\ run[current].callback => phase' = "notifying" /\ current' = current
      /\ ~run[current].callback => phase' = "idle" /\ current' = NoRun
  BY DEF SetResult
<1>3. /\ finished \in [Runs -> Run] /\ finished[current].done
      /\ \A r \in Runs : finished[r].job = run[r].job /\ finished[r].callback = run[r].callback
      /\ \A r \in Runs \ {current} : finished[r] = run[r]
  BY <1>1 DEF ServerInv, TypeOK, Run
<1> HIDE DEF finished
<1>4. /\ run' \in [Runs -> Run]
      /\ \A r \in Runs : InUse(r)' => /\ run'[r].job = run[r].job
                                     /\ run'[r].callback = run[r].callback
      /\ \A r \in Runs \ {current} : InUse(r)' => run'[r] = run[r]
      /\ \A r \in Runs : InUse(r)' /\ r = current => run'[r].done
  BY <1>1, <1>3, Collecting
<1>5. TypeOK' /\ Shapes'
  BY <1>1, <1>2, <1>4, NullsAssumption DEF ServerInv, TypeOK, Shapes, registry
<1>6. ~run[current].callback => request.run = current /\ request.at \in {"submitted", "registered"}
  BY <1>1 DEF ServerInv, WorkerHolds
<1>7. /\ current \notin ToSet(queue) /\ ToSet(queue) \subseteq Runs
      /\ \A r \in Runs : InUse(r)' <=> InUse(r)
  BY <1>1, <1>2, <1>6, NullsAssumption DEF InUse, ServerInv, WorkerHolds, TypeOK, ToSet
<1>8. \A r \in Runs : Live(r)' => Live(r) /\ run'[r].job = run[r].job
  BY <1>1, <1>2, <1>4, NullsAssumption DEF Live, InUse
<1>9. EntriesInUse'
  BY <1>1, <1>4, <1>7 DEF ServerInv, EntriesInUse, registry
<1>10. RequestHolds'
  <2>1. \A r \in Runs : request.run = r =>
          /\ run'[r].job = run[r].job
          /\ r = current => run'[r].done
          /\ r # current => run'[r] = run[r]
    BY <1>4, <1>7 DEF InUse
  <2>2. request.at \in Starting => request.run \in Runs
    BY DEF ServerInv, RequestHolds, Shapes
  <2>3. QED
    BY <1>1, <2>1, <2>2 DEF ServerInv, RequestHolds, registry
<1>11. WorkerHolds'
  <2>1. \A r \in ToSet(queue) : r \in Runs /\ r # current /\ run'[r] = run[r]
    BY <1>1, <1>4, <1>7 DEF InUse
  <2>2. run[current].callback => run'[current].done /\ run'[current].callback
    <3>1. run[current].callback => \A r \in Runs : r = current => InUse(r)'
      BY <1>2 DEF InUse
    <3>2. QED
      BY <1>1, <1>4, <3>1
  <2>3. QED
    BY <1>1, <1>2, <2>1, <2>2, NullsAssumption DEF ServerInv, WorkerHolds
<1>12. LiveIsRegistered' /\ FuturesHeld' /\ RemovalSafe'
  BY <1>1, <1>8 DEF ServerInv, LiveIsRegistered, FuturesHeld, RemovalSafe, registry
<1>13. QED
  BY <1>5, <1>9, <1>10, <1>11, <1>12 DEF ServerInv

\* The late callback of a run.
LEMMA NotifyKeeps ==
    ASSUME ServerInv, Notify
    PROVE  ServerInv'
<1>1. /\ phase = "notifying" /\ phase' = "idle" /\ current \in Runs /\ current' = NoRun
      /\ run[current].done /\ run[current].job \in Jobs /\ ~Live(current)
      /\ current \notin ToSet(queue)
      /\ Finish(current) /\ run' = Collected(run)
      /\ UNCHANGED <<queue, request, open, status, dirs, sweep>>
  BY NullsAssumption DEF Notify, ServerInv, TypeOK, WorkerHolds, EntriesInUse, InUse, Live
<1>2. /\ run' \in [Runs -> Run]
      /\ \A r \in Runs : InUse(r)' => run'[r] = run[r]
  BY <1>1, Collecting DEF ServerInv, TypeOK
<1>3. /\ active' \in [Jobs -> Runs \cup {NoRun}] /\ futures' \in [Jobs -> Runs \cup {NoRun}]
      /\ evicted' \subseteq Runs
      /\ \A j \in Jobs :
           /\ active'[j] = IF j = run[current].job THEN NoRun ELSE active[j]
           /\ futures'[j] = IF j = run[current].job THEN NoRun ELSE futures[j]
  BY <1>1, FinishDrops
<1>4. TypeOK' /\ Shapes'
  BY <1>1, <1>2, <1>3 DEF ServerInv, TypeOK, Shapes
<1>5. \A r \in Runs : InUse(r)' <=> r \in ToSet(queue) \/ request.run = r
  BY <1>1, NullsAssumption DEF InUse
<1>6. \A r \in Runs : Live(r)' => Live(r) /\ run'[r] = run[r]
  BY <1>1, <1>2, <1>5, NullsAssumption DEF Live
<1>7. EntriesInUse'
  <2>1. ASSUME NEW j \in Jobs, NEW r \in Runs, active'[j] = r \/ futures'[j] = r
        PROVE  run[r].job = j /\ InUse(r)'
    <3>1. (active[j] = r \/ futures[j] = r) /\ j # run[current].job
      BY <1>3, <2>1, NullsAssumption
    <3>2. run[r].job = j /\ InUse(r)
      BY <3>1 DEF ServerInv, EntriesInUse
    <3>3. QED
      BY <1>5, <3>1, <3>2 DEF InUse
  <2>2. QED
    BY <1>2, <1>5, <2>1 DEF ServerInv, EntriesInUse, InUse
<1>8. RequestHolds'
  <2>1. request.at \in Starting =>
          request.run \in Runs /\ run'[request.run] = run[request.run] /\ request.job \in Jobs
    BY <1>2, <1>5 DEF ServerInv, RequestHolds, Shapes, Starting
  <2>2. request.at \in Starting => active'[request.job] \in {NoRun, request.run}
    BY <1>3, <2>1 DEF ServerInv, RequestHolds
  <2>3. QED
    BY <1>1, <2>1, <2>2 DEF ServerInv, RequestHolds
<1>9. WorkerHolds'
  <2>1. \A r \in ToSet(queue) : r \in Runs /\ run'[r] = run[r]
    BY <1>2, <1>5 DEF ServerInv, TypeOK, ToSet
  <2>2. QED
    BY <1>1, <2>1, NullsAssumption DEF ServerInv, WorkerHolds
<1>10. LiveIsRegistered' /\ FuturesHeld'
  BY <1>1, <1>6, FinishDrops DEF LiveIsRegistered, FuturesHeld
<1>11. RemovalSafe'
  BY <1>1, <1>6, FinishDrops DEF ServerInv, RemovalSafe
<1>12. QED
  BY <1>4, <1>7, <1>8, <1>9, <1>10, <1>11 DEF ServerInv

-----------------------------------------------------------------------------
\* Every step keeps the invariant.
LEMMA ServerInductive == ServerInv /\ [Next]_vars => ServerInv'
<1> SUFFICES ASSUME ServerInv, [Next]_vars PROVE ServerInv'
  OBVIOUS
<1>1. CASE Request
  <2>1. CASE Handle
    BY <2>1, SubmitKeeps, RegisterKeeps, AttachKeeps, FinishIfDoneKeeps, ReadingKeeps DEF Handle
  <2>2. CASE \E j \in Jobs : StartLoad(j) \/ CancelJob(j) \/ CleanupLoad(j)
    BY <2>2, ReadingKeeps, CancelKeeps
  <2>3. QED
    BY <1>1, <2>1, <2>2, CloseKeeps DEF Request
<1>2. CASE Worker
  BY <1>2, TakeKeeps, AttemptKeeps, SetResultKeeps, NotifyKeeps DEF Worker
<1>3. CASE Terminated \/ \E outcome \in {"completed", "at_rest"} : Translated(outcome)
  BY <1>3, AttemptKeeps
<1>4. CASE SweepScan \/ SweepEnds \/ \E s \in Stems : SweepRemove(s)
  BY <1>4, SweepKeeps
<1>5. CASE UNCHANGED vars
  BY <1>5 DEF vars, registry, worker, ServerInv, TypeOK, Shapes, EntriesInUse, RequestHolds,
              WorkerHolds, LiveIsRegistered, FuturesHeld, RemovalSafe, InUse, Live
<1>6. QED
  BY <1>1, <1>2, <1>3, <1>4, <1>5 DEF Next

\* The invariant holds in every reachable state.
THEOREM ServerInvariant == Spec => []ServerInv
  BY ServerStarts, ServerInductive, PTL DEF Spec

(***************************************************************************)
(* Every reachable state is well typed: in particular no run is queued     *)
(* twice, and the thread is idle exactly when it has no run.               *)
(***************************************************************************)
THEOREM WellTyped == Spec => []TypeOK
<1>1. ServerInv => TypeOK
  BY DEF ServerInv
<1>2. QED
  BY <1>1, ServerInvariant, PTL

(***************************************************************************)
(* A run that has ended does not stay in the registry, whoever unregisters *)
(* it and however late its callback comes: a job is never refused as       *)
(* "already active" for a run that is over (_start_translation, finish).   *)
(***************************************************************************)
THEOREM EntriesAreLive == Spec => []RegisteredIsLive
<1>1. ServerInv => RegisteredIsLive
  <2> SUFFICES ASSUME ServerInv, NEW j \in Jobs, NEW r \in {active[j], futures[j]} \ {NoRun}
               PROVE  Live(r) \/ current = r \/ request.run = r
    BY DEF RegisteredIsLive
  <2>1. r \in Runs
    BY DEF ServerInv, TypeOK
  <2>2. QED
    BY <2>1 DEF ServerInv, EntriesInUse, InUse, Live
<1>2. QED
  BY <1>1, ServerInvariant, PTL

(***************************************************************************)
(* While the server is open, a live run is the registered one of its job   *)
(* unless the callback of an earlier run took it out (finish).             *)
(***************************************************************************)
THEOREM LiveRunsRegistered == Spec => []LiveIsRegistered
<1>1. ServerInv => LiveIsRegistered
  BY DEF ServerInv
<1>2. QED
  BY <1>1, ServerInvariant, PTL

(***************************************************************************)
(* If no two jobs share a stem, cleanup_job never removes the directory of *)
(* an attempt under way, although it decides before it removes, unless     *)
(* that run was unregistered by the callback of another (_cleanup_job).    *)
(***************************************************************************)
THEOREM CleanupIsSafe ==
    ASSUME \A j, k \in Jobs : stem[j] = stem[k] => j = k
    PROVE  Spec => CleanupSparesRuns
<1>1. ASSUME ServerInv, Next, request.at = "removing", request'.at = "idle",
             AtWork, current \notin evicted
      PROVE  dirs \cap {stem[Job]} \subseteq dirs'
  <2>1. RemoveWorkDir
    BY <1>1 DEF Next, Request, Handle, StartLoad, CancelJob, CleanupLoad, Serve, RefuseActive,
         Submit, RegisterFuture, Attach, FinishIfDone, CleanupCheck, Close, Worker, Take, EndEarly,
         BeginAttempt, StartWorker, Look, Terminate, Terminated, StillRunning, Translated, Moves,
         SetResult, Notify, SweepScan, SweepEnds, SweepRemove
  <2>2. current \in Runs /\ Live(current) /\ Job \in Jobs /\ request.job \in Jobs
    BY <1>1 DEF ServerInv, TypeOK, WorkerHolds, EntriesInUse, RequestHolds, InUse, Live, AtWork, Job
  <2>3. Job # request.job
    BY <1>1, <2>2 DEF ServerInv, RemovalSafe, AtWork, Job
  <2>4. stem[Job] # stem[request.job]
    BY <2>2, <2>3
  <2>5. QED
    BY <2>1, <2>4 DEF RemoveWorkDir
<1>2. ServerInv /\ [Next]_vars =>
        [request.at = "removing" /\ request'.at = "idle"
             /\ AtWork /\ current \notin evicted
         => dirs \cap {stem[Job]} \subseteq dirs']_vars
  BY <1>1
<1>3. QED
  BY <1>2, ServerInvariant, PTL DEF Spec, CleanupSparesRuns


-----------------------------------------------------------------------------
(***************************************************************************)
(* The sweep of the other process.  What it kept was decided when it read  *)
(* the records, so the record of an attempt under way must have said       *)
(* RUNNING then, and the run it found must be the one that still runs and  *)
(* not a later one.                                                        *)
(***************************************************************************)
Attempting == phase = "starting" \/ AtWork

\* Only a run that was unregistered can have its record overwritten.
MarkedRunning == Attempting => status[Job] = "running" \/ current \in evicted

\* A run that had begun when the sweep read the records is not to begin again.
BeganBefore ==
    /\ sweep.began # NoRun => sweep.began \notin ToSet(queue)
    /\ phase = "claimed" => sweep.began # current

KeepsBegun ==
    Attempting /\ sweep.began = current =>
        stem[Job] \in sweep.keep \/ current \in evicted

SweepInv == MarkedRunning /\ BeganBefore /\ KeepsBegun

\* The steps of the worker's thread.
LEMMA WorkerSparesSwept ==
    ASSUME ServerInv, SweepInv, NEW outcome \in {"completed", "at_rest"},
           Worker \/ Terminated \/ Translated(outcome)
    PROVE  SweepInv'
<1> USE DEF ServerInv, SweepInv
<1>1. CASE Take
  <2>1. /\ phase' = "claimed" /\ sweep' = sweep
        /\ current' = Head(queue) /\ queue' = Tail(queue) /\ queue # <<>>
    BY <1>1 DEF Take
  <2>2. /\ current' \in ToSet(queue) /\ current' \in Runs
        /\ ToSet(queue') = ToSet(queue) \ {current'}
    BY <2>1, TakeRun DEF TypeOK, IsQueue
  <2>3. QED
    BY <2>1, <2>2, NullsAssumption DEF MarkedRunning, BeganBefore, KeepsBegun, Attempting, AtWork
<1>2. CASE SetResult \/ Notify
  <2>1. /\ phase' \in {"idle", "notifying"} /\ UNCHANGED <<sweep, queue>>
    BY <1>2 DEF SetResult, Notify
  <2>2. QED
    BY <2>1 DEF MarkedRunning, BeganBefore, KeepsBegun, Attempting, AtWork
<1>3. CASE EndEarly \/ BeginAttempt \/ StartWorker \/ Look \/ Terminate \/ StillRunning
             \/ Terminated \/ Translated(outcome)
  <2>1. /\ phase' # "claimed"
        /\ UNCHANGED <<active, futures, evicted, run, queue, current, request, open, sweep>>
    BY <1>3 DEF EndEarly, BeginAttempt, StartWorker, Look, Terminate, Terminated, StillRunning, Translated,
                Moves, registry
  <2>2. current \in Runs /\ Job \in Jobs /\ Job' = Job
    BY <1>3, <2>1 DEF EndEarly, BeginAttempt, StartWorker, Look, Terminate, Terminated, StillRunning, Translated,
                TypeOK, EntriesInUse, InUse, Job
  <2>3. BeganBefore'
    BY <2>1 DEF BeganBefore
  <2>4. CASE EndEarly \/ Terminated \/ Translated(outcome)
    <3>1. phase' = "ended"
      BY <2>4 DEF EndEarly, Terminated, Translated, Moves
    <3>2. QED
      BY <2>3, <3>1 DEF MarkedRunning, KeepsBegun, Attempting, AtWork
  <2>5. CASE BeginAttempt
    <3>1. phase = "claimed" /\ status' = [status EXCEPT ![Job] = "running"]
      BY <2>5 DEF BeginAttempt, Moves
    <3>2. status'[Job] = "running"
      BY <2>2, <3>1 DEF TypeOK
    <3>3. QED
      BY <2>1, <2>2, <2>3, <3>1, <3>2 DEF MarkedRunning, BeganBefore, KeepsBegun
  <2>6. CASE StartWorker \/ Look \/ Terminate \/ StillRunning
    <3>1. Attempting /\ status' = [status EXCEPT ![Job] = status[Job]]
      BY <2>6 DEF StartWorker, Look, Terminate, StillRunning, Moves, Attempting, AtWork
    <3>2. status'[Job] = status[Job]
      BY <2>2, <3>1 DEF TypeOK
    <3>3. QED
      BY <2>1, <2>2, <2>3, <3>1, <3>2 DEF MarkedRunning, KeepsBegun
  <2>7. QED
    BY <1>3, <2>4, <2>5, <2>6
<1>4. QED
  BY <1>1, <1>2, <1>3 DEF Worker

\* While a run is attempted, no request takes it out of what is evicted, and
\* none changes whose run it is.
LEMMA RequestSparesRun ==
    ASSUME ServerInv, Request
    PROVE  /\ phase' = phase /\ current' = current
           /\ Attempting => /\ current \in Runs /\ Job \in Jobs /\ Job' = Job
                            /\ current \in evicted => current \in evicted'
<1> USE DEF ServerInv
<1>1. UNCHANGED <<phase, current>>
  BY DEF Request, Handle, StartLoad, CancelJob, CleanupLoad, Serve, RefuseActive, Submit,
         RegisterFuture, Attach, FinishIfDone, CleanupCheck, RemoveWorkDir, Close, worker
<1> SUFFICES ASSUME Attempting
             PROVE  /\ current \in Runs /\ Job \in Jobs /\ Job' = Job
                    /\ current \in evicted => current \in evicted'
  BY <1>1
<1>2. /\ current \in Runs /\ Job \in Jobs /\ Live(current)
      /\ \A r \in Runs : r = current => InUse(r)'
  BY <1>1 DEF Attempting, AtWork, TypeOK, WorkerHolds, EntriesInUse, InUse, Live, Job
<1>3. CASE \/ \E j \in Jobs : StartLoad(j) \/ CleanupLoad(j)
           \/ RefuseActive \/ RegisterFuture \/ CleanupCheck \/ RemoveWorkDir
  <2>1. UNCHANGED <<run, evicted>>
    BY <1>3 DEF StartLoad, CleanupLoad, Serve, RefuseActive, RegisterFuture, CleanupCheck,
                RemoveWorkDir, registry
  <2>2. QED
    BY <1>1, <1>2, <2>1 DEF Job
<1>4. CASE \E j \in Jobs : CancelJob(j)
  <2>1. PICK j \in Jobs : CancelJob(j)
    BY <1>4
  <2>2. active[j] \in Runs /\ run' = [run EXCEPT ![active[j]].cancel = TRUE] /\ UNCHANGED evicted
    BY <2>1 DEF CancelJob, TypeOK, registry
  <2>3. run'[current].job = run[current].job
    BY <1>2, <2>2 DEF TypeOK, Run
  <2>4. QED
    BY <1>1, <1>2, <2>2, <2>3 DEF Job
<1>5. CASE \E r \in Runs : Submit(r)
  <2>1. PICK r \in Runs : Submit(r)
    BY <1>5
  <2>2. /\ current # r /\ evicted' = evicted \ {r}
        /\ run' = [run EXCEPT ![r] = [NotCreated EXCEPT !.job = request.job]]
    BY <2>1 DEF Submit, Free
  <2>3. run'[current] = run[current]
    BY <1>2, <2>2 DEF TypeOK
  <2>4. QED
    BY <1>1, <1>2, <2>2, <2>3 DEF Job
<1>6. CASE Attach \/ FinishIfDone
  <2>1. /\ request.at \in Starting /\ request.run \in Runs /\ run[request.run].job \in Jobs
        /\ run[request.run].done \/ request.run \in ToSet(queue) \/ current = request.run
    BY <1>6 DEF Attach, FinishIfDone, RequestHolds, Shapes, Starting
  <2>2. current \in evicted => current \in evicted'
    <3>1. CASE run[request.run].done
      <4>1. Finish(request.run) /\ ~Live(request.run)
        BY <1>6, <3>1 DEF Attach, FinishIfDone, Live, WorkerHolds
      <4>2. QED
        BY <1>2, <2>1, <4>1, FinishDrops
    <3>2. CASE ~run[request.run].done
      BY <1>6, <3>2 DEF Attach, FinishIfDone, registry
    <3>3. QED
      BY <3>1, <3>2
  <2>3. run'[current].job = run[current].job
    <3>1. CASE Attach
      <4>1. run' = run \/ run' = [run EXCEPT ![request.run].callback = TRUE]
        BY <3>1 DEF Attach
      <4>2. QED
        BY <1>2, <2>1, <4>1 DEF TypeOK, Run
    <3>2. CASE FinishIfDone
      <4>1. run' = Collected(run) /\ run \in [Runs -> Run]
        BY <3>2 DEF FinishIfDone, TypeOK
      <4>2. QED
        BY <1>2, <4>1, Collecting
    <3>3. QED
      BY <1>6, <3>1, <3>2
  <2>4. QED
    BY <1>1, <1>2, <2>2, <2>3 DEF Job
<1>7. CASE Close
  <2> DEFINE flag(r) == run[r].cancel \/ \E j \in Jobs : active[j] = r
             told == [r \in Runs |-> [run[r] EXCEPT !.cancel = flag(r)]]
  <2>1. run' = Collected(told) /\ UNCHANGED evicted
    BY <1>7 DEF Close
  <2>2. told \in [Runs -> Run] /\ told[current].job = run[current].job
    <3>1. \A r \in Runs : flag(r) \in BOOLEAN
      BY DEF TypeOK, Run
    <3> HIDE DEF flag
    <3>2. QED
      BY <1>2, <3>1 DEF TypeOK, Run
  <2> HIDE DEF told
  <2>3. run'[current] = told[current]
    BY <1>2, <2>1, <2>2, Collecting
  <2>4. QED
    BY <1>1, <1>2, <2>1, <2>2, <2>3 DEF Job
<1>8. QED
  BY <1>3, <1>4, <1>5, <1>6, <1>7 DEF Request, Handle

\* A start of the same job overwrites the record only of a run that is evicted.
LEMMA RequestSparesSwept ==
    ASSUME ServerInv, SweepInv, Request
    PROVE  SweepInv'
<1> USE DEF ServerInv, SweepInv
<1>1. /\ phase' = phase /\ current' = current
      /\ Attempting => /\ current \in Runs /\ Job \in Jobs /\ Job' = Job
                       /\ current \in evicted => current \in evicted'
  BY RequestSparesRun
<1>2. CASE \E r \in Runs : Submit(r)
  <2>1. PICK r \in Runs : Submit(r)
    BY <1>2
  <2>2. /\ open /\ request.job \in Jobs /\ active[request.job] = NoRun
        /\ current # r /\ queue' = Append(queue, r) /\ r \notin ToSet(queue)
        /\ status' = [status EXCEPT ![request.job] =
                         IF request.seen = "absent" THEN "at_rest" ELSE request.seen]
        /\ sweep' = [sweep EXCEPT !.began = IF @ = r THEN NoRun ELSE @]
    BY <2>1 DEF Submit, Free, RequestHolds
  <2>3. /\ sweep'.keep = sweep.keep
        /\ sweep'.began = IF sweep.began = r THEN NoRun ELSE sweep.began
    BY <2>2 DEF Shapes
  <2>4. ToSet(queue') = ToSet(queue) \cup {r}
    BY <2>2, AppendRun DEF TypeOK, IsQueue
  <2>5. BeganBefore'
    <3>1. phase = "claimed" => current # NoRun
      BY DEF TypeOK
    <3>2. QED
      BY <1>1, <2>3, <2>4, <3>1 DEF BeganBefore
  <2>6. MarkedRunning'
    <3> SUFFICES ASSUME Attempting, current \notin evicted
                 PROVE  status'[Job] = "running"
      BY <1>1 DEF MarkedRunning, Attempting, AtWork
    <3>1. Live(current)
      BY DEF Attempting, AtWork, TypeOK, WorkerHolds, Live
    <3>2. active[Job] = current /\ current # NoRun
      BY <1>1, <2>2, <3>1, NullsAssumption DEF LiveIsRegistered, Job
    <3>3. Job # request.job
      BY <2>2, <3>2
    <3>4. QED
      BY <1>1, <2>2, <3>3 DEF MarkedRunning, TypeOK
  <2>7. KeepsBegun'
    <3>1. Attempting => current # NoRun
      BY DEF Attempting, AtWork, TypeOK
    <3>2. QED
      BY <1>1, <2>3, <3>1 DEF KeepsBegun, Attempting, AtWork
  <2>8. QED
    BY <2>5, <2>6, <2>7
<1>3. CASE ~\E r \in Runs : Submit(r)
  <2>1. UNCHANGED <<status, sweep>> /\ (queue' = queue \/ queue' = <<>>)
    BY <1>3 DEF Request, Handle, StartLoad, CancelJob, CleanupLoad, Serve, RefuseActive,
         RegisterFuture, Attach, FinishIfDone, CleanupCheck, RemoveWorkDir, Close, worker
  <2>2. ToSet(queue') \subseteq ToSet(queue)
    BY <2>1, NoRuns
  <2>3. QED
    BY <1>1, <2>1, <2>2 DEF MarkedRunning, BeganBefore, KeepsBegun, Attempting, AtWork
<1>4. QED
  BY <1>2, <1>3

\* What the sweep finds marked it keeps.
LEMMA SweepSparesSwept ==
    ASSUME ServerInv, SweepInv, SweepScan \/ SweepEnds \/ \E s \in Stems : SweepRemove(s)
    PROVE  SweepInv'
<1> USE DEF ServerInv, SweepInv
<1>1. UNCHANGED <<registry, run, worker, request, open, status>>
  BY DEF SweepScan, SweepEnds, SweepRemove
<1>2. MarkedRunning'
  BY <1>1 DEF MarkedRunning, Attempting, AtWork, Job, registry, worker
<1>3. Attempting => current \in Runs /\ Job \in Jobs
  BY DEF Attempting, AtWork, TypeOK, EntriesInUse, InUse, Job
<1>4. current \notin ToSet(queue)
  BY DEF WorkerHolds
<1>5. CASE SweepScan
  <2>1. /\ sweep'.keep = ActiveStems(Jobs)
        /\ sweep'.began = IF Attempting THEN current ELSE NoRun
    BY <1>5 DEF SweepScan, Attempting, AtWork
  <2>2. phase = "claimed" => current # NoRun /\ ~Attempting
    BY DEF TypeOK, Attempting, AtWork
  <2>3. BeganBefore'
    BY <1>1, <1>4, <2>1, <2>2 DEF BeganBefore, worker
  <2>4. Attempting => stem[Job] \in ActiveStems(Jobs) \/ current \in evicted
    BY <1>3 DEF MarkedRunning, ActiveStems, Active
  <2>5. KeepsBegun'
    BY <1>1, <2>1, <2>4 DEF KeepsBegun, Attempting, AtWork, Job, registry, worker
  <2>6. QED
    BY <1>2, <2>3, <2>5
<1>6. CASE SweepEnds
  <2>1. sweep'.began = NoRun
    BY <1>6 DEF SweepEnds, NoSweep
  <2>2. Attempting \/ phase = "claimed" => current # NoRun
    BY DEF TypeOK, Attempting, AtWork
  <2>3. QED
    BY <1>1, <1>2, <2>1, <2>2 DEF BeganBefore, KeepsBegun, Attempting, AtWork, worker
<1>7. CASE \E s \in Stems : SweepRemove(s)
  <2>1. sweep' = sweep
    BY <1>7 DEF SweepRemove
  <2>2. QED
    BY <1>1, <1>2, <2>1 DEF BeganBefore, KeepsBegun, Attempting, AtWork, Job, registry, worker
<1>8. QED
  BY <1>5, <1>6, <1>7

(***************************************************************************)
(* "babelcodex cleanup" spares the directory of every run that it found    *)
(* marked RUNNING, though it removes long after it read the records and    *)
(* jobs may share stems; the run must not have been unregistered by the    *)
(* callback of another (sweep_work_dirs).                                  *)
(***************************************************************************)
THEOREM SweepIsSafe == Spec => SweepSparesRuns
<1>1. Init => SweepInv
  BY NoRuns DEF Init, SweepInv, MarkedRunning, BeganBefore, KeepsBegun, Attempting, AtWork, NoSweep
<1>2. ServerInv /\ SweepInv /\ [Next]_vars => SweepInv'
  <2> SUFFICES ASSUME ServerInv, SweepInv, [Next]_vars PROVE SweepInv'
    OBVIOUS
  <2>1. CASE UNCHANGED vars
    BY <2>1 DEF vars, registry, worker, SweepInv, MarkedRunning, BeganBefore, KeepsBegun,
                Attempting, AtWork, Job
  <2>2. CASE Next
    BY <2>2, RequestSparesSwept, WorkerSparesSwept, SweepSparesSwept DEF Next
  <2>3. QED
    BY <2>1, <2>2
<1>3. ASSUME SweepInv, Next, sweep.on, sweep'.on, AtWork,
             sweep.began = current, current \notin evicted, request.at # "removing"
      PROVE  dirs \cap {stem[Job]} \subseteq dirs'
  <2>1. stem[Job] \in sweep.keep
    BY <1>3 DEF SweepInv, KeepsBegun, Attempting, AtWork
  <2>2. CASE \E s \in Stems : SweepRemove(s)
    BY <2>1, <2>2 DEF SweepRemove
  <2>3. CASE ~\E s \in Stems : SweepRemove(s)
    <3>1. dirs \subseteq dirs'
      BY <1>3, <2>3 DEF Next, Request, Handle, StartLoad, CancelJob, CleanupLoad, Serve, RefuseActive,
         Submit, RegisterFuture, Attach, FinishIfDone, CleanupCheck, RemoveWorkDir, Close, Worker,
         Take, EndEarly, BeginAttempt, StartWorker, Look, Terminate, Terminated, StillRunning, Translated, Moves,
         SetResult, Notify, SweepScan, SweepEnds, NoSweep
    <3>2. QED
      BY <3>1
  <2>4. QED
    BY <2>2, <2>3
<1>4. SweepInv /\ [Next]_vars =>
        [sweep.on /\ sweep'.on /\ AtWork
             /\ sweep.began = current /\ current \notin evicted /\ request.at # "removing"
         => dirs \cap {stem[Job]} \subseteq dirs']_vars
  BY <1>3
<1>5. QED
  BY <1>1, <1>2, <1>4, ServerInvariant, PTL DEF Spec, SweepSparesRuns
=============================================================================
