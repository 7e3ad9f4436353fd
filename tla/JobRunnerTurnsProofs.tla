------------------------ MODULE JobRunnerTurnsProofs ------------------------
(***************************************************************************)
(* What a job's record promises when processes take turns at it and no     *)
(* request writes it: the attempt budget, the owner of an active record    *)
(* and the durability of a completed one, through any number of processes, *)
(* crashes, recoveries, failing saves and forced runs; and, while saves    *)
(* succeed, that active means working and that the record implements       *)
(* JobLifecycle.  One result needs none of this: which failures run_one    *)
(* retries.                                                                *)
(***************************************************************************)
EXTENDS JobRunnerProofs

\* A process that runs nothing counts nothing.
LEMMA IdleFacts == Idle.pc = "idle" /\ RunCounts(Idle)
  BY DEF Idle, RunCounts, Working

\* The run of p is the only one, and nothing else holds a copy.
LEMMA Solo ==
    ASSUME BudgetInv, NEW p \in Procs, Alive(p), NEW q \in Procs \ {p}
    PROVE  run[q].pc = "idle" /\ request[q] = "none" /\ ~Alive(q)
  BY DEF BudgetInv, Alive

\* A step of the run of p, judged by what it leaves of that run.
LEMMA RunMoves ==
    ASSUME BudgetInv, TypeOK', NEW p \in Procs, run[p].pc # "idle",
           UNCHANGED <<life, request, held>>,
           \A q \in Procs \ {p} : run'[q] = run[q],
           RunCounts(run[p])', spent' <= CountOnDisk'
    PROVE  BudgetInv'
<1>1. life[p] = "up" /\ Alive(p)
  BY DEF BudgetInv, Alive
<1>2. request[p] = "none"
  BY <1>1 DEF BudgetInv
<1>3. \A q \in Procs \ {p} : run'[q].pc = "idle" /\ request[q] = "none"
  BY <1>1, Solo
<1>4. \A q \in Procs : RunCounts(run[q])'
  BY <1>3 DEF RunCounts, Working
<1>5. \A q \in Procs : run'[q].pc # "idle" => life'[q] = "up"
  BY <1>1, <1>3
<1>6. \A q \in Procs : request'[q] = "none"
  BY <1>2, <1>3
<1>7. \A q, r \in Procs : Alive(q)' /\ Alive(r)' => q = r
  BY DEF BudgetInv, Alive
<1>8. QED
  BY <1>4, <1>5, <1>6, <1>7 DEF BudgetInv

\* A save replaces the file or raises, and touches no other run.
LEMMA SaveCases ==
    ASSUME TypeOK, NEW p \in Procs, NEW record, NEW saved \in Run, NEW raised \in Run,
           Save(p, record, saved, raised)
    PROVE  /\ \/ disk' = record /\ run'[p] = saved
              \/ disk' = disk /\ run'[p] = raised
           /\ \A q \in Procs \ {p} : run'[q] = run[q]
  BY DEF Save, Becomes, TypeOK

\* A step that neither begins an attempt nor calls the backend: what it
\* writes has the count the file has.
LEMMA CountKept ==
    ASSUME BudgetInv, TypeOK', NEW p \in Procs, run[p].pc \in Working,
           UNCHANGED <<life, request, held, spent>>,
           \A q \in Procs \ {p} : run'[q] = run[q],
           disk' = disk \/ (disk' \in JobRecord /\ disk'.attempts = run[p].job.attempts),
           run'[p].pc \notin {"begun", "check", "dropping"},
           run'[p].pc # "idle" => run'[p].job.attempts = run[p].job.attempts
    PROVE  BudgetInv'
<1>1. disk # NoRecord /\ run[p].job.attempts = CountOnDisk
  BY DEF BudgetInv, RunCounts
<1>2. disk' # NoRecord /\ CountOnDisk' = CountOnDisk
  BY <1>1, NoRecordAssumption DEF CountOnDisk
<1>3. run[p].pc # "idle"
  BY DEF Working
<1>4. RunCounts(run[p])'
  BY <1>1, <1>2 DEF RunCounts, Working
<1>5. spent' <= CountOnDisk'
  BY <1>2 DEF BudgetInv
<1>6. QED
  BY <1>3, <1>4, <1>5, RunMoves

-----------------------------------------------------------------------------
\* The invariant holds at the start.
LEMMA BudgetInit == Init => BudgetInv
<1> SUFFICES ASSUME Init PROVE BudgetInv
  OBVIOUS
<1>1. TypeOK
  BY InitType
<1>2. QED
  BY <1>1, IdleFacts DEF Init, BudgetInv, Alive, CountOnDisk

\* Starting, scanning and dying.
LEMMA ProcessStep ==
    ASSUME BudgetInv, TypeOK', ~Overlap, NEW p \in Procs, Boot(p) \/ Recover(p) \/ Crash(p)
    PROVE  BudgetInv'
<1> USE DEF BudgetInv
<1>1. CASE Boot(p)
  <2> USE <1>1 DEF Boot
  <2>1. \A q \in Procs : ~Alive(q)
    OBVIOUS
  <2>2. \A q \in Procs : run[q].pc = "idle" /\ request[q] = "none"
    BY <2>1 DEF Alive
  <2>3. /\ \A q \in Procs \ {p} : life'[q] = life[q] /\ request'[q] = "none"
        /\ life'[p] = "recovering" \/ request'[p] = "none"
        /\ request'[p] \in {"none", "recover"}
        /\ request'[p] = "recover" => disk # NoRecord /\ held'[p] = disk
    BY <2>2 DEF TypeOK
  <2>4. \A q, r \in Procs : Alive(q)' /\ Alive(r)' => q = r
    BY <2>1, <2>3 DEF Alive
  <2>5. \A q \in Procs : RunCounts(run[q])'
    BY <2>2 DEF RunCounts, Working
  <2>6. QED
    BY <2>2, <2>3, <2>4, <2>5 DEF CountOnDisk
<1>2. CASE Recover(p)
  <2> USE <1>2 DEF Recover, Done
  <2>1. /\ life[p] = "recovering" /\ disk # NoRecord /\ held[p] = disk
        /\ Alive(p) /\ run[p].pc = "idle"
    BY DEF Alive
  <2>2. \A q \in Procs \ {p} : run[q].pc = "idle" /\ request[q] = "none" /\ ~Alive(q)
    BY <2>1, Solo
  <2>3. disk' # NoRecord /\ CountOnDisk' = CountOnDisk
    <3>1. disk \in JobRecord
      BY <2>1 DEF TypeOK
    <3>2. Terminalized(disk).attempts = disk.attempts
      BY <3>1 DEF Terminalized, JobRecord
    <3>3. disk' = disk \/ disk' = Terminalized(disk)
      BY <2>1
    <3>4. Terminalized(disk) # NoRecord
      BY <3>1, NoRecordAssumption DEF Terminalized, JobRecord, JobStatus, ErrorCategory
    <3>5. QED
      BY <2>1, <3>2, <3>3, <3>4 DEF CountOnDisk
  <2>4. \A q \in Procs : request'[q] = "none" /\ RunCounts(run[q])'
    BY <2>1, <2>2 DEF RunCounts, Working, TypeOK
  <2>5. \A q, r \in Procs : Alive(q)' /\ Alive(r)' => q = r
    BY <2>2 DEF Alive, TypeOK
  <2>6. QED
    BY <2>1, <2>2, <2>3, <2>4, <2>5
<1>3. CASE Crash(p)
  <2> USE <1>3 DEF Crash, Done, Becomes
  <2>1. \A q \in Procs \ {p} : run[q].pc = "idle" /\ request[q] = "none" /\ ~Alive(q)
    BY Solo
  <2>2. \A q \in Procs : run'[q].pc = "idle" /\ request'[q] = "none"
    BY <2>1, IdleFacts DEF TypeOK
  <2>3. \A q \in Procs : ~Alive(q)'
    BY <2>1 DEF Alive, TypeOK
  <2>4. \A q \in Procs : RunCounts(run[q])'
    BY <2>2 DEF RunCounts, Working
  <2>5. QED
    BY <2>2, <2>3, <2>4 DEF CountOnDisk
<1>4. QED
  BY <1>1, <1>2, <1>3

\* The worker thread takes a cancelled run from the queue, and marks the record.
LEMMA DropEffect ==
    ASSUME TypeOK, NEW p \in Procs, RunCounts(run[p]), SaveCancelled(p)
    PROVE  /\ run[p].pc = "dropping" /\ run'[p] = Idle
           /\ UNCHANGED <<life, request, held, spent>>
           /\ \A q \in Procs \ {p} : run'[q] = run[q]
           /\ \/ /\ disk' \in JobRecord /\ disk'.status = "cancelled"
                 /\ disk'.attempts = CountOnDisk
                 /\ disk'.runner_pid = Loaded.runner_pid
              \/ DiskFaults /\ disk' = disk
<1>1. /\ Loaded \in JobRecord /\ Loaded.attempts = CountOnDisk
      /\ run[p].pc = "dropping" /\ run[p].job = Loaded
  BY LoadedType DEF SaveCancelled, RunCounts, Loaded, CountOnDisk, FreshJob
<1>2. /\ CancelledUnrun(Loaded) \in JobRecord /\ CancelledUnrun(Loaded).status = "cancelled"
      /\ CancelledUnrun(Loaded).attempts = CountOnDisk
      /\ CancelledUnrun(Loaded).runner_pid = Loaded.runner_pid
  BY <1>1 DEF CancelledUnrun, JobRecord, JobStatus
<1>3. Save(p, CancelledUnrun(Loaded), Idle, Idle)
  BY <1>1 DEF SaveCancelled
<1>4. /\ disk' = CancelledUnrun(Loaded) \/ (DiskFaults /\ disk' = disk)
      /\ run' = [run EXCEPT ![p] = Idle]
  BY <1>3 DEF Save, Becomes
<1>5. QED
  BY <1>1, <1>2, <1>4 DEF SaveCancelled, TypeOK

\* Dropping a run that was cancelled in the queue leaves the count as it is.
LEMMA DropStep ==
    ASSUME BudgetInv, TypeOK', NEW p \in Procs, LoadCancelled(p) \/ SaveCancelled(p)
    PROVE  BudgetInv'
<1>0. TypeOK /\ RunCounts(run[p]) /\ spent <= CountOnDisk
  BY DEF BudgetInv
<1>1. CASE LoadCancelled(p)
  <2> USE <1>1 DEF LoadCancelled
  <2>1. /\ run'[p].pc = "dropping" /\ run'[p].job = Loaded
        /\ \A q \in Procs \ {p} : run'[q] = run[q]
    BY <1>0, LoadedType, AtType DEF Becomes, TypeOK, Location
  <2>2. RunCounts(run[p])'
    BY <2>1 DEF RunCounts, Working, Loaded
  <2>3. \A q \in Procs : RunCounts(run[q])'
    BY <2>1, <2>2 DEF BudgetInv, RunCounts, CountOnDisk, Loaded
  <2>4. QED
    BY <2>1, <2>3 DEF BudgetInv, Alive, CountOnDisk
<1>2. CASE SaveCancelled(p)
  <2>1. /\ run[p].pc = "dropping" /\ run'[p] = Idle
        /\ UNCHANGED <<life, request, held, spent>>
        /\ \A q \in Procs \ {p} : run'[q] = run[q]
        /\ disk' = disk \/ (disk' \in JobRecord /\ disk'.attempts = CountOnDisk)
    BY <1>0, <1>2, DropEffect
  <2>2. CountOnDisk' = CountOnDisk
    BY <2>1, NoRecordAssumption DEF CountOnDisk
  <2>3. RunCounts(run[p])'
    BY <2>1, IdleFacts DEF RunCounts, Working
  <2>4. QED
    BY <1>0, <2>1, <2>2, <2>3, RunMoves
<1>3. QED
  BY <1>1, <1>2

\* Up to the first save of a run: nothing is written.
LEMMA EnterStep ==
    ASSUME BudgetInv, TypeOK', NEW p \in Procs, NEW forced \in BOOLEAN,
           StartRun(p, forced) \/ LoadJob(p) \/ CannotRead(p) \/ SkipCompleted(p) \/ OutOfAttempts(p)
    PROVE  BudgetInv'
<1>0. TypeOK
  BY DEF BudgetInv
<1>1. CASE StartRun(p, forced)
  <2> USE <1>1 DEF StartRun
  <2>1. /\ run'[p].pc = "load"
        /\ \A q \in Procs \ {p} : run'[q] = run[q]
    BY <1>0 DEF Becomes, Idle, TypeOK
  <2>2. RunCounts(run[p])'
    BY <2>1 DEF RunCounts, Working
  <2>3. \A q \in Procs : RunCounts(run[q])'
    BY <2>1, <2>2 DEF BudgetInv, RunCounts, CountOnDisk, Loaded
  <2>4. QED
    BY <2>1, <2>3 DEF BudgetInv, Alive, CountOnDisk
<1>2. CASE LoadJob(p)
  <2> DEFINE loaded == Loaded
  <2>1. loaded \in JobRecord /\ loaded.attempts = CountOnDisk
    BY <1>0, LoadedType DEF Loaded, CountOnDisk, FreshJob
  <2>2. /\ CountedJob(p, loaded) \in JobRecord
        /\ CountedJob(p, loaded).attempts = loaded.attempts
             \/ (run[p].force /\ CountedJob(p, loaded).attempts = 0)
    <3>1. 0 \in 0..MaxAttempts
      BY MaxAttemptsPositive
    <3>2. QED
      BY <2>1, <3>1 DEF CountedJob, JobRecord
  <2>3. run' = [run EXCEPT ![p] = At(p, IF Settled(p, loaded) THEN "check" ELSE "loop",
                                     CountedJob(p, loaded))]
    BY <1>2 DEF LoadJob, Becomes
  <2> HIDE DEF loaded
  <2>4. /\ run'[p].pc \in {"check", "loop"}
        /\ run'[p].job = CountedJob(p, loaded) /\ run'[p].force = run[p].force
        /\ \A q \in Procs \ {p} : run'[q] = run[q]
    BY <1>0, <2>2, <2>3, RunFields DEF At, Run, TypeOK
  <2>5. RunCounts(run[p])'
    BY <1>2, <2>1, <2>2, <2>4 DEF RunCounts, CountOnDisk, Working, LoadJob
  <2>6. QED
    BY <1>2, <2>4, <2>5, RunMoves DEF LoadJob, BudgetInv, CountOnDisk
<1>3. CASE CannotRead(p) \/ SkipCompleted(p) \/ OutOfAttempts(p)
  <2> USE <1>3 DEF CannotRead, SkipCompleted, OutOfAttempts
  <2>1. run'[p] = Idle /\ \A q \in Procs \ {p} : run'[q] = run[q]
    BY <1>0 DEF Becomes, TypeOK
  <2>2. RunCounts(run[p])'
    BY <2>1, IdleFacts DEF RunCounts, Working
  <2>3. QED
    BY <2>1, <2>2, RunMoves DEF BudgetInv, CountOnDisk
<1>4. QED
  BY <1>1, <1>2, <1>3

-----------------------------------------------------------------------------
\* The three steps that write the count, or translate.
LEMMA CountStep ==
    ASSUME BudgetInv, TypeOK', NEW p \in Procs,
           RejectCompleted(p) \/ BeginAttempt(p) \/ StartTranslating(p)
    PROVE  BudgetInv'
<1> DEFINE job == run[p].job
<1>0. /\ TypeOK /\ job \in JobRecord /\ job.attempts \in Nat /\ run[p] \in Run
      /\ spent \in Nat /\ CountOnDisk \in Nat /\ spent <= CountOnDisk
      /\ RunCounts(run[p])
  BY RunFields, MaxAttemptsPositive DEF BudgetInv, TypeOK, JobRecord, CountOnDisk
<1>1. CASE RejectCompleted(p)
  <2> DEFINE reset == [job EXCEPT !.status = "discovered", !.stage = "discovered",
                                  !.attempts = 0, !.qa_status = "failed"]
  <2>1. reset \in JobRecord /\ reset.attempts = 0
    <3>1. 0 \in 0..MaxAttempts
      BY MaxAttemptsPositive
    <3>2. QED
      BY <1>0, <3>1 DEF JobRecord, JobStatus, JobStage
  <2>2. Save(p, reset, At(p, "loop", reset), Idle)
    BY <1>1 DEF RejectCompleted
  <2> HIDE DEF reset
  <2>3. /\ At(p, "loop", reset) \in Run /\ At(p, "loop", reset).pc = "loop"
        /\ At(p, "loop", reset).job = reset
    BY <1>0, <2>1, AtType DEF Location
  <2>4. /\ \/ disk' = reset /\ run'[p] = At(p, "loop", reset)
           \/ disk' = disk /\ run'[p] = Idle
        /\ \A q \in Procs \ {p} : run'[q] = run[q]
    BY <1>0, <2>2, <2>3, IdleType, SaveCases
  <2>5. CASE disk' = reset /\ run'[p] = At(p, "loop", reset)
    <3>1. spent' = 0 /\ CountOnDisk' = 0
      BY <1>1, <2>1, <2>3, <2>5, NoRecordAssumption DEF RejectCompleted, CountOnDisk
    <3>2. RunCounts(run[p])'
      BY <2>1, <2>3, <2>5, <3>1 DEF RunCounts, Working
    <3>3. QED
      BY <1>1, <2>4, <3>1, <3>2, RunMoves DEF RejectCompleted
  <2>6. CASE disk' = disk /\ run'[p] = Idle
    <3>1. spent' = spent /\ CountOnDisk' = CountOnDisk
      BY <1>1, <2>6, IdleFacts DEF RejectCompleted, CountOnDisk
    <3>2. RunCounts(run[p])'
      BY <2>6, IdleFacts DEF RunCounts, Working
    <3>3. QED
      BY <1>0, <1>1, <2>4, <3>1, <3>2, RunMoves DEF RejectCompleted
  <2>7. QED
    BY <2>4, <2>5, <2>6
<1>2. CASE BeginAttempt(p)
  <2> DEFINE begun == Attempt(p, job)
  <2>1. begun \in JobRecord /\ begun.attempts = job.attempts + 1
    <3>1. job.attempts + 1 \in 0..MaxAttempts
      BY <1>0, <1>2, MaxAttemptsPositive DEF BeginAttempt, AttemptLeft, JobRecord
    <3>2. QED
      BY <1>0, <3>1 DEF Attempt, JobRecord, JobStatus, JobStage
  <2>2. Save(p, begun, At(p, "begun", begun), Idle)
    BY <1>2 DEF BeginAttempt
  <2> HIDE DEF begun
  <2>3. /\ At(p, "begun", begun) \in Run /\ At(p, "begun", begun).pc = "begun"
        /\ At(p, "begun", begun).job = begun
    BY <1>0, <2>1, AtType DEF Location, Working
  <2>4. /\ \/ disk' = begun /\ run'[p] = At(p, "begun", begun)
           \/ disk' = disk /\ run'[p] = Idle
        /\ \A q \in Procs \ {p} : run'[q] = run[q]
    BY <1>0, <2>2, <2>3, IdleType, SaveCases
  <2>5. CASE disk' = begun /\ run'[p] = At(p, "begun", begun)
    <3>1. disk' # NoRecord /\ CountOnDisk' = job.attempts + 1
      BY <2>1, <2>5, NoRecordAssumption DEF CountOnDisk
    <3>2. run[p].pc = "loop" /\ run'[p].pc = "begun"
      BY <1>2, <2>3, <2>5 DEF BeginAttempt
    <3>3. spent' < CountOnDisk'
      <4>1. CASE run[p].force /\ job.attempts = 0
        BY <1>2, <3>1, <3>2, <4>1 DEF BeginAttempt
      <4>2. CASE ~(run[p].force /\ job.attempts = 0)
        <5>1. spent' = spent
          BY <1>2, <4>2 DEF BeginAttempt
        <5>2. job.attempts = CountOnDisk
          BY <1>0, <3>2, <4>2 DEF RunCounts
        <5>3. QED
          BY <1>0, <3>1, <5>1, <5>2
      <4>3. QED
        BY <4>1, <4>2
    <3>4. RunCounts(run[p])'
      BY <2>1, <2>3, <2>5, <3>1, <3>3 DEF RunCounts, Working
    <3>5. spent' <= CountOnDisk'
      BY <1>0, <3>1, <3>3, MaxAttemptsPositive DEF TypeOK
    <3>6. QED
      BY <1>2, <2>4, <3>2, <3>4, <3>5, RunMoves DEF BeginAttempt
  <2>6. CASE disk' = disk /\ run'[p] = Idle
    <3>1. spent' = spent /\ CountOnDisk' = CountOnDisk
      BY <1>2, <2>6, IdleFacts DEF BeginAttempt, CountOnDisk
    <3>2. RunCounts(run[p])'
      BY <2>6, IdleFacts DEF RunCounts, Working
    <3>3. QED
      BY <1>0, <1>2, <2>4, <3>1, <3>2, RunMoves DEF BeginAttempt
  <2>7. QED
    BY <2>4, <2>5, <2>6
<1>3. CASE StartTranslating(p)
  <2> DEFINE started == [job EXCEPT !.stage = "translating"]
  <2>1. started \in JobRecord /\ started.attempts = job.attempts
    BY <1>0 DEF JobRecord, JobStage
  <2>2. Save(p, started, At(p, "translating", started), Raising(p, started, NoException))
    BY <1>3 DEF StartTranslating
  <2> HIDE DEF started
  <2>3. /\ At(p, "translating", started) \in Run
        /\ At(p, "translating", started).pc = "translating"
        /\ At(p, "translating", started).job = started
        /\ Raising(p, started, NoException) \in Run
        /\ Raising(p, started, NoException).pc = "raising"
        /\ Raising(p, started, NoException).job = started
    BY <1>0, <2>1, AtType, RaisingType, NoExceptionType DEF Location, Working
  <2>4. /\ \/ disk' = started /\ run'[p] = At(p, "translating", started)
           \/ disk' = disk /\ run'[p] = Raising(p, started, NoException)
        /\ \A q \in Procs \ {p} : run'[q] = run[q]
    BY <1>0, <2>2, <2>3, SaveCases
  <2>5. /\ run[p].pc = "begun" /\ disk # NoRecord /\ job.attempts = CountOnDisk
        /\ spent < CountOnDisk /\ CountOnDisk <= MaxAttempts
    BY <1>0, <1>3, MaxAttemptsPositive
    DEF StartTranslating, RunCounts, Working, CountOnDisk, TypeOK, JobRecord
  <2>6. disk' # NoRecord /\ CountOnDisk' = CountOnDisk
    BY <2>1, <2>4, <2>5, NoRecordAssumption DEF CountOnDisk
  <2>7. spent' = spent \/ spent' = spent + 1
    BY <1>0, <1>3, <2>5, MaxAttemptsPositive DEF StartTranslating, Capped
  <2>8. spent' <= CountOnDisk'
    BY <1>0, <2>5, <2>6, <2>7
  <2>9. RunCounts(run[p])'
    BY <2>1, <2>3, <2>4, <2>5, <2>6 DEF RunCounts, Working
  <2>10. QED
    BY <1>3, <2>4, <2>5, <2>8, <2>9, RunMoves DEF StartTranslating
<1>4. QED
  BY <1>1, <1>2, <1>3

\* Every other step of a run keeps the count.
LEMMA EndStep ==
    ASSUME BudgetInv, TypeOK', NEW p \in Procs,
           \/ Translated(p) \/ \E x \in Raised : TranslateRaises(p, x)
           \/ ValidateResult(p) \/ CompleteJob(p) \/ CancelJob(p) \/ FailAttempt(p)
           \/ ScheduleRetry(p) \/ GiveUp(p) \/ BackoffOver(p)
    PROVE  BudgetInv'
<1> DEFINE job == run[p].job
<1>0. TypeOK /\ job \in JobRecord /\ run[p] \in Run
  BY RunFields DEF BudgetInv
<1>1. ASSUME NEW record \in JobRecord, NEW saved \in Run, NEW raised \in Run,
             Save(p, record, saved, raised), record.attempts = job.attempts,
             run[p].pc \in Working, UNCHANGED <<life, request, held, spent>>,
             {saved.pc, raised.pc} \cap {"begun", "check", "dropping"} = {},
             saved.pc = "idle" \/ saved.job = record,
             raised.pc = "idle" \/ raised.job = record
      PROVE  BudgetInv'
  <2>1. /\ \/ disk' = record /\ run'[p] = saved
           \/ disk' = disk /\ run'[p] = raised
        /\ \A q \in Procs \ {p} : run'[q] = run[q]
    BY <1>0, <1>1, SaveCases
  <2>2. QED
    BY <1>1, <2>1, CountKept
<1>2. ASSUME NEW state \in Run, Becomes(p, state),
             run[p].pc \in Working, UNCHANGED <<disk, life, request, held, spent>>,
             state.pc \notin {"begun", "check", "dropping"}, state.job.attempts = job.attempts
      PROVE  BudgetInv'
  <2>1. run'[p] = state /\ \A q \in Procs \ {p} : run'[q] = run[q]
    BY <1>0, <1>2, BecomesType
  <2>2. QED
    BY <1>2, <2>1, CountKept
<1>3. ASSUME NEW record \in JobRecord, record.attempts = job.attempts,
             NEW location \in Location
      PROVE  /\ At(p, location, record) \in Run
             /\ At(p, location, record).pc = location
             /\ At(p, location, record).job = record
             /\ \A x \in Exception :
                  /\ Raising(p, record, x) \in Run
                  /\ Raising(p, record, x).pc = "raising"
                  /\ Raising(p, record, x).job = record
  BY <1>0, <1>3, AtType, RaisingType
<1>4. Idle \in Run /\ Idle.pc = "idle"
  BY IdleType, IdleFacts
<1>5. Working \subseteq Location
  BY DEF Location
<1>6. CASE Translated(p)
  <2>1. PICK listed \in {"empty", "unhashed"} :
          Becomes(p, At(p, "produced", [job EXCEPT !.artifacts = listed]))
    BY <1>6 DEF Translated
  <2> DEFINE listing == [job EXCEPT !.artifacts = listed]
  <2>2. listing \in JobRecord /\ listing.attempts = job.attempts
    BY <1>0 DEF JobRecord, Artifacts
  <2>3. Becomes(p, At(p, "produced", listing))
    BY <2>1
  <2> HIDE DEF listing
  <2>4. /\ At(p, "produced", listing) \in Run
        /\ At(p, "produced", listing).pc = "produced"
        /\ At(p, "produced", listing).job = listing
    BY <1>3, <1>5, <2>2 DEF Working
  <2>5. QED
    BY <1>2, <1>6, <2>2, <2>3, <2>4 DEF Translated, Working
<1>7. ASSUME NEW x \in Raised, TranslateRaises(p, x) PROVE BudgetInv'
  <2>1. /\ Raising(p, job, x) \in Run /\ Raising(p, job, x).pc = "raising"
        /\ Raising(p, job, x).job = job
    BY <1>0, RaisingType, RaisedType
  <2>2. QED
    BY <1>2, <1>7, <2>1 DEF TranslateRaises, Working
<1>8. CASE ValidateResult(p)
  <2> DEFINE hashed == [job EXCEPT !.artifacts = Hashed(@)]
  <2>1. hashed \in JobRecord /\ hashed.attempts = job.attempts
    BY <1>0, HashedType DEF JobRecord
  <2>2. Becomes(p, At(p, "validated", hashed)) \/ Becomes(p, Raising(p, hashed, NoException))
    BY <1>8 DEF ValidateResult
  <2> HIDE DEF hashed
  <2>3. /\ At(p, "validated", hashed) \in Run /\ At(p, "validated", hashed).pc = "validated"
        /\ At(p, "validated", hashed).job = hashed
        /\ Raising(p, hashed, NoException) \in Run
        /\ Raising(p, hashed, NoException).pc = "raising"
        /\ Raising(p, hashed, NoException).job = hashed
    BY <1>3, <1>5, <2>1, NoExceptionType DEF Working
  <2>4. QED
    BY <1>2, <1>8, <2>1, <2>2, <2>3 DEF ValidateResult, Working
<1>9. CASE CompleteJob(p)
  <2> DEFINE completed == [job EXCEPT !.status = "completed", !.stage = "completed",
                                      !.qa_status = "passed", !.runner_pid = NoProc]
  <2>1. completed \in JobRecord /\ completed.attempts = job.attempts
    BY <1>0 DEF JobRecord, JobStatus, JobStage
  <2>2. Save(p, completed, Idle, Raising(p, completed, NoException))
    BY <1>9 DEF CompleteJob
  <2> HIDE DEF completed
  <2>3. /\ Raising(p, completed, NoException) \in Run
        /\ Raising(p, completed, NoException).pc = "raising"
        /\ Raising(p, completed, NoException).job = completed
    BY <1>3, <1>5, <2>1, NoExceptionType DEF Working
  <2>4. QED
    BY <1>1, <1>4, <1>9, <2>1, <2>2, <2>3 DEF CompleteJob, Working
<1>10. CASE CancelJob(p)
  <2> DEFINE cancelled == [job EXCEPT !.status = "cancelled", !.error_category = NoCategory,
                                      !.runner_pid = NoProc]
  <2>1. cancelled \in JobRecord /\ cancelled.attempts = job.attempts
    BY <1>0 DEF JobRecord, JobStatus
  <2>2. Save(p, cancelled, Idle, Idle)
    BY <1>10 DEF CancelJob
  <2> HIDE DEF cancelled
  <2>3. QED
    BY <1>1, <1>4, <1>10, <2>1, <2>2 DEF CancelJob, Working
<1>11. CASE FailAttempt(p)
  <2> DEFINE failed == [job EXCEPT !.status = "failed",
                          !.error_category = classify_exception(run[p].exc).category]
  <2>1. failed \in JobRecord /\ failed.attempts = job.attempts
    BY <1>0, RunFields, ClassifyType DEF JobRecord, JobStatus
  <2>2. Save(p, failed, At(p, "failed", failed), Idle)
    BY <1>11 DEF FailAttempt
  <2> HIDE DEF failed
  <2>3. /\ At(p, "failed", failed) \in Run /\ At(p, "failed", failed).pc = "failed"
        /\ At(p, "failed", failed).job = failed
    BY <1>3, <1>5, <2>1 DEF Working
  <2>4. QED
    BY <1>1, <1>4, <1>11, <2>1, <2>2, <2>3 DEF FailAttempt, Working
<1>12. CASE ScheduleRetry(p)
  <2> DEFINE pending == [job EXCEPT !.status = "retry_pending"]
  <2>1. pending \in JobRecord /\ pending.attempts = job.attempts
    BY <1>0 DEF JobRecord, JobStatus
  <2>2. Save(p, pending, At(p, "backoff", pending), Idle)
    BY <1>12 DEF ScheduleRetry
  <2> HIDE DEF pending
  <2>3. /\ At(p, "backoff", pending) \in Run /\ At(p, "backoff", pending).pc = "backoff"
        /\ At(p, "backoff", pending).job = pending
    BY <1>3, <1>5, <2>1 DEF Working
  <2>4. QED
    BY <1>1, <1>4, <1>12, <2>1, <2>2, <2>3 DEF ScheduleRetry, Working
<1>13. CASE GiveUp(p)
  <2> DEFINE given == [job EXCEPT !.runner_pid = NoProc]
  <2>1. given \in JobRecord /\ given.attempts = job.attempts
    BY <1>0 DEF JobRecord
  <2>2. Save(p, given, Idle, Idle)
    BY <1>13 DEF GiveUp
  <2> HIDE DEF given
  <2>3. QED
    BY <1>1, <1>4, <1>13, <2>1, <2>2 DEF GiveUp, Working
<1>14. CASE BackoffOver(p)
  <2> DEFINE state == [At(p, "loop", job) EXCEPT !.exc = NoException]
  <2>1. state \in Run /\ state.pc = "loop" /\ state.job = job
    BY <1>0, NoExceptionType DEF At, Run, Location
  <2>2. Becomes(p, state)
    BY <1>14 DEF BackoffOver
  <2> HIDE DEF state
  <2>3. QED
    BY <1>2, <1>14, <2>1, <2>2 DEF BackoffOver, Working
<1>15. QED
  BY <1>6, <1>7, <1>8, <1>9, <1>10, <1>11, <1>12, <1>13, <1>14

-----------------------------------------------------------------------------
\* Without requests nothing but the runs and the scan saves.
LEMMA NoRequestSaves ==
    ASSUME Requests = {}, BudgetInv, NEW p \in Procs
    PROVE  /\ ~ValidateOutput(p) /\ ~RunQa(p)
           /\ ~LoadForStart(p) /\ ~SaveForStart(p) /\ ~RefuseStart(p)
<1>1. request[p] \notin {"validate", "qa", "start"}
  BY DEF BudgetInv
<1>2. QED
  BY <1>1 DEF ValidateOutput, RunQa, LoadForStart, SaveForStart, RefuseStart

\* Every step of processes that take turns keeps the invariant.
LEMMA BudgetStep ==
    ASSUME ~Overlap, Requests = {}, BudgetInv, [Next]_vars
    PROVE  BudgetInv'
<1>1. TypeOK'
  BY TypeStep DEF BudgetInv
<1>2. CASE Tamper
  BY <1>1, <1>2 DEF Tamper, BudgetInv, Alive, RunCounts, CountOnDisk, Loaded
<1>3. CASE UNCHANGED vars
  BY <1>1, <1>3 DEF vars, BudgetInv, Alive, RunCounts, CountOnDisk, Loaded
<1>4. ASSUME NEW p \in Procs, RunStep(p) PROVE BudgetInv'
  BY <1>1, <1>4, EnterStep, DropStep, CountStep, EndStep DEF RunStep, OwnStep, BackendStep
<1>5. ASSUME NEW p \in Procs, NEW kind \in Requests PROVE ~LoadForRequest(p, kind)
  OBVIOUS
<1>6. QED
  BY <1>1, <1>2, <1>3, <1>4, <1>5, NoRequestSaves, ProcessStep, EnterStep, DropStep
  DEF Next, RetryJob

(***************************************************************************)
(* Between two resets of the attempt count a job is translated at most     *)
(* max(max_retries, 1) times (the loop of run_one), when processes take    *)
(* turns and nobody writes the record back behind a run.                   *)
(***************************************************************************)
THEOREM BudgetHolds ==
    ASSUME ~Overlap, Requests = {}
    PROVE  Spec => []BudgetRespected
<1>1. BudgetInv /\ [Next]_vars => BudgetInv'
  BY BudgetStep
<1>2. BudgetInv => BudgetRespected
  BY MaxAttemptsPositive DEF BudgetInv, BudgetRespected, CountOnDisk, TypeOK, JobRecord
<1>3. QED
  BY BudgetInit, <1>1, <1>2, PTL DEF Spec

-----------------------------------------------------------------------------
(***************************************************************************)
(* What a step of a run does to the file and to its own object, told in    *)
(* the terms the invariants below are stated in.                           *)
(***************************************************************************)

\* The run of p moves from one place to another.
Moved(p, from, to) == run[p].pc = from /\ run'[p].pc = to

\* A save put the run's object into the file, under this status.
Wrote(p, status) ==
    /\ disk' \in JobRecord /\ disk'.status = status
    /\ disk'.attempts = run[p].job.attempts
    /\ disk'.runner_pid \in {run[p].job.runner_pid, NoProc}

\* What a run keeps of its object while it lasts.
Kept(p) ==
    run'[p].pc # "idle" =>
        /\ run'[p].force = run[p].force
        /\ run'[p].job.attempts = run[p].job.attempts
        /\ run'[p].job.runner_pid \in {run[p].job.runner_pid, NoProc}

\* The steps of an attempt that save nothing, ...
Silent(p) ==
    \/ Moved(p, "translating", "produced") \/ Moved(p, "translating", "raising")
    \/ Moved(p, "produced", "validated") \/ Moved(p, "produced", "raising")
    \/ Moved(p, "backoff", "loop")

\* ... those that save, ...
Saving(p) ==
    \/ Moved(p, "begun", "translating") /\ Wrote(p, "running")
    \/ Moved(p, "validated", "idle") /\ Wrote(p, "completed")
    \/ Moved(p, "raising", "idle") /\ Wrote(p, "cancelled")
    \/ Moved(p, "raising", "failed") /\ Wrote(p, "failed")
    \/ Moved(p, "failed", "backoff") /\ Wrote(p, "retry_pending")
    \/ Moved(p, "failed", "idle") /\ Wrote(p, "failed")

\* ... and those whose save raises.
Faulty(p) == DiskFaults /\ run'[p].pc \in {"raising", "idle"}

\* A save of record from the object of p, judged by the places it can lead to.
LEMMA SaveEffect ==
    ASSUME TypeOK, NEW p \in Procs, run[p].pc \in Working,
           NEW record \in JobRecord, NEW saved \in Run, NEW raised \in Run,
           Save(p, record, saved, raised),
           record.attempts = run[p].job.attempts,
           record.runner_pid \in {run[p].job.runner_pid, NoProc},
           saved.pc = "idle" \/ (saved.job = record /\ saved.force = run[p].force),
           raised.pc = "idle" \/ (raised.job = record /\ raised.force = run[p].force)
    PROVE  /\ Kept(p)
           /\ \/ run'[p].pc = saved.pc /\ Wrote(p, record.status)
              \/ run'[p].pc = raised.pc /\ disk' = disk /\ DiskFaults
<1>1. /\ \/ disk' = record /\ run'[p] = saved
         \/ disk' = disk /\ run'[p] = raised
  BY SaveCases
<1>2. \/ disk' = record /\ run'[p] = saved
      \/ disk' = disk /\ run'[p] = raised /\ DiskFaults
  BY DEF Save, Becomes, TypeOK
<1>3. QED
  BY <1>2 DEF Kept, Wrote

\* Everything a run does once it has announced RUNNING.
LEMMA WorkEffect ==
    ASSUME TypeOK, NEW p \in Procs, RunConsistent(run[p]), run[p].pc \in Working, RunStep(p)
    PROVE  /\ Kept(p)
           /\ (Silent(p) /\ disk' = disk) \/ Saving(p) \/ (Faulty(p) /\ disk' = disk)
<1> DEFINE job == run[p].job
           Goal == /\ Kept(p)
                   /\ (Silent(p) /\ disk' = disk) \/ Saving(p) \/ (Faulty(p) /\ disk' = disk)
<1>0. job \in JobRecord /\ run[p] \in Run /\ run[p].exc \in Exception
  BY RunFields
<1>1. ASSUME NEW location \in Working, NEW record \in JobRecord
      PROVE  /\ At(p, location, record) \in Run
             /\ At(p, location, record).pc = location
             /\ At(p, location, record).job = record
             /\ At(p, location, record).force = run[p].force
             /\ \A x \in Exception :
                  /\ Raising(p, record, x) \in Run
                  /\ Raising(p, record, x).pc = "raising"
                  /\ Raising(p, record, x).job = record
                  /\ Raising(p, record, x).force = run[p].force
  <2>1. location \in Location /\ "raising" \in Location
    BY DEF Location, Working
  <2>2. QED
    BY <1>0, <2>1, AtType, RaisingType DEF At, Raising, Run
<1>2. Idle \in Run /\ Idle.pc = "idle"
  BY IdleType, IdleFacts
<1>3. NoException \in Exception /\ Raised \subseteq Exception
  BY NoExceptionType, RaisedType
<1>4. CASE StartTranslating(p)
  <2> DEFINE started == [job EXCEPT !.stage = "translating"]
  <2>1. /\ started \in JobRecord /\ started.attempts = job.attempts
        /\ started.runner_pid = job.runner_pid /\ started.status = "running"
    BY <1>0, <1>4 DEF JobRecord, JobStage, StartTranslating, RunConsistent
  <2>2. Save(p, started, At(p, "translating", started), Raising(p, started, NoException))
    BY <1>4 DEF StartTranslating
  <2> HIDE DEF started
  <2>3. /\ Kept(p)
        /\ \/ run'[p].pc = "translating" /\ Wrote(p, "running")
           \/ run'[p].pc = "raising" /\ disk' = disk /\ DiskFaults
    BY <1>1, <1>3, <2>1, <2>2, SaveEffect DEF Working
  <2>4. run[p].pc = "begun"
    BY <1>4 DEF StartTranslating
  <2>5. QED
    BY <2>3, <2>4 DEF Saving, Faulty, Moved
<1>5. CASE Translated(p)
  <2>1. PICK listed \in {"empty", "unhashed"} :
          Becomes(p, At(p, "produced", [job EXCEPT !.artifacts = listed]))
    BY <1>5 DEF Translated
  <2> DEFINE listing == [job EXCEPT !.artifacts = listed]
  <2>2. /\ listing \in JobRecord /\ listing.attempts = job.attempts
        /\ listing.runner_pid = job.runner_pid
    BY <1>0 DEF JobRecord, Artifacts
  <2>3. run'[p] = At(p, "produced", listing)
    BY <2>1 DEF Becomes, TypeOK
  <2> HIDE DEF listing
  <2>4. QED
    BY <1>1, <1>5, <2>2, <2>3 DEF Translated, Silent, Moved, Kept, Working
<1>6. ASSUME NEW x \in Raised, TranslateRaises(p, x) PROVE Goal
  <2>1. run'[p] = Raising(p, job, x)
    BY <1>6 DEF TranslateRaises, Becomes, TypeOK
  <2>2. QED
    BY <1>0, <1>1, <1>3, <1>6, <2>1 DEF TranslateRaises, Silent, Moved, Kept, Working
<1>7. CASE ValidateResult(p)
  <2> DEFINE hashed == [job EXCEPT !.artifacts = Hashed(@)]
  <2>1. /\ hashed \in JobRecord /\ hashed.attempts = job.attempts
        /\ hashed.runner_pid = job.runner_pid
    BY <1>0, HashedType DEF JobRecord
  <2>2. run'[p] = At(p, "validated", hashed) \/ run'[p] = Raising(p, hashed, NoException)
    BY <1>7 DEF ValidateResult, Becomes, TypeOK
  <2> HIDE DEF hashed
  <2>3. QED
    BY <1>1, <1>3, <1>7, <2>1, <2>2 DEF ValidateResult, Silent, Moved, Kept, Working
<1>8. CASE CompleteJob(p)
  <2> DEFINE completed == [job EXCEPT !.status = "completed", !.stage = "completed",
                                      !.qa_status = "passed", !.runner_pid = NoProc]
  <2>1. /\ completed \in JobRecord /\ completed.attempts = job.attempts
        /\ completed.runner_pid = NoProc /\ completed.status = "completed"
    BY <1>0 DEF JobRecord, JobStatus, JobStage
  <2>2. Save(p, completed, Idle, Raising(p, completed, NoException))
    BY <1>8 DEF CompleteJob
  <2> HIDE DEF completed
  <2>3. /\ Kept(p)
        /\ \/ run'[p].pc = "idle" /\ Wrote(p, "completed")
           \/ run'[p].pc = "raising" /\ disk' = disk /\ DiskFaults
    BY <1>1, <1>2, <1>3, <2>1, <2>2, SaveEffect DEF Working
  <2>4. run[p].pc = "validated"
    BY <1>8 DEF CompleteJob
  <2>5. QED
    BY <2>3, <2>4 DEF Saving, Faulty, Moved
<1>9. CASE CancelJob(p)
  <2> DEFINE cancelled == [job EXCEPT !.status = "cancelled", !.error_category = NoCategory,
                                      !.runner_pid = NoProc]
  <2>1. /\ cancelled \in JobRecord /\ cancelled.attempts = job.attempts
        /\ cancelled.runner_pid = NoProc /\ cancelled.status = "cancelled"
    BY <1>0 DEF JobRecord, JobStatus
  <2>2. Save(p, cancelled, Idle, Idle)
    BY <1>9 DEF CancelJob
  <2> HIDE DEF cancelled
  <2>3. /\ Kept(p)
        /\ \/ run'[p].pc = "idle" /\ Wrote(p, "cancelled")
           \/ run'[p].pc = "idle" /\ disk' = disk /\ DiskFaults
    BY <1>2, <2>1, <2>2, SaveEffect
  <2>4. run[p].pc = "raising"
    BY <1>9 DEF CancelJob
  <2>5. QED
    BY <2>3, <2>4 DEF Saving, Faulty, Moved
<1>10. CASE FailAttempt(p)
  <2> DEFINE failed == [job EXCEPT !.status = "failed",
                          !.error_category = classify_exception(run[p].exc).category]
  <2>1. /\ failed \in JobRecord /\ failed.attempts = job.attempts
        /\ failed.runner_pid = job.runner_pid /\ failed.status = "failed"
    BY <1>0, ClassifyType DEF JobRecord, JobStatus
  <2>2. Save(p, failed, At(p, "failed", failed), Idle)
    BY <1>10 DEF FailAttempt
  <2> HIDE DEF failed
  <2>3. /\ Kept(p)
        /\ \/ run'[p].pc = "failed" /\ Wrote(p, "failed")
           \/ run'[p].pc = "idle" /\ disk' = disk /\ DiskFaults
    BY <1>1, <1>2, <2>1, <2>2, SaveEffect DEF Working
  <2>4. run[p].pc = "raising"
    BY <1>10 DEF FailAttempt
  <2>5. QED
    BY <2>3, <2>4 DEF Saving, Faulty, Moved
<1>11. CASE ScheduleRetry(p)
  <2> DEFINE pending == [job EXCEPT !.status = "retry_pending"]
  <2>1. /\ pending \in JobRecord /\ pending.attempts = job.attempts
        /\ pending.runner_pid = job.runner_pid /\ pending.status = "retry_pending"
    BY <1>0 DEF JobRecord, JobStatus
  <2>2. Save(p, pending, At(p, "backoff", pending), Idle)
    BY <1>11 DEF ScheduleRetry
  <2> HIDE DEF pending
  <2>3. /\ Kept(p)
        /\ \/ run'[p].pc = "backoff" /\ Wrote(p, "retry_pending")
           \/ run'[p].pc = "idle" /\ disk' = disk /\ DiskFaults
    BY <1>1, <1>2, <2>1, <2>2, SaveEffect DEF Working
  <2>4. run[p].pc = "failed"
    BY <1>11 DEF ScheduleRetry
  <2>5. QED
    BY <2>3, <2>4 DEF Saving, Faulty, Moved
<1>12. CASE GiveUp(p)
  <2> DEFINE given == [job EXCEPT !.runner_pid = NoProc]
  <2>1. /\ given \in JobRecord /\ given.attempts = job.attempts
        /\ given.runner_pid = NoProc /\ given.status = "failed"
    BY <1>0, <1>12 DEF JobRecord, GiveUp, RunConsistent
  <2>2. Save(p, given, Idle, Idle)
    BY <1>12 DEF GiveUp
  <2> HIDE DEF given
  <2>3. /\ Kept(p)
        /\ \/ run'[p].pc = "idle" /\ Wrote(p, "failed")
           \/ run'[p].pc = "idle" /\ disk' = disk /\ DiskFaults
    BY <1>2, <2>1, <2>2, SaveEffect
  <2>4. run[p].pc = "failed"
    BY <1>12 DEF GiveUp
  <2>5. QED
    BY <2>3, <2>4 DEF Saving, Faulty, Moved
<1>13. CASE BackoffOver(p)
  <2>1. /\ run'[p].pc = "loop" /\ run'[p].job = job /\ run'[p].force = run[p].force
        /\ disk' = disk
    BY <1>0, <1>13 DEF BackoffOver, Becomes, At, Run, TypeOK
  <2>2. QED
    BY <1>13, <2>1 DEF BackoffOver, Silent, Moved, Kept
<1>14. QED
  BY <1>4, <1>5, <1>6, <1>7, <1>8, <1>9, <1>10, <1>11, <1>12, <1>13
  DEF RunStep, OwnStep, BackendStep, Working, LoadJob, CannotRead, SkipCompleted, RejectCompleted, BeginAttempt,
      OutOfAttempts, SaveCancelled

\* Everything a run does before: it loads the record, ...
LEMMA LoadEffect ==
    ASSUME TypeOK, NEW p \in Procs, LoadJob(p)
    PROVE  /\ run[p].pc = "load" /\ disk' = disk
           /\ run'[p].force = run[p].force
           /\ \/ /\ run'[p].pc = "check" /\ disk # NoRecord /\ run'[p].job = disk
                 /\ StatusOnDisk = "completed"
              \/ /\ run'[p].pc = "loop" /\ ~run[p].force
                 /\ StatusOnDisk # "completed" /\ run'[p].job.attempts = CountOnDisk
              \/ /\ run'[p].pc = "loop" /\ run[p].force /\ run'[p].job.attempts = 0
<1> DEFINE loaded == Loaded
<1>1. /\ loaded \in JobRecord /\ loaded.attempts = CountOnDisk /\ loaded.status = StatusOnDisk
      /\ disk = NoRecord => loaded.status = "discovered"
      /\ disk # NoRecord => loaded = disk
  BY LoadedType DEF Loaded, CountOnDisk, StatusOnDisk, FreshJob
<1>2. /\ run[p].pc = "load" /\ disk' = disk
      /\ run' = [run EXCEPT ![p] = At(p, IF Settled(p, loaded) THEN "check" ELSE "loop",
                                      CountedJob(p, loaded))]
  BY DEF LoadJob, Becomes
<1> HIDE DEF loaded
<1>3. /\ run'[p].pc = IF Settled(p, loaded) THEN "check" ELSE "loop"
      /\ run'[p].job = CountedJob(p, loaded) /\ run'[p].force = run[p].force
  BY <1>2, RunFields DEF At, Run, TypeOK
<1>4. CASE run[p].force
  <2>1. CountedJob(p, loaded).attempts = 0
    BY <1>1, <1>4 DEF CountedJob, JobRecord
  <2>2. QED
    BY <1>2, <1>3, <1>4, <2>1 DEF Settled
<1>5. CASE ~run[p].force
  <2>1. CountedJob(p, loaded) = loaded
    BY <1>5 DEF CountedJob
  <2>2. QED
    BY <1>1, <1>2, <1>3, <1>5, <2>1 DEF Settled
<1>6. QED
  BY <1>4, <1>5

\* ... leaves without having written anything, ...
LEMMA LeaveEffect ==
    ASSUME TypeOK, NEW p \in Procs, CannotRead(p) \/ SkipCompleted(p) \/ OutOfAttempts(p)
    PROVE  /\ run'[p].pc = "idle" /\ disk' = disk
           /\ \/ run[p].pc \in {"load", "check"}
              \/ run[p].pc = "loop" /\ run[p].job.attempts >= MaxAttempts
<1>1. run[p].job.attempts \in Int /\ MaxAttempts \in Int
  BY RunFields, MaxAttemptsPositive DEF JobRecord
<1>2. run'[p] = Idle /\ disk' = disk
  BY DEF CannotRead, SkipCompleted, OutOfAttempts, Becomes, TypeOK
<1>3. \/ run[p].pc \in {"load", "check"}
      \/ run[p].pc = "loop" /\ ~AttemptLeft(run[p].job)
  BY DEF CannotRead, SkipCompleted, OutOfAttempts
<1>4. QED
  BY <1>1, <1>2, <1>3, IdleFacts DEF AttemptLeft

\* ... starts a completed job over, ...
LEMMA RejectEffect ==
    ASSUME TypeOK, NEW p \in Procs, RejectCompleted(p)
    PROVE  /\ run[p].pc = "check" /\ ~ValidArtifacts(run[p].job.artifacts)
           /\ \/ /\ run'[p].pc = "loop" /\ run'[p].force = run[p].force
                 /\ run'[p].job.attempts = 0
                 /\ disk' \in JobRecord
                 /\ disk'.status = "discovered" /\ disk'.attempts = 0
              \/ DiskFaults /\ run'[p].pc = "idle" /\ disk' = disk
<1> DEFINE reset == [run[p].job EXCEPT !.status = "discovered", !.stage = "discovered",
                                       !.attempts = 0, !.qa_status = "failed"]
<1>1. 0 \in 0..MaxAttempts /\ {"discovered"} \subseteq JobStatus \cap JobStage
  BY MaxAttemptsPositive DEF JobStatus, JobStage
<1>2. reset \in JobRecord /\ reset.status = "discovered" /\ reset.attempts = 0
  BY <1>1, RunFields DEF JobRecord
<1>3. Save(p, reset, At(p, "loop", reset), Idle)
  BY DEF RejectCompleted
<1> HIDE DEF reset
<1>4. \/ disk' = reset /\ run'[p] = At(p, "loop", reset)
      \/ DiskFaults /\ disk' = disk /\ run'[p] = Idle
  BY <1>3 DEF Save, Becomes, TypeOK
<1>5. /\ At(p, "loop", reset).pc = "loop" /\ At(p, "loop", reset).job = reset
      /\ At(p, "loop", reset).force = run[p].force
  BY RunFields DEF At, Run
<1>6. run[p].pc = "check" /\ ~ValidArtifacts(run[p].job.artifacts)
  BY DEF RejectCompleted
<1>7. QED
  BY <1>2, <1>4, <1>5, <1>6, IdleFacts

\* ... and announces an attempt.
LEMMA BeginEffect ==
    ASSUME TypeOK, NEW p \in Procs, BeginAttempt(p)
    PROVE  /\ run[p].pc = "loop" /\ run[p].job.attempts < MaxAttempts
           /\ \/ /\ run'[p].pc = "begun" /\ run'[p].force = run[p].force
                 /\ run'[p].job = disk' /\ disk' \in JobRecord
                 /\ disk'.status = "running" /\ disk'.runner_pid = p
                 /\ disk'.attempts = run[p].job.attempts + 1
              \/ DiskFaults /\ run'[p].pc = "idle" /\ disk' = disk
<1> DEFINE begun == Attempt(p, run[p].job)
<1>1. run[p].pc = "loop" /\ run[p].job.attempts < MaxAttempts
  BY DEF BeginAttempt, AttemptLeft
<1>2. run[p].job.attempts + 1 \in 0..MaxAttempts
  BY <1>1, RunFields, MaxAttemptsPositive DEF JobRecord
<1>3. /\ begun \in JobRecord /\ begun.status = "running" /\ begun.runner_pid = p
      /\ begun.attempts = run[p].job.attempts + 1
  BY <1>2, RunFields DEF Attempt, JobRecord, JobStatus, JobStage
<1>4. Save(p, begun, At(p, "begun", begun), Idle)
  BY DEF BeginAttempt
<1> HIDE DEF begun
<1>5. \/ disk' = begun /\ run'[p] = At(p, "begun", begun)
      \/ DiskFaults /\ disk' = disk /\ run'[p] = Idle
  BY <1>4 DEF Save, Becomes, TypeOK
<1>6. /\ At(p, "begun", begun).pc = "begun" /\ At(p, "begun", begun).job = begun
      /\ At(p, "begun", begun).force = run[p].force
  BY RunFields DEF At, Run
<1>7. QED
  BY <1>1, <1>3, <1>5, <1>6, IdleFacts

\* A step of a run concerns that run, and the files.
LEMMA RunFrame ==
    ASSUME TypeOK, NEW p \in Procs, RunStep(p)
    PROVE  /\ run[p].pc # "idle" /\ UNCHANGED <<life, request, held>>
           /\ \A q \in Procs \ {p} : run'[q] = run[q]
<1>1. run[p].pc # "idle"
  BY DEF RunStep, OwnStep, BackendStep, SaveCancelled, LoadJob, CannotRead, SkipCompleted, RejectCompleted, BeginAttempt,
         OutOfAttempts, StartTranslating, Translated, TranslateRaises, ValidateResult,
         CompleteJob, CancelJob, FailAttempt, ScheduleRetry, GiveUp, BackoffOver
<1>2. UNCHANGED <<life, request, held>>
  BY DEF RunStep, OwnStep, BackendStep, SaveCancelled, LoadJob, CannotRead, SkipCompleted, RejectCompleted, BeginAttempt,
         OutOfAttempts, StartTranslating, Translated, TranslateRaises, ValidateResult,
         CompleteJob, CancelJob, FailAttempt, ScheduleRetry, GiveUp, BackoffOver
<1>3. \E state : Becomes(p, state)
  BY DEF RunStep, OwnStep, BackendStep, SaveCancelled, LoadJob, CannotRead, SkipCompleted, RejectCompleted, BeginAttempt, Save,
         OutOfAttempts, StartTranslating, Translated, TranslateRaises, ValidateResult,
         CompleteJob, CancelJob, FailAttempt, ScheduleRetry, GiveUp, BackoffOver
<1>4. QED
  BY <1>1, <1>2, <1>3 DEF Becomes, TypeOK

-----------------------------------------------------------------------------
(***************************************************************************)
(* ServingOwnsActive and CompletionDurable, from OwnershipInv.             *)
(***************************************************************************)

\* The invariant of JobRunnerProofs, in the words of JobRunner.
LEMMA ConsistencyStep == ConsistencyInv /\ [Next]_vars => ConsistencyInv'
  BY TypeStep, AgreedStep DEF ConsistencyInv, Agreed

\* A record that says active names a process.
LEMMA ActiveHasRunner ==
    ASSUME ConsistencyInv, disk # NoRecord, disk.status \in Active
    PROVE  disk.runner_pid # NoProc
<1>1. disk \in JobRecord /\ Consistent(disk) /\ disk.status # "cancelled"
  BY DEF ConsistencyInv, RecordConsistent, TypeOK, Active
<1>2. FieldsAgree(disk)
  BY <1>1, UnmarkedAgrees
<1>3. QED
  BY <1>2 DEF FieldsAgree

\* The same of the next state.
LEMMA ActiveHasRunnerNext ==
    ASSUME ConsistencyInv', disk' # NoRecord, disk'.status \in Active
    PROVE  disk'.runner_pid # NoProc
<1>1. disk' \in JobRecord /\ Consistent(disk') /\ disk'.status # "cancelled"
  BY DEF ConsistencyInv, RecordConsistent, TypeOK, Active
<1>2. FieldsAgree(disk')
  BY <1>1, UnmarkedAgrees
<1>3. QED
  BY <1>2 DEF FieldsAgree

\* A record that was started over belongs to nobody.
LEMMA DiscoveredHasNoRunner ==
    ASSUME ConsistencyInv', disk' # NoRecord, disk'.status = "discovered"
    PROVE  disk'.runner_pid = NoProc
<1>1. disk' \in JobRecord /\ Consistent(disk')
  BY DEF ConsistencyInv, RecordConsistent, TypeOK
<1>2. FieldsAgree(disk')
  BY <1>1, UnmarkedAgrees
<1>3. QED
  BY <1>2 DEF FieldsAgree

\* The run of p moved, and it owns what it left in the file.
LEMMA OwnsMoves ==
    ASSUME OwnershipInv, BudgetInv', ConsistencyInv', NEW p \in Procs,
           run[p].pc # "idle", UNCHANGED life,
           \A q \in Procs \ {p} : run'[q] = run[q],
           OwnsRecord(p)',
           \/ disk' = disk \/ disk'.runner_pid \in {p, NoProc}
           \/ disk'.status \notin Active
    PROVE  OwnershipInv'
<1>1. life[p] = "up" /\ Alive(p)
  BY DEF OwnershipInv, BudgetInv, Alive
<1>2. \A q \in Procs \ {p} : run'[q].pc = "idle" /\ life'[q] # "up"
  BY <1>1, Solo DEF OwnershipInv, Alive
<1>3. \A q \in Procs : OwnsRecord(q)'
  BY <1>2 DEF OwnsRecord, Working
<1>4. disk' # NoRecord /\ disk'.status \in Active => disk'.runner_pid # NoProc
  BY ActiveHasRunnerNext
<1>5. ServingOwnsActive'
  BY <1>1, <1>2, <1>4 DEF OwnershipInv, ServingOwnsActive
<1>6. QED
  BY <1>3, <1>5 DEF OwnershipInv

\* What the file says follows what was written.
LEMMA WroteStatus ==
    ASSUME NEW p \in Procs, NEW status, Wrote(p, status)
    PROVE  /\ disk' # NoRecord /\ StatusOnDisk' = status
           /\ CountOnDisk' = run[p].job.attempts
  BY NoRecordAssumption DEF Wrote, StatusOnDisk, CountOnDisk

\* A step of a run.
LEMMA OwnsRunStep ==
    ASSUME OwnershipInv, BudgetInv', ConsistencyInv', NEW p \in Procs, RunStep(p)
    PROVE  OwnershipInv'
<1>1. /\ TypeOK /\ RunConsistent(run[p]) /\ OwnsRecord(p) /\ RunCounts(run[p])
  BY DEF OwnershipInv, ConsistencyInv, BudgetInv
<1>2. /\ run[p].pc # "idle" /\ UNCHANGED life
      /\ \A q \in Procs \ {p} : run'[q] = run[q]
  BY <1>1, RunFrame
<1>3. CASE LoadJob(p)
  <2>1. disk' = disk /\ StatusOnDisk' = StatusOnDisk
    BY <1>1, <1>3, LoadEffect DEF StatusOnDisk
  <2>2. OwnsRecord(p)'
    BY <1>1, <1>3, <2>1, LoadEffect DEF OwnsRecord, Working
  <2>3. QED
    BY <1>2, <2>1, <2>2, OwnsMoves
<1>4. CASE CannotRead(p) \/ SkipCompleted(p) \/ OutOfAttempts(p)
  <2>1. disk' = disk /\ run'[p].pc = "idle"
    BY <1>1, <1>4, LeaveEffect
  <2>2. OwnsRecord(p)'
    BY <2>1 DEF OwnsRecord, Working
  <2>3. QED
    BY <1>2, <2>1, <2>2, OwnsMoves
<1>5. CASE RejectCompleted(p)
  <2>1. \/ /\ run'[p].pc = "loop" /\ disk' \in JobRecord /\ disk'.status = "discovered"
        \/ run'[p].pc = "idle" /\ disk' = disk
    BY <1>1, <1>5, RejectEffect
  <2>2. OwnsRecord(p)'
    BY <2>1, NoRecordAssumption DEF OwnsRecord, Working, StatusOnDisk
  <2>3. disk' = disk \/ disk'.runner_pid = NoProc
    BY <2>1, NoRecordAssumption, DiscoveredHasNoRunner
  <2>4. QED
    BY <1>2, <2>2, <2>3, OwnsMoves
<1>6. CASE BeginAttempt(p)
  <2>1. \/ /\ run'[p].pc = "begun" /\ disk' \in JobRecord /\ run'[p].job = disk'
           /\ disk'.status = "running" /\ disk'.runner_pid = p
        \/ run'[p].pc = "idle" /\ disk' = disk
    BY <1>1, <1>6, BeginEffect
  <2>2. OwnsRecord(p)'
    BY <2>1, NoRecordAssumption DEF OwnsRecord, Working, StatusOnDisk
  <2>3. QED
    BY <1>2, <2>1, <2>2, OwnsMoves
<1>7. CASE run[p].pc \in Working
  <2>1. /\ Kept(p)
        /\ (Silent(p) /\ disk' = disk) \/ Saving(p) \/ (Faulty(p) /\ disk' = disk)
    BY <1>1, <1>7, WorkEffect
  <2>2. StatusOnDisk # "completed" /\ run[p].job.runner_pid \in {p, NoProc}
    BY <1>1, <1>7 DEF OwnsRecord
  <2>3. CASE disk' = disk /\ (Silent(p) \/ Faulty(p))
    <3>1. StatusOnDisk' # "completed"
      BY <2>2, <2>3 DEF StatusOnDisk
    <3>2. run'[p].pc # "check"
      BY <2>3 DEF Silent, Faulty, Moved
    <3>3. OwnsRecord(p)'
      BY <2>1, <2>2, <3>1, <3>2 DEF OwnsRecord, Kept, Working
    <3>4. QED
      BY <1>2, <2>3, <3>3, OwnsMoves
  <2>4. CASE Saving(p)
    <3>1. disk'.runner_pid \in {p, NoProc} /\ run'[p].pc \notin {"check", "loop"}
      BY <2>2, <2>4 DEF Saving, Wrote, Moved
    <3>2. run'[p].pc \in Working => StatusOnDisk' # "completed"
      BY <2>4, WroteStatus DEF Saving, Moved, Working
    <3>3. OwnsRecord(p)'
      BY <2>1, <2>2, <3>1, <3>2 DEF OwnsRecord, Kept, Working
    <3>4. QED
      BY <1>2, <3>1, <3>3, OwnsMoves
  <2>5. QED
    BY <2>1, <2>3, <2>4
<1>8. run[p].pc \in Working
        \/ LoadJob(p) \/ CannotRead(p) \/ SkipCompleted(p) \/ OutOfAttempts(p)
        \/ RejectCompleted(p) \/ BeginAttempt(p) \/ SaveCancelled(p)
  BY DEF RunStep, OwnStep, BackendStep, Working, StartTranslating, Translated, TranslateRaises, ValidateResult,
         CompleteJob, CancelJob, FailAttempt, ScheduleRetry, GiveUp, BackoffOver
<1>9. CASE SaveCancelled(p)
  <2>1. /\ run'[p].pc = "idle"
        /\ disk' = disk \/ (disk' \in JobRecord /\ disk'.status = "cancelled")
    BY <1>1, <1>9, DropEffect, IdleFacts
  <2>2. OwnsRecord(p)'
    BY <2>1 DEF OwnsRecord, Working
  <2>3. disk' = disk \/ disk'.status \notin Active
    BY <2>1 DEF Active
  <2>4. QED
    BY <1>2, <2>2, <2>3, OwnsMoves
<1>10. QED
  BY <1>3, <1>4, <1>5, <1>6, <1>7, <1>8, <1>9

\* Starting, scanning and dying.
LEMMA OwnsProcessStep ==
    ASSUME OwnershipInv, BudgetInv', ConsistencyInv', NEW p \in Procs, ~Overlap,
           Boot(p) \/ Recover(p) \/ Crash(p)
    PROVE  OwnershipInv'
<1>1. /\ TypeOK /\ BudgetInv /\ ServingOwnsActive
      /\ \A q \in Procs : OwnsRecord(q)
  BY DEF OwnershipInv, BudgetInv
<1>2. CASE Boot(p)
  <2>1. /\ UNCHANGED <<disk, run>>
        /\ \A q \in Procs : ~Alive(q)
        /\ \A q \in Procs \ {p} : life'[q] = life[q]
        /\ life'[p] = "up" => disk = NoRecord
    BY <1>1, <1>2 DEF Boot, TypeOK
  <2>2. \A q \in Procs : OwnsRecord(q)'
    BY <1>1, <2>1 DEF OwnsRecord, StatusOnDisk
  <2>3. ServingOwnsActive'
    BY <2>1 DEF ServingOwnsActive, Alive
  <2>4. QED
    BY <2>2, <2>3 DEF OwnershipInv
<1>3. CASE Recover(p)
  <2>1. request[p] = "recover" /\ UNCHANGED run
    BY <1>3 DEF Recover
  <2>2. /\ life[p] = "recovering" /\ disk # NoRecord /\ held[p] = disk /\ Alive(p)
        /\ run[p].pc = "idle"
    BY <1>1, <2>1 DEF BudgetInv, Alive
  <2>3. \A q \in Procs \ {p} : ~Alive(q) /\ run[q].pc = "idle"
    BY <1>1, <2>2, Solo
  <2>4. \A q \in Procs : OwnsRecord(q)'
    BY <2>1, <2>2, <2>3 DEF OwnsRecord, Working
  <2>5. \A q \in Procs \ {p} : life'[q] # "up"
    BY <1>1, <1>3, <2>3 DEF Recover, Alive, TypeOK
  <2>6. life'[p] = "up" /\ disk'.status \in Active => disk'.runner_pid = p
    <3>1. CASE ~Interrupted(disk) /\ disk' = disk
      <4>1. disk.status \in Active => disk.runner_pid # NoProc /\ Alive(disk.runner_pid)
        BY <3>1 DEF Interrupted
      <4>2. disk \in JobRecord
        BY <1>1, <2>2 DEF TypeOK
      <4>3. disk.runner_pid \in Procs \cup {NoProc}
        BY <4>2 DEF JobRecord
      <4>4. QED
        BY <2>3, <3>1, <4>1, <4>3
    <3>2. CASE disk' = Terminalized(disk)
      <4>1. disk \in JobRecord
        BY <1>1, <2>2 DEF TypeOK
      <4>2. Terminalized(disk).status = "failed"
        BY <4>1 DEF Terminalized, JobRecord
      <4>3. QED
        BY <3>2, <4>2 DEF Active
    <3>3. CASE life' = [life EXCEPT ![p] = "dead"]
      BY <1>1, <3>3 DEF TypeOK
    <3>4. QED
      BY <1>3, <2>2, <3>1, <3>2, <3>3 DEF Recover
  <2>7. ServingOwnsActive'
    BY <2>5, <2>6 DEF ServingOwnsActive
  <2>8. QED
    BY <2>4, <2>7 DEF OwnershipInv
<1>4. CASE Crash(p)
  <2>1. /\ Alive(p) /\ life' = [life EXCEPT ![p] = "dead"]
        /\ run' = [run EXCEPT ![p] = Idle] /\ UNCHANGED disk
    BY <1>4 DEF Crash, Becomes
  <2>2. \A q \in Procs \ {p} : run[q].pc = "idle" /\ ~Alive(q)
    BY <1>1, <2>1, Solo
  <2>3. \A q \in Procs : run'[q].pc = "idle" /\ life'[q] # "up"
    BY <1>1, <2>1, <2>2, IdleFacts DEF TypeOK, Alive
  <2>4. QED
    BY <2>3 DEF OwnershipInv, ServingOwnsActive, OwnsRecord, Working
<1>5. QED
  BY <1>2, <1>3, <1>4

\* Every step of processes that take turns keeps OwnershipInv.
LEMMA OwnershipStep ==
    ASSUME ~Overlap, Requests = {}, OwnershipInv, [Next]_vars
    PROVE  OwnershipInv'
<1>1. BudgetInv' /\ ConsistencyInv'
  BY BudgetStep, ConsistencyStep DEF OwnershipInv
<1>2. TypeOK /\ BudgetInv /\ ServingOwnsActive /\ \A q \in Procs : OwnsRecord(q)
  BY DEF OwnershipInv, BudgetInv
<1>3. ASSUME NEW p \in Procs, NEW forced \in BOOLEAN, StartRun(p, forced)
      PROVE  OwnershipInv'
  <2>1. /\ UNCHANGED <<disk, life>> /\ run'[p].pc = "load"
        /\ \A q \in Procs \ {p} : run'[q] = run[q]
    BY <1>2, <1>3 DEF StartRun, Becomes, Idle, TypeOK
  <2>2. \A q \in Procs : OwnsRecord(q)'
    BY <1>2, <2>1 DEF OwnsRecord, Working, StatusOnDisk
  <2>3. QED
    BY <1>1, <1>2, <2>1, <2>2 DEF OwnershipInv, ServingOwnsActive
<1>4. CASE Tamper \/ UNCHANGED vars
  <2>1. UNCHANGED <<disk, life, run>>
    BY <1>4 DEF Tamper, vars
  <2>2. QED
    BY <1>1, <1>2, <2>1 DEF OwnershipInv, ServingOwnsActive, OwnsRecord, StatusOnDisk
<1>5. ASSUME NEW p \in Procs, LoadCancelled(p) PROVE OwnershipInv'
  <2>1. /\ UNCHANGED <<disk, life>> /\ run'[p].pc = "dropping"
        /\ \A q \in Procs \ {p} : run'[q] = run[q]
    BY <1>2, <1>5, LoadedType, AtType DEF LoadCancelled, Becomes, Location, TypeOK
  <2>2. \A q \in Procs : OwnsRecord(q)'
    BY <1>2, <2>1 DEF OwnsRecord, Working, StatusOnDisk
  <2>3. QED
    BY <1>1, <1>2, <2>1, <2>2 DEF OwnershipInv, ServingOwnsActive
<1>6. QED
  BY <1>1, <1>2, <1>3, <1>4, <1>5, NoRequestSaves, OwnsRunStep, OwnsProcessStep
  DEF Next, RetryJob

\* It holds at the start.
LEMMA OwnershipInit == Init => OwnershipInv
<1> SUFFICES ASSUME Init PROVE OwnershipInv
  OBVIOUS
<1>1. BudgetInv /\ ConsistencyInv
  BY BudgetInit, InitType, InitAgreed DEF ConsistencyInv, Agreed
<1>2. \A p \in Procs : OwnsRecord(p)
  BY IdleFacts DEF Init, OwnsRecord, Working
<1>3. QED
  BY <1>1, <1>2 DEF Init, OwnershipInv, ServingOwnsActive

(***************************************************************************)
(* While a process serves, an active record is its own: the scan every     *)
(* process makes before it serves leaves no orphan of a dead one, whatever *)
(* step the dead one crashed in and whichever saves failed.                *)
(***************************************************************************)
THEOREM ServingAlwaysOwnsActive ==
    ASSUME ~Overlap, Requests = {}
    PROVE  Spec => []ServingOwnsActive
<1>1. OwnershipInv /\ [Next]_vars => OwnershipInv'
  BY OwnershipStep
<1>2. OwnershipInv => ServingOwnsActive
  BY DEF OwnershipInv
<1>3. QED
  BY OwnershipInit, <1>1, <1>2, PTL DEF Spec

(***************************************************************************)
(* A job that is done stays done: only a forced run, a look at artifacts   *)
(* that are no longer the recorded ones, or a run of it that is cancelled  *)
(* in the sidecar's queue takes COMPLETED back, and no crash, scan, failed *)
(* save or late step of a run does.                                        *)
(***************************************************************************)
THEOREM CompletionIsDurable ==
    ASSUME ~Overlap, Requests = {}
    PROVE  Spec => CompletionDurable
<1> DEFINE Lost == disk # NoRecord /\ disk.status = "completed" /\ disk'.status # "completed"
           Cause == \/ \E p \in Procs : run[p].force
                    \/ ~ValidArtifacts(disk.artifacts)
                    \/ disk'.status = "cancelled" /\ \E p \in Procs : run[p].pc = "dropping"
<1>1. OwnershipInv /\ [Next]_vars => OwnershipInv'
  BY OwnershipStep
<1>2. ASSUME OwnershipInv, Next, Lost PROVE Cause
  <2>1. /\ TypeOK /\ BudgetInv /\ StatusOnDisk = "completed" /\ disk' # disk
        /\ \A q \in Procs : OwnsRecord(q) /\ RunConsistent(run[q]) /\ RunCounts(run[q])
    BY <1>2 DEF OwnershipInv, BudgetInv, ConsistencyInv, StatusOnDisk
  <2>2. ASSUME NEW p \in Procs, RunStep(p) PROVE Cause
    <3>1. run[p].pc \notin Working
      BY <2>1 DEF OwnsRecord
    <3>2. RejectCompleted(p) \/ BeginAttempt(p) \/ SaveCancelled(p)
      BY <2>1, <2>2, <3>1
      DEF RunStep, OwnStep, BackendStep, Working, LoadJob, CannotRead, SkipCompleted, OutOfAttempts,
          StartTranslating, Translated, TranslateRaises, ValidateResult,
          CompleteJob, CancelJob, FailAttempt, ScheduleRetry, GiveUp, BackoffOver
    <3>3. CASE RejectCompleted(p)
      BY <2>1, <3>3, RejectEffect DEF OwnsRecord
    <3>4. CASE BeginAttempt(p)
      BY <2>1, <3>4, BeginEffect DEF OwnsRecord
    <3>5. CASE SaveCancelled(p)
      BY <2>1, <3>5, DropEffect
    <3>6. QED
      BY <3>2, <3>3, <3>4, <3>5
  <2>3. ASSUME NEW p \in Procs, Recover(p) PROVE FALSE
    <3>1. held[p] = disk
      BY <2>1, <2>3 DEF Recover, BudgetInv
    <3>2. ~Interrupted(held[p])
      BY <1>2, <3>1 DEF Interrupted, Active
    <3>3. QED
      BY <2>1, <2>3, <3>2 DEF Recover
  <2>4. QED
    BY <1>2, <2>1, <2>2, <2>3, NoRequestSaves
    DEF Next, Boot, Crash, StartRun, RetryJob, LoadCancelled, LoadForRequest, Tamper
<1>3. OwnershipInv /\ [Next]_vars => [Lost => Cause]_vars
  BY <1>2
<1>4. QED
  BY OwnershipInit, <1>1, <1>3, PTL DEF Spec, CompletionDurable

-----------------------------------------------------------------------------
(***************************************************************************)
(* TransientFailuresRetried, for processes that overlap and write behind   *)
(* each other's backs as well.                                             *)
(***************************************************************************)

\* Where a run that moves or raises gets.
LEMMA Places ==
    ASSUME TypeOK, NEW p \in Procs, NEW location, NEW record, NEW x
    PROVE  /\ At(p, location, record).pc = location
           /\ At(p, location, record).exc = run[p].exc
           /\ Raising(p, record, x).pc = "raising"
           /\ Raising(p, record, x).exc = x
  BY RunFields DEF At, Raising, Run

\* The exception a run handles is one that somebody raised.
LEMMA HandlesStep == TypeOK /\ HandlesRaised /\ [Next]_vars => HandlesRaised'
<1> SUFFICES ASSUME TypeOK, HandlesRaised, [Next]_vars PROVE HandlesRaised'
  OBVIOUS
<1> DEFINE Handled(state) == state.pc \in {"raising", "failed"} => state.exc \in Raised
<1>1. ASSUME NEW p \in Procs, NEW state, Becomes(p, state), Handled(state)
      PROVE  HandlesRaised'
  BY <1>1 DEF Becomes, TypeOK, HandlesRaised, Raised
<1>2. ASSUME run' = run PROVE HandlesRaised'
  BY <1>2 DEF HandlesRaised, Raised
<1>3. Handled(Idle)
  BY IdleFacts
<1>4. NoException \in Raised
  BY DEF Raised
<1>5. ASSUME NEW p \in Procs, NEW forced \in BOOLEAN, StartRun(p, forced) PROVE HandlesRaised'
  <2>1. Handled([Idle EXCEPT !.pc = "load", !.force = forced])
    BY DEF Idle
  <2>2. QED
    BY <1>1, <1>5, <2>1 DEF StartRun
<1>6. ASSUME NEW p \in Procs, RunStep(p) PROVE HandlesRaised'
  <2>1. PICK state : Becomes(p, state) /\ Handled(state)
    <3>1. CASE LoadJob(p)
      BY <3>1, Places DEF LoadJob
    <3>2. CASE \/ CannotRead(p) \/ SkipCompleted(p) \/ OutOfAttempts(p) \/ CancelJob(p)
               \/ GiveUp(p) \/ SaveCancelled(p)
      BY <1>3, <3>2
      DEF CannotRead, SkipCompleted, OutOfAttempts, CancelJob, GiveUp, SaveCancelled, Save
    <3>3. CASE RejectCompleted(p) \/ BeginAttempt(p) \/ ScheduleRetry(p)
      BY <1>3, <3>3, Places DEF RejectCompleted, BeginAttempt, ScheduleRetry, Save
    <3>4. CASE StartTranslating(p)
      BY <1>4, <3>4, Places DEF StartTranslating, Save
    <3>5. CASE Translated(p)
      BY <3>5, Places DEF Translated
    <3>6. CASE \E x \in Raised : TranslateRaises(p, x)
      BY <3>6, Places DEF TranslateRaises
    <3>7. CASE ValidateResult(p)
      BY <1>4, <3>7, Places DEF ValidateResult
    <3>8. CASE CompleteJob(p)
      BY <1>3, <1>4, <3>8, Places DEF CompleteJob, Save
    <3>9. CASE FailAttempt(p)
      <4>1. run[p].exc \in Raised
        BY <3>9 DEF FailAttempt, HandlesRaised
      <4>2. QED
        BY <1>3, <3>9, <4>1, Places DEF FailAttempt, Save
    <3>10. CASE BackoffOver(p)
      <4>1. [At(p, "loop", run[p].job) EXCEPT !.exc = NoException].pc = "loop"
        BY RunFields DEF At, Run
      <4>2. QED
        BY <3>10, <4>1 DEF BackoffOver
    <3>11. QED
      BY <1>6, <3>1, <3>2, <3>3, <3>4, <3>5, <3>6, <3>7, <3>8, <3>9, <3>10
      DEF RunStep, OwnStep, BackendStep
  <2>2. QED
    BY <1>1, <2>1
<1>7. ASSUME NEW p \in Procs, Crash(p) PROVE HandlesRaised'
  BY <1>1, <1>3, <1>7 DEF Crash
<1>8. ASSUME NEW p \in Procs, LoadCancelled(p) PROVE HandlesRaised'
  BY <1>1, <1>8, Places DEF LoadCancelled
<1>9. QED
  BY <1>2, <1>5, <1>6, <1>7, <1>8
  DEF Next, vars, Boot, Recover, RetryJob, LoadForRequest, ValidateOutput, RunQa,
      LoadForStart, SaveForStart, RefuseStart, SaveForRequest, Tamper

(***************************************************************************)
(* In in_process mode run_one never gives up on a failure that was raised  *)
(* as retryable while its category has attempts left: classify_exception   *)
(* opens every exception that carries the flag, and what run_one raises    *)
(* itself carries none.                                                    *)
(***************************************************************************)
THEOREM TransientFailuresAreRetried ==
    ASSUME WorkerMode = "in_process"
    PROVE  Spec => TransientFailuresRetried
<1> DEFINE Retried(p) ==
             GiveUp(p) =>
               ~ /\ run[p].exc.retryable
                 /\ run[p].job.attempts <
                      retry_limit_for(run[p].exc.category, RetryLimits, MaxRetries)
<1>1. Init => TypeOK /\ HandlesRaised
  <2>1. Init => HandlesRaised
    BY IdleFacts DEF Init, HandlesRaised
  <2>2. QED
    BY <2>1, InitType
<1>2. TypeOK /\ HandlesRaised /\ [Next]_vars => TypeOK' /\ HandlesRaised'
  BY TypeStep, HandlesStep
<1>3. ASSUME HandlesRaised, NEW p \in Procs PROVE Retried(p)
  <2>1. SUFFICES ASSUME GiveUp(p), run[p].exc.retryable
                 PROVE  ~(run[p].job.attempts <
                            retry_limit_for(run[p].exc.category, RetryLimits, MaxRetries))
    OBVIOUS
  <2>2. run[p].exc \in Raised /\ ~MayRetry(p)
    BY <1>3, <2>1 DEF GiveUp, HandlesRaised
  <2>3. /\ classify_exception(run[p].exc).category = run[p].exc.category
        /\ classify_exception(run[p].exc).retryable
    BY <2>1, <2>2 DEF Raised, Raise, NoException, classify_exception
  <2>4. QED
    BY <2>2, <2>3 DEF MayRetry
<1>4. TypeOK /\ HandlesRaised /\ [Next]_vars => [\A p \in Procs : Retried(p)]_vars
  BY <1>3
<1>5. QED
  BY <1>1, <1>2, <1>4, PTL DEF Spec, TransientFailuresRetried

-----------------------------------------------------------------------------
(***************************************************************************)
(* ActiveMeansWorking and the lifecycle, from LifecycleInv, while saves    *)
(* succeed.                                                                *)
(***************************************************************************)

\* A record that waits for its next attempt has one left.
LEMMA PendingHasAttempt ==
    ASSUME NEW record \in JobRecord, Consistent(record), record.status = "retry_pending"
    PROVE  record.attempts < MaxAttempts
<1>1. /\ record.error_category \in ErrorCategory
      /\ record.attempts < retry_limit_for(record.error_category, RetryLimits, MaxRetries)
  BY UnmarkedAgrees DEF FieldsAgree
<1>2. /\ retry_limit_for(record.error_category, RetryLimits, MaxRetries) \in Nat
      /\ retry_limit_for(record.error_category, RetryLimits, MaxRetries) <= MaxAttempts
  BY <1>1, RetryLimitBounds, RetryLimitsAssumption, MaxRetriesAssumption DEF MaxAttempts
<1>3. record.attempts \in Nat /\ MaxAttempts \in Nat
  BY MaxAttemptsPositive DEF JobRecord
<1>4. QED
  BY <1>1, <1>2, <1>3

\* The run of p moved, and the file follows.
LEMMA FollowsMoves ==
    ASSUME LifecycleInv, OwnershipInv', NEW p \in Procs,
           run[p].pc # "idle", UNCHANGED life,
           \A q \in Procs \ {p} : run'[q] = run[q],
           StatusFollows(p)',
           \/ disk' = disk \/ disk'.runner_pid \in {p, NoProc}
           \/ disk # NoRecord /\ disk'.runner_pid = disk.runner_pid
    PROVE  LifecycleInv'
<1>1. life[p] = "up" /\ Alive(p) /\ BudgetInv
  BY DEF LifecycleInv, OwnershipInv, BudgetInv, Alive
<1>2. \A q \in Procs \ {p} : run'[q].pc = "idle" /\ life'[q] # "up"
  BY <1>1, Solo DEF Alive
<1>3. ASSUME NEW q \in Procs \ {p} PROVE StatusFollows(q)'
  <2>1. life'[q] \in {"unborn", "recovering"} /\ disk' # NoRecord => disk'.runner_pid # q
    BY ProcsAssumption DEF LifecycleInv, StatusFollows
  <2>2. QED
    BY <1>2, <2>1 DEF StatusFollows
<1>4. QED
  BY <1>3 DEF LifecycleInv

\* A step of a run.
LEMMA FollowsRunStep ==
    ASSUME LifecycleInv, OwnershipInv', ~DiskFaults, NEW p \in Procs, RunStep(p)
    PROVE  LifecycleInv'
<1>1. /\ TypeOK /\ RunConsistent(run[p]) /\ OwnsRecord(p) /\ StatusFollows(p)
      /\ ConsistencyInv' /\ RunCounts(run[p]) /\ OwnsRecord(p)'
  BY DEF LifecycleInv, OwnershipInv, ConsistencyInv, BudgetInv
<1>2. /\ run[p].pc # "idle" /\ UNCHANGED life
      /\ \A q \in Procs \ {p} : run'[q] = run[q]
  BY <1>1, RunFrame
<1>3. life[p] = "up" /\ life'[p] = "up"
  BY <1>2 DEF LifecycleInv, OwnershipInv, BudgetInv
<1>4. CASE LoadJob(p)
  <2>1. disk' = disk /\ StatusOnDisk' = StatusOnDisk /\ CountOnDisk' = CountOnDisk
    BY <1>1, <1>4, LoadEffect DEF StatusOnDisk, CountOnDisk
  <2>2. run[p].pc = "load" /\ StatusOnDisk \notin Active
    BY <1>1, <1>3, <1>4, LoadEffect DEF StatusFollows
  <2>3. StatusFollows(p)'
    BY <1>1, <1>3, <1>4, <2>1, <2>2, LoadEffect DEF StatusFollows, Active
  <2>4. QED
    BY <1>2, <2>1, <2>3, FollowsMoves
<1>5. CASE CannotRead(p) \/ SkipCompleted(p) \/ OutOfAttempts(p)
  <2>1. /\ disk' = disk /\ run'[p].pc = "idle"
        /\ \/ run[p].pc \in {"load", "check"}
           \/ run[p].pc = "loop" /\ run[p].job.attempts >= MaxAttempts
    BY <1>1, <1>5, LeaveEffect
  <2>2. StatusOnDisk \notin Active
    <3>1. CASE run[p].pc = "load"
      BY <1>1, <1>3, <3>1 DEF StatusFollows
    <3>2. CASE run[p].pc = "check"
      BY <1>1, <3>2 DEF OwnsRecord, RunConsistent, StatusOnDisk, Active
    <3>3. CASE run[p].pc = "loop" /\ run[p].job.attempts >= MaxAttempts
      <4>1. SUFFICES ASSUME StatusOnDisk = "retry_pending", run[p].job.attempts = CountOnDisk
                     PROVE  FALSE
        BY <1>1, <3>3 DEF StatusFollows
      <4>2. disk \in JobRecord /\ disk.status = "retry_pending" /\ Consistent(disk)
        BY <1>1, <4>1
        DEF StatusOnDisk, TypeOK, LifecycleInv, OwnershipInv, ConsistencyInv, RecordConsistent
      <4>3. CountOnDisk = disk.attempts /\ disk.attempts \in Nat /\ MaxAttempts \in Nat
        BY <4>2, NoRecordAssumption, MaxAttemptsPositive DEF CountOnDisk, JobRecord
      <4>4. QED
        BY <3>3, <4>1, <4>2, <4>3, PendingHasAttempt
    <3>4. QED
      BY <2>1, <3>1, <3>2, <3>3
  <2>3. StatusFollows(p)'
    BY <1>3, <2>1, <2>2 DEF StatusFollows, StatusOnDisk
  <2>4. QED
    BY <1>2, <2>1, <2>3, FollowsMoves
<1>6. CASE RejectCompleted(p)
  <2>1. /\ run'[p].pc = "loop" /\ run'[p].job.attempts = 0
        /\ disk' \in JobRecord /\ disk'.status = "discovered" /\ disk'.attempts = 0
    BY <1>1, <1>6, RejectEffect
  <2>2. disk' # NoRecord /\ StatusOnDisk' = "discovered"
    BY <2>1, NoRecordAssumption DEF StatusOnDisk
  <2>3. StatusFollows(p)'
    BY <1>3, <2>1, <2>2 DEF StatusFollows, Active
  <2>4. disk'.runner_pid = NoProc
    BY <1>1, <2>1, <2>2, DiscoveredHasNoRunner, NoRecordAssumption
  <2>5. QED
    BY <1>2, <2>3, <2>4, FollowsMoves
<1>7. CASE BeginAttempt(p)
  <2>1. /\ run'[p].pc = "begun" /\ disk' \in JobRecord
        /\ disk'.status = "running" /\ disk'.runner_pid = p
    BY <1>1, <1>7, BeginEffect
  <2>2. disk' # NoRecord /\ StatusOnDisk' = "running"
    BY <2>1, NoRecordAssumption DEF StatusOnDisk
  <2>3. StatusFollows(p)'
    BY <1>3, <2>1, <2>2 DEF StatusFollows
  <2>4. QED
    BY <1>2, <2>1, <2>3, FollowsMoves
<1>8. CASE run[p].pc \in Working
  <2>1. Kept(p) /\ ((Silent(p) /\ disk' = disk) \/ Saving(p))
    BY <1>1, <1>8, WorkEffect DEF Faulty
  <2>2. run[p].job.attempts = CountOnDisk /\ run[p].job.runner_pid \in {p, NoProc}
    BY <1>1, <1>8 DEF RunCounts, OwnsRecord
  <2>3. CASE Silent(p) /\ disk' = disk
    <3>1. StatusOnDisk' = StatusOnDisk /\ CountOnDisk' = CountOnDisk
      BY <2>3 DEF StatusOnDisk, CountOnDisk
    <3>2. run'[p].pc = "loop" => run'[p].job.attempts = CountOnDisk
      BY <2>1, <2>2 DEF Kept
    <3>3. StatusFollows(p)'
      BY <1>1, <1>3, <2>3, <3>1, <3>2 DEF StatusFollows, Silent, Moved
    <3>4. QED
      BY <1>2, <2>3, <3>3, FollowsMoves
  <2>4. CASE Saving(p)
    <3>1. disk'.runner_pid \in {p, NoProc}
      BY <2>2, <2>4 DEF Saving, Wrote
    <3>2. StatusFollows(p)'
      BY <1>3, <2>4, WroteStatus DEF StatusFollows, Saving, Moved, Active
    <3>3. QED
      BY <1>2, <3>1, <3>2, FollowsMoves
  <2>5. QED
    BY <2>1, <2>3, <2>4
<1>9. run[p].pc \in Working
        \/ LoadJob(p) \/ CannotRead(p) \/ SkipCompleted(p) \/ OutOfAttempts(p)
        \/ RejectCompleted(p) \/ BeginAttempt(p) \/ SaveCancelled(p)
  BY DEF RunStep, OwnStep, BackendStep, Working, StartTranslating, Translated, TranslateRaises, ValidateResult,
         CompleteJob, CancelJob, FailAttempt, ScheduleRetry, GiveUp, BackoffOver
<1>10. CASE SaveCancelled(p)
  <2>1. /\ run'[p].pc = "idle" /\ disk' \in JobRecord /\ disk'.status = "cancelled"
        /\ disk'.runner_pid = Loaded.runner_pid
    BY <1>1, <1>10, DropEffect, IdleFacts
  <2>2. disk'.runner_pid = NoProc \/ (disk # NoRecord /\ disk'.runner_pid = disk.runner_pid)
    BY <2>1 DEF Loaded, FreshJob
  <2>3. StatusFollows(p)'
    BY <1>3, <2>1, NoRecordAssumption DEF StatusFollows, StatusOnDisk, Active
  <2>4. QED
    BY <1>2, <2>2, <2>3, FollowsMoves
<1>11. QED
  BY <1>4, <1>5, <1>6, <1>7, <1>8, <1>9, <1>10

\* Starting, scanning and dying.
LEMMA FollowsProcessStep ==
    ASSUME LifecycleInv, OwnershipInv', ~Overlap, ~DiskFaults, NEW p \in Procs,
           Boot(p) \/ Recover(p) \/ Crash(p)
    PROVE  LifecycleInv'
<1>1. TypeOK /\ BudgetInv /\ \A q \in Procs : StatusFollows(q)
  BY DEF LifecycleInv, OwnershipInv, BudgetInv
<1>2. CASE Boot(p)
  <2>1. /\ UNCHANGED <<disk, run>> /\ life[p] = "unborn"
        /\ \A q \in Procs : ~Alive(q)
        /\ \A q \in Procs \ {p} : life'[q] = life[q]
        /\ life'[p] = "up" => disk = NoRecord
    BY <1>1, <1>2 DEF Boot, TypeOK
  <2>2. \A q \in Procs : run[q].pc = "idle"
    BY <1>1, <2>1 DEF BudgetInv, Alive
  <2>3. \A q \in Procs : life'[q] = "up" => disk = NoRecord
    BY <2>1 DEF Alive
  <2>4. StatusOnDisk' = StatusOnDisk /\ (disk = NoRecord => StatusOnDisk \notin Active)
    BY <2>1 DEF StatusOnDisk, Active
  <2>5. \A q \in Procs : StatusFollows(q)'
    BY <1>1, <2>1, <2>2, <2>3, <2>4 DEF StatusFollows
  <2>6. QED
    BY <2>5 DEF LifecycleInv
<1>3. CASE Recover(p)
  <2>1. request[p] = "recover" /\ UNCHANGED run /\ life' = [life EXCEPT ![p] = "up"]
    BY <1>3 DEF Recover
  <2>2. /\ life[p] = "recovering" /\ disk # NoRecord /\ held[p] = disk /\ Alive(p)
        /\ run[p].pc = "idle" /\ disk \in JobRecord
    BY <1>1, <2>1 DEF BudgetInv, Alive, TypeOK
  <2>3. \A q \in Procs \ {p} : ~Alive(q) /\ run[q].pc = "idle"
    BY <1>1, <2>2, Solo
  <2>4. /\ disk' # NoRecord /\ disk'.status \notin Active
        /\ disk'.runner_pid \in {disk.runner_pid, NoProc}
    <3>1. CASE ~Interrupted(disk) /\ disk' = disk
      <4>1. disk.runner_pid # p /\ disk.runner_pid \in Procs \cup {NoProc}
        BY <1>1, <2>2 DEF StatusFollows, JobRecord
      <4>2. QED
        BY <2>2, <2>3, <3>1, <4>1 DEF Interrupted
    <3>2. CASE disk' = Terminalized(disk)
      <4>1. /\ Terminalized(disk).status = "failed" /\ Terminalized(disk).runner_pid = NoProc
            /\ Terminalized(disk) \in JobRecord
        BY <2>2 DEF Terminalized, JobRecord, JobStatus, ErrorCategory
      <4>2. QED
        BY <3>2, <4>1, NoRecordAssumption DEF Active
    <3>3. QED
      BY <1>3, <2>2, <3>1, <3>2 DEF Recover
  <2>5. StatusOnDisk' \notin Active
    BY <2>4 DEF StatusOnDisk
  <2>6. ASSUME NEW q \in Procs PROVE StatusFollows(q)'
    <3>1. run'[q].pc = "idle"
      BY <2>1, <2>2, <2>3
    <3>2. life'[q] \in {"unborn", "recovering"} => disk'.runner_pid # q
      BY <1>1, <2>1, <2>2, <2>4, ProcsAssumption DEF StatusFollows, TypeOK
    <3>3. QED
      BY <2>5, <3>1, <3>2 DEF StatusFollows
  <2>7. QED
    BY <2>6 DEF LifecycleInv
<1>4. CASE Crash(p)
  <2>1. /\ Alive(p) /\ life' = [life EXCEPT ![p] = "dead"]
        /\ run' = [run EXCEPT ![p] = Idle] /\ UNCHANGED disk
    BY <1>4 DEF Crash, Becomes
  <2>2. \A q \in Procs \ {p} : run[q].pc = "idle" /\ ~Alive(q)
    BY <1>1, <2>1, Solo
  <2>3. \A q \in Procs : run'[q].pc = "idle" /\ life'[q] # "up"
    BY <1>1, <2>1, <2>2, IdleFacts DEF TypeOK, Alive
  <2>4. \A q \in Procs : life'[q] \in {"unborn", "recovering"} => life[q] = life'[q]
    BY <1>1, <2>1 DEF TypeOK
  <2>5. \A q \in Procs : StatusFollows(q)'
    BY <1>1, <2>1, <2>3, <2>4 DEF StatusFollows
  <2>6. QED
    BY <2>5 DEF LifecycleInv
<1>5. QED
  BY <1>2, <1>3, <1>4

\* Every step keeps LifecycleInv.
LEMMA LifecycleStep ==
    ASSUME ~Overlap, Requests = {}, ~DiskFaults, LifecycleInv, [Next]_vars
    PROVE  LifecycleInv'
<1>1. OwnershipInv'
  BY OwnershipStep DEF LifecycleInv
<1>2. TypeOK /\ BudgetInv /\ \A q \in Procs : StatusFollows(q)
  BY DEF LifecycleInv, OwnershipInv, BudgetInv
<1>3. ASSUME NEW p \in Procs, NEW forced \in BOOLEAN, StartRun(p, forced)
      PROVE  LifecycleInv'
  <2>1. /\ UNCHANGED <<disk, life>> /\ run[p].pc = "idle" /\ run'[p].pc = "load"
        /\ \A q \in Procs \ {p} : run'[q] = run[q]
    BY <1>2, <1>3 DEF StartRun, Becomes, Idle, TypeOK
  <2>2. StatusOnDisk' = StatusOnDisk /\ CountOnDisk' = CountOnDisk
    BY <2>1 DEF StatusOnDisk, CountOnDisk
  <2>3. \A q \in Procs : StatusFollows(q)'
    BY <1>2, <2>1, <2>2 DEF StatusFollows
  <2>4. QED
    BY <1>1, <2>3 DEF LifecycleInv
<1>4. CASE Tamper \/ UNCHANGED vars
  <2>1. UNCHANGED <<disk, life, run>>
    BY <1>4 DEF Tamper, vars
  <2>2. QED
    BY <1>1, <1>2, <2>1 DEF LifecycleInv, StatusFollows, StatusOnDisk, CountOnDisk
<1>5. ASSUME NEW p \in Procs, LoadCancelled(p) PROVE LifecycleInv'
  <2>1. /\ UNCHANGED <<disk, life>> /\ run[p].pc = "idle" /\ run'[p].pc = "dropping"
        /\ \A q \in Procs \ {p} : run'[q] = run[q]
    BY <1>2, <1>5, LoadedType, AtType DEF LoadCancelled, Becomes, Location, TypeOK
  <2>2. StatusOnDisk' = StatusOnDisk /\ CountOnDisk' = CountOnDisk
    BY <2>1 DEF StatusOnDisk, CountOnDisk
  <2>3. \A q \in Procs : StatusFollows(q)'
    BY <1>2, <2>1, <2>2 DEF StatusFollows
  <2>4. QED
    BY <1>1, <2>3 DEF LifecycleInv
<1>6. QED
  BY <1>1, <1>2, <1>3, <1>4, <1>5, NoRequestSaves, FollowsRunStep, FollowsProcessStep
  DEF Next, RetryJob

\* It holds at the start.
LEMMA LifecycleInit == Init => LifecycleInv
<1> SUFFICES ASSUME Init PROVE LifecycleInv
  OBVIOUS
<1>1. \A p \in Procs : StatusFollows(p)
  BY IdleFacts DEF Init, StatusFollows
<1>2. QED
  BY <1>1, OwnershipInit DEF LifecycleInv

\* ... so it always holds.
LEMMA LifecycleAlways ==
    ASSUME ~Overlap, Requests = {}, ~DiskFaults
    PROVE  Spec => []LifecycleInv
<1>1. LifecycleInv /\ [Next]_vars => LifecycleInv'
  BY LifecycleStep
<1>2. QED
  BY LifecycleInit, <1>1, PTL DEF Spec

(***************************************************************************)
(* A process that serves a job it calls active is working on it, as long   *)
(* as saves succeed: no path of run_one, its early returns and exceptions  *)
(* included, leaves RUNNING or RETRY_PENDING behind it.                    *)
(***************************************************************************)
THEOREM ActiveAlwaysMeansWorking ==
    ASSUME ~Overlap, Requests = {}, ~DiskFaults
    PROVE  Spec => []ActiveMeansWorking
<1>1. ASSUME LifecycleInv PROVE ActiveMeansWorking
  <2> SUFFICES ASSUME NEW p \in Procs, life[p] = "up", disk # NoRecord, disk.status \in Active
               PROVE  run[p].pc \in Working \cup {"loop"}
    BY DEF ActiveMeansWorking
  <2>1. /\ StatusFollows(p) /\ OwnsRecord(p) /\ RunConsistent(run[p])
        /\ run[p].pc \in Location
    BY <1>1, RunFields DEF LifecycleInv, OwnershipInv, ConsistencyInv
  <2>2. run[p].pc \notin {"idle", "load", "dropping"}
    BY <2>1 DEF StatusFollows, StatusOnDisk
  <2>3. run[p].pc # "check"
    BY <2>1 DEF OwnsRecord, RunConsistent, Active
  <2>4. QED
    BY <2>1, <2>2, <2>3 DEF Location
<1>2. QED
  BY <1>1, LifecycleAlways, PTL

-----------------------------------------------------------------------------
\* A step of a run is a step of the lifecycle, or none.
LEMMA RunRefines ==
    ASSUME LifecycleInv, ConsistencyInv', ~DiskFaults, NEW p \in Procs, RunStep(p)
    PROVE  [Lifecycle!Next]_(Lifecycle!vars)
<1>1. /\ TypeOK /\ RunConsistent(run[p]) /\ OwnsRecord(p) /\ StatusFollows(p)
      /\ RunCounts(run[p])
  BY DEF LifecycleInv, OwnershipInv, ConsistencyInv, BudgetInv
<1>2. ASSUME disk' = disk PROVE UNCHANGED Lifecycle!vars
  BY <1>2 DEF Lifecycle!vars, StatusOnDisk, CountOnDisk
<1>3. CASE LoadJob(p) \/ CannotRead(p) \/ SkipCompleted(p) \/ OutOfAttempts(p)
  BY <1>1, <1>2, <1>3, LoadEffect, LeaveEffect
<1>4. CASE RejectCompleted(p)
  <2>1. /\ run[p].pc = "check"
        /\ disk' \in JobRecord /\ disk'.status = "discovered" /\ disk'.attempts = 0
    BY <1>1, <1>4, RejectEffect
  <2>2. StatusOnDisk = "completed" /\ StatusOnDisk' = "discovered" /\ CountOnDisk' = 0
    BY <1>1, <2>1, NoRecordAssumption DEF OwnsRecord, RunConsistent, StatusOnDisk, CountOnDisk
  <2>3. QED
    BY <2>2 DEF Lifecycle!Next, Lifecycle!Invalidate
<1>5. CASE BeginAttempt(p)
  <2>1. /\ run[p].pc = "loop" /\ run[p].job.attempts < MaxAttempts
        /\ disk' \in JobRecord /\ disk'.status = "running"
        /\ disk'.attempts = run[p].job.attempts + 1
    BY <1>1, <1>5, BeginEffect
  <2>2. StatusOnDisk' = "running" /\ CountOnDisk' = run[p].job.attempts + 1
    BY <2>1, NoRecordAssumption DEF StatusOnDisk, CountOnDisk
  <2>3. StatusOnDisk \in JobStatus
    BY <1>1 DEF TypeOK, StatusOnDisk, JobRecord, JobStatus
  <2>4. \/ StatusOnDisk \in {"discovered", "failed", "retry_pending", "cancelled"}
             /\ run[p].job.attempts = CountOnDisk
        \/ StatusOnDisk \notin Active /\ run[p].job.attempts = 0
    BY <1>1, <2>1, <2>3 DEF StatusFollows, Active, JobStatus
  <2>5. QED
    BY <2>1, <2>2, <2>4
    DEF Lifecycle!Next, Lifecycle!Resume, Lifecycle!Restart, Lifecycle!Active, Active
<1>6. CASE run[p].pc \in Working
  <2>1. (Silent(p) /\ disk' = disk) \/ Saving(p)
    BY <1>1, <1>6, WorkEffect DEF Faulty
  <2>2. run[p].job.attempts = CountOnDisk
    BY <1>1, <1>6 DEF RunCounts
  <2>3. CASE Saving(p)
    <3>1. CountOnDisk' = CountOnDisk
      BY <2>2, <2>3, WroteStatus DEF Saving
    <3>2. \/ StatusOnDisk = "running" /\ StatusOnDisk' \in {"running", "completed", "cancelled", "failed"}
          \/ StatusOnDisk = "failed" /\ StatusOnDisk' \in {"failed", "retry_pending"}
      BY <1>1, <2>3, WroteStatus DEF Saving, Moved, StatusFollows
    <3>3. StatusOnDisk' = "retry_pending" => CountOnDisk < MaxAttempts
      <4>1. SUFFICES ASSUME StatusOnDisk' = "retry_pending" PROVE CountOnDisk < MaxAttempts
        OBVIOUS
      <4>2. disk' \in JobRecord /\ disk' # NoRecord
        BY <2>3, WroteStatus DEF Saving, Wrote
      <4>3. disk'.status = "retry_pending" /\ Consistent(disk') /\ CountOnDisk' = disk'.attempts
        BY <4>1, <4>2 DEF StatusOnDisk, CountOnDisk, ConsistencyInv, RecordConsistent
      <4>4. QED
        BY <3>1, <4>2, <4>3, PendingHasAttempt
    <3>4. QED
      BY <3>1, <3>2, <3>3
      DEF Lifecycle!Next, Lifecycle!End, Lifecycle!Postpone, Lifecycle!vars, Lifecycle!Active
  <2>4. QED
    BY <1>2, <2>1, <2>3
<1>7. run[p].pc \in Working
        \/ LoadJob(p) \/ CannotRead(p) \/ SkipCompleted(p) \/ OutOfAttempts(p)
        \/ RejectCompleted(p) \/ BeginAttempt(p) \/ SaveCancelled(p)
  BY DEF RunStep, OwnStep, BackendStep, Working, StartTranslating, Translated, TranslateRaises, ValidateResult,
         CompleteJob, CancelJob, FailAttempt, ScheduleRetry, GiveUp, BackoffOver
<1>8. CASE SaveCancelled(p)
  <2>1. /\ run[p].pc = "dropping" /\ disk' \in JobRecord
        /\ disk'.status = "cancelled" /\ disk'.attempts = CountOnDisk
    BY <1>1, <1>8, DropEffect
  <2>2. StatusOnDisk' = "cancelled" /\ CountOnDisk' = CountOnDisk
    BY <2>1, NoRecordAssumption DEF StatusOnDisk, CountOnDisk
  <2>3. life[p] = "up"
    BY <2>1 DEF LifecycleInv, OwnershipInv, BudgetInv
  <2>4. StatusOnDisk \notin Active
    BY <1>1, <2>1, <2>3 DEF StatusFollows
  <2>5. QED
    BY <2>2, <2>4 DEF Lifecycle!Next, Lifecycle!Drop, Lifecycle!Active, Active
<1>9. QED
  BY <1>3, <1>4, <1>5, <1>6, <1>7, <1>8

(***************************************************************************)
(* The record follows the lifecycle of docs/architecture.md: however many  *)
(* processes take turns at the job and wherever they crash, its status and *)
(* its attempt count make only the transitions JobLifecycle allows, as     *)
(* long as saves succeed.                                                  *)
(***************************************************************************)
THEOREM ImplementsLifecycle ==
    ASSUME ~Overlap, Requests = {}, ~DiskFaults
    PROVE  Spec => LifecycleSpec
<1>1. Init => Lifecycle!Init
  BY DEF Init, Lifecycle!Init, StatusOnDisk, CountOnDisk
<1>2. LifecycleInv /\ [Next]_vars => LifecycleInv'
  BY LifecycleStep
<1>3. ASSUME LifecycleInv, LifecycleInv', [Next]_vars PROVE [Lifecycle!Next]_(Lifecycle!vars)
  <2>1. TypeOK /\ BudgetInv /\ ConsistencyInv'
    BY <1>3 DEF LifecycleInv, OwnershipInv, BudgetInv
  <2>2. ASSUME disk' = disk PROVE UNCHANGED Lifecycle!vars
    BY <2>2 DEF Lifecycle!vars, StatusOnDisk, CountOnDisk
  <2>3. ASSUME NEW p \in Procs, RunStep(p) PROVE [Lifecycle!Next]_(Lifecycle!vars)
    BY <1>3, <2>1, <2>3, RunRefines
  <2>4. ASSUME NEW p \in Procs, Recover(p) PROVE [Lifecycle!Next]_(Lifecycle!vars)
    <3>1. held[p] = disk /\ disk # NoRecord /\ disk \in JobRecord
      BY <2>1, <2>4 DEF Recover, BudgetInv, TypeOK
    <3>2. CASE Interrupted(disk) /\ disk' = Terminalized(disk)
      <4>1. /\ Terminalized(disk) \in JobRecord /\ Terminalized(disk).status = "failed"
            /\ Terminalized(disk).attempts = disk.attempts
        BY <3>1 DEF Terminalized, JobRecord, JobStatus, ErrorCategory
      <4>2. /\ StatusOnDisk \in Active /\ StatusOnDisk' = "failed"
            /\ CountOnDisk' = CountOnDisk
        BY <3>1, <3>2, <4>1, NoRecordAssumption DEF Interrupted, StatusOnDisk, CountOnDisk
      <4>3. QED
        BY <4>2 DEF Lifecycle!Next, Lifecycle!End, Lifecycle!Active, Active
    <3>3. CASE disk' = disk
      BY <2>2, <3>3
    <3>4. QED
      BY <2>4, <3>1, <3>2, <3>3 DEF Recover
  <2>5. CASE \/ Tamper \/ UNCHANGED vars
             \/ \E p \in Procs :
                  \/ Boot(p) \/ Crash(p) \/ \E forced \in BOOLEAN : StartRun(p, forced)
                  \/ RetryJob(p) \/ LoadCancelled(p)
                  \/ \E kind \in Requests : LoadForRequest(p, kind)
    BY <2>2, <2>5
    DEF Tamper, vars, Boot, Crash, StartRun, RetryJob, LoadCancelled, LoadForRequest
  <2>6. QED
    BY <1>3, <2>1, <2>3, <2>4, <2>5, NoRequestSaves DEF Next
<1>4. QED
  BY <1>1, <1>2, <1>3, LifecycleInit, PTL DEF Spec, LifecycleSpec, Lifecycle!Spec
=============================================================================
