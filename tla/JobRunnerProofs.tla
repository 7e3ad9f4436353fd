-------------------------- MODULE JobRunnerProofs --------------------------
(***************************************************************************)
(* Theorems about JobRunner, for any set of processes, any max_retries,    *)
(* any retry policy, either worker mode, overlapping processes or not,     *)
(* with and without failing saves.                                         *)
(***************************************************************************)
EXTENDS JobRunner, TLAPS

-----------------------------------------------------------------------------
(***************************************************************************)
(* Retry limits.                                                           *)
(***************************************************************************)

\* The ceiling of attempts is at least one.
LEMMA CeilingPositive == \A n \in Int : Ceiling(n) \in Nat /\ Ceiling(n) >= 1
  BY DEF Ceiling, AtLeastOne

(***************************************************************************)
(* An operator's policy can neither forbid the first attempt nor raise a   *)
(* category above max_retries (resolve_retry_limits), whatever keys and    *)
(* numbers it holds.                                                       *)
(***************************************************************************)
THEOREM RetryLimitBounds ==
    ASSUME NEW policy, \A c \in DOMAIN policy : policy[c] \in Int,
           NEW defaultMax \in Int, NEW category \in ErrorCategory
    PROVE  /\ retry_limit_for(category, policy, defaultMax) \in Nat
           /\ retry_limit_for(category, policy, defaultMax) >= 1
           /\ retry_limit_for(category, policy, defaultMax) <= Ceiling(defaultMax)
<1>1. /\ Ceiling(defaultMax) \in Nat
      /\ Ceiling(defaultMax) >= 1
  BY CeilingPositive
<1>2. DEFAULT_RETRY_LIMITS[category] \in 1..3
  BY DEF DEFAULT_RETRY_LIMITS
<1> DEFINE wanted == IF category \in DOMAIN policy
                       THEN AtLeastOne(policy[category])
                       ELSE DEFAULT_RETRY_LIMITS[category]
<1>3. wanted \in Nat /\ wanted >= 1
  BY <1>2 DEF AtLeastOne
<1>4. retry_limit_for(category, policy, defaultMax) = Capped(wanted, Ceiling(defaultMax))
  BY DEF retry_limit_for, resolve_retry_limits
<1> HIDE DEF wanted
<1>5. QED
  BY <1>1, <1>3, <1>4 DEF Capped

\* So is the number of rounds run_one makes.
LEMMA MaxAttemptsPositive == MaxAttempts \in Nat /\ MaxAttempts >= 1
  BY MaxRetriesAssumption, CeilingPositive DEF MaxAttempts

\* classify_exception gives a category and a flag.
LEMMA ClassifyType ==
    ASSUME NEW x \in Exception
    PROVE  classify_exception(x).category \in ErrorCategory
  BY DEF classify_exception, Exception, ExceptionClass, ErrorCategory

-----------------------------------------------------------------------------
(***************************************************************************)
(* Types of the pieces the actions are built from.                         *)
(***************************************************************************)

\* A new job is a record.
LEMMA FreshJobType == FreshJob \in JobRecord
  BY MaxAttemptsPositive
  DEF FreshJob, JobRecord, JobStatus, JobStage, NoCategory, Artifacts

\* The null of the exceptions is typed like one.
LEMMA NoExceptionType == NoException \in Exception
  BY DEF NoException, Exception, ExceptionClass, ErrorCategory

\* A process that runs nothing is typed like a run.
LEMMA IdleType == Idle \in Run
  BY FreshJobType, NoExceptionType DEF Idle, Run, Location

\* What a load returns is a record.
LEMMA LoadedType == TypeOK => Loaded \in JobRecord
  BY FreshJobType DEF TypeOK, Loaded

\* An exception that run_one raises itself is one.
LEMMA RaiseType ==
    ASSUME NEW class \in ExceptionClass, NEW category \in ErrorCategory,
           NEW retryable \in BOOLEAN
    PROVE  Raise(class, category, retryable) \in Exception
  BY DEF Raise, Exception

\* So are those of the backend.
LEMMA RaisedType == Raised \subseteq Exception
<1>1. {"babelcodex", "worker_client", "file_not_found", "timeout", "other"} \subseteq ExceptionClass
  BY DEF ExceptionClass
<1>2. {"worker", "translation", "cancelled", "babeldoc", "auth", "unknown"} \subseteq ErrorCategory
  BY DEF ErrorCategory
<1>3. CASE WorkerMode = "subprocess"
  BY <1>1, <1>2, <1>3, RaiseType, NoExceptionType DEF Raised
<1>4. CASE WorkerMode # "subprocess"
  BY <1>1, <1>2, <1>4, RaiseType, NoExceptionType DEF Raised
<1>5. QED
  BY <1>3, <1>4

\* The fields of a run are typed.
LEMMA RunFields ==
    ASSUME TypeOK, NEW p \in Procs
    PROVE  /\ run[p] \in Run
           /\ run[p].pc \in Location
           /\ run[p].job \in JobRecord
           /\ run[p].force \in BOOLEAN
           /\ run[p].exc \in Exception
  BY DEF TypeOK, Run

\* Moving on keeps the type of a run.
LEMMA AtType ==
    ASSUME TypeOK, NEW p \in Procs, NEW location \in Location, NEW record \in JobRecord
    PROVE  /\ At(p, location, record) \in Run
           /\ At(p, location, record).pc = location
           /\ At(p, location, record).job = record
           /\ At(p, location, record).exc = run[p].exc
  BY RunFields DEF At, Run

\* So does raising.
LEMMA RaisingType ==
    ASSUME TypeOK, NEW p \in Procs, NEW record \in JobRecord, NEW x \in Exception
    PROVE  /\ Raising(p, record, x) \in Run
           /\ Raising(p, record, x).pc = "raising"
           /\ Raising(p, record, x).job = record
           /\ Raising(p, record, x).exc = x
<1>1. "raising" \in Location
  BY DEF Location, Working
<1>2. QED
  BY <1>1, RunFields DEF Raising, At, Run

\* A step of one run changes that run only.
LEMMA BecomesType ==
    ASSUME TypeOK, NEW p \in Procs, NEW state \in Run, Becomes(p, state)
    PROVE  /\ run' \in [Procs -> Run]
           /\ run'[p] = state
           /\ \A q \in Procs \ {p} : run'[q] = run[q]
  BY DEF TypeOK, Becomes

\* A save, good or failed, keeps the types.
LEMMA SaveType ==
    ASSUME TypeOK, NEW p \in Procs, NEW record \in JobRecord,
           NEW saved \in Run, NEW raised \in Run, Save(p, record, saved, raised)
    PROVE  /\ disk' \in JobRecord \cup {NoRecord}
           /\ run' \in [Procs -> Run]
           /\ disk' = record \/ disk' = disk
           /\ run'[p] = saved \/ run'[p] = raised
           /\ \A q \in Procs \ {p} : run'[q] = run[q]
<1>1. CASE disk' = record /\ Becomes(p, saved)
  BY <1>1, BecomesType
<1>2. CASE disk' = disk /\ Becomes(p, raised)
  BY <1>2, BecomesType DEF TypeOK
<1>3. QED
  BY <1>1, <1>2 DEF Save

\* Recording hashes gives artifacts, and leaves those that have them.
LEMMA HashedType ==
    ASSUME TypeOK, NEW artifacts \in Artifacts
    PROVE  /\ Hashed(artifacts) \in Artifacts
           /\ ValidArtifacts(artifacts) => Hashed(artifacts) \in Content
           /\ artifacts \in Content => Hashed(artifacts) = artifacts
  BY ProcsAssumption DEF TypeOK, Hashed, ValidArtifacts, Artifacts, Content

\* The end of a request drops the copy it held.
LEMMA DoneType ==
    ASSUME TypeOK, NEW p \in Procs, Done(p)
    PROVE  /\ request' \in [Procs -> {"none", "recover", "validate", "qa", "start"}]
           /\ held' \in [Procs -> JobRecord]
           /\ held'[p] = FreshJob
           /\ \A q \in Procs \ {p} : held'[q] = held[q]
  BY FreshJobType DEF TypeOK, Done
\* RunQa and ValidateOutput only differ in the record they save.
LEMMA SaveForRequestType ==
    ASSUME TypeOK, NEW p \in Procs, NEW record \in JobRecord, SaveForRequest(p, record)
    PROVE  TypeOK'
<1>1. disk' \in JobRecord \cup {NoRecord}
  BY DEF SaveForRequest, TypeOK
<1>2. /\ request' \in [Procs -> {"none", "recover", "validate", "qa", "start"}]
      /\ held' \in [Procs -> JobRecord]
  BY DoneType DEF SaveForRequest
<1>3. QED
  BY <1>1, <1>2 DEF SaveForRequest, TypeOK

\* The initial state is typed.
LEMMA InitType == Init => TypeOK
<1>1. 0 \in 0..(MaxAttempts + 1)
  BY MaxAttemptsPositive
<1>2. QED
  BY <1>1, IdleType, FreshJobType DEF Init, TypeOK

-----------------------------------------------------------------------------
(***************************************************************************)
(* Type correctness, one step per action.                                  *)
(***************************************************************************)

\* Every step keeps the types.
LEMMA TypeStep == TypeOK /\ [Next]_vars => TypeOK'
<1> SUFFICES ASSUME TypeOK, [Next]_vars PROVE TypeOK'
  OBVIOUS
<1> USE MaxAttemptsPositive
<1>1. ASSUME NEW p \in Procs, Boot(p) PROVE TypeOK'
  BY <1>1 DEF Boot, TypeOK
<1>2. ASSUME NEW p \in Procs, Recover(p) PROVE TypeOK'
  <2>1. Terminalized(held[p]) \in JobRecord
    BY DEF TypeOK, Terminalized, JobRecord, JobStatus, ErrorCategory
  <2>2. /\ disk' \in JobRecord \cup {NoRecord}
        /\ life' \in [Procs -> {"unborn", "recovering", "up", "dead"}]
    BY <1>2, <2>1 DEF Recover, TypeOK
  <2>3. /\ request' \in [Procs -> {"none", "recover", "validate", "qa", "start"}]
        /\ held' \in [Procs -> JobRecord]
    BY <1>2, DoneType DEF Recover
  <2>4. QED
    BY <1>2, <2>2, <2>3 DEF Recover, TypeOK
<1>3. ASSUME NEW p \in Procs, Crash(p) PROVE TypeOK'
  <2>1. /\ request' \in [Procs -> {"none", "recover", "validate", "qa", "start"}]
        /\ held' \in [Procs -> JobRecord]
    BY <1>3, DoneType DEF Crash
  <2>2. run' \in [Procs -> Run]
    BY <1>3, BecomesType, IdleType DEF Crash
  <2>3. QED
    BY <1>3, <2>1, <2>2 DEF Crash, TypeOK
<1>4. ASSUME NEW p \in Procs, NEW forced \in BOOLEAN, StartRun(p, forced) PROVE TypeOK'
  <2>1. [Idle EXCEPT !.pc = "load", !.force = forced] \in Run
    BY IdleType DEF Run, Location
  <2>2. run' \in [Procs -> Run]
    BY <1>4, <2>1, BecomesType DEF StartRun
  <2>3. QED
    BY <1>4, <2>2 DEF StartRun, TypeOK
<1>4a. ASSUME NEW p \in Procs, LoadCancelled(p) PROVE TypeOK'
  <2>1. At(p, "dropping", Loaded) \in Run
    BY LoadedType, AtType DEF Location
  <2>2. run' \in [Procs -> Run]
    BY <1>4a, <2>1, BecomesType DEF LoadCancelled
  <2>3. QED
    BY <1>4a, <2>2 DEF LoadCancelled, TypeOK
<1>5. ASSUME NEW p \in Procs, RunStep(p) PROVE TypeOK'
  <2> DEFINE record == run[p].job
  <2>0. /\ record \in JobRecord
        /\ run[p].exc \in Exception
        /\ {"load", "check", "loop"} \cup Working \subseteq Location
    BY RunFields DEF Location
  <2>a. "check" \in Location /\ "loop" \in Location
    BY DEF Location
  <2>1. CASE LoadJob(p)
    <3>2. CountedJob(p, Loaded) \in JobRecord
      BY LoadedType DEF CountedJob, JobRecord
    <3>3. run' \in [Procs -> Run]
      BY <2>0, <2>1, <3>2, AtType, BecomesType DEF LoadJob
    <3>4. QED
      BY <2>1, <3>3 DEF LoadJob, TypeOK
  <2>2. CASE CannotRead(p) \/ SkipCompleted(p) \/ OutOfAttempts(p)
    <3>1. run' \in [Procs -> Run]
      BY <2>2, IdleType, BecomesType DEF CannotRead, SkipCompleted, OutOfAttempts
    <3>2. QED
      BY <2>2, <3>1 DEF CannotRead, SkipCompleted, OutOfAttempts, TypeOK
  <2>3. CASE RejectCompleted(p)
    <3> DEFINE reset == [record EXCEPT !.status = "discovered", !.stage = "discovered",
                                       !.attempts = 0, !.qa_status = "failed"]
    <3>0. 0 \in 0..MaxAttempts /\ {"discovered"} \subseteq JobStatus \cap JobStage
      BY DEF JobStatus, JobStage
    <3>1. reset \in JobRecord
      BY <2>0, <3>0 DEF JobRecord
    <3>2. Save(p, reset, At(p, "loop", reset), Idle)
      BY <2>3 DEF RejectCompleted
    <3>3. disk' \in JobRecord \cup {NoRecord} /\ run' \in [Procs -> Run]
      BY <2>0, <3>1, <3>2, AtType, IdleType, SaveType
    <3>4. spent' \in 0..(MaxAttempts + 1)
      BY <2>3 DEF RejectCompleted, TypeOK
    <3>5. QED
      BY <2>3, <3>3, <3>4 DEF RejectCompleted, TypeOK
  <2>4. CASE BeginAttempt(p)
    <3>0. /\ record.attempts + 1 \in 0..MaxAttempts
          /\ "running" \in JobStatus /\ "preparing_runtime" \in JobStage
      BY <2>0, <2>4 DEF BeginAttempt, AttemptLeft, JobRecord, JobStatus, JobStage
    <3>1. Attempt(p, record) \in JobRecord
      BY <2>0, <3>0 DEF Attempt, JobRecord
    <3>2. Save(p, Attempt(p, record), At(p, "begun", Attempt(p, record)), Idle)
      BY <2>4 DEF BeginAttempt
    <3>3. "begun" \in Location
      BY DEF Location, Working
    <3>4. disk' \in JobRecord \cup {NoRecord} /\ run' \in [Procs -> Run]
      BY <3>1, <3>2, <3>3, AtType, IdleType, SaveType
    <3>5. spent' \in 0..(MaxAttempts + 1)
      BY <2>4 DEF BeginAttempt, TypeOK
    <3>6. QED
      BY <2>4, <3>4, <3>5 DEF BeginAttempt, TypeOK
  <2>5. CASE StartTranslating(p)
    <3> DEFINE started == [record EXCEPT !.stage = "translating"]
    <3>1. started \in JobRecord
      BY <2>0 DEF JobRecord, JobStage
    <3>2. Save(p, started, At(p, "translating", started), Raising(p, started, NoException))
      BY <2>5 DEF StartTranslating
    <3>3. "translating" \in Location
      BY DEF Location, Working
    <3>4. disk' \in JobRecord \cup {NoRecord} /\ run' \in [Procs -> Run]
      BY <3>1, <3>2, <3>3, AtType, RaisingType, NoExceptionType, SaveType
    <3>5. spent' \in 0..(MaxAttempts + 1)
      BY <2>5 DEF StartTranslating, Capped, TypeOK
    <3>6. QED
      BY <2>5, <3>4, <3>5 DEF StartTranslating, TypeOK
  <2>6. CASE Translated(p)
    <3>1. PICK listed \in {"empty", "unhashed"} :
            /\ Becomes(p, At(p, "produced", [record EXCEPT !.artifacts = listed]))
            /\ output' = IF listed = "empty" THEN output ELSE p
      BY <2>6 DEF Translated
    <3>2. [record EXCEPT !.artifacts = listed] \in JobRecord
      BY <2>0 DEF JobRecord, Artifacts
    <3>3. "produced" \in Location
      BY DEF Location, Working
    <3>4. run' \in [Procs -> Run]
      BY <3>1, <3>2, <3>3, AtType, BecomesType
    <3>5. output' \in Content \cup {NoFile}
      BY <3>1 DEF Content, TypeOK
    <3>6. QED
      BY <2>6, <3>4, <3>5 DEF Translated, TypeOK
  <2>7. ASSUME NEW x \in Raised, TranslateRaises(p, x) PROVE TypeOK'
    <3>1. run' \in [Procs -> Run]
      BY <2>0, <2>7, RaisedType, RaisingType, BecomesType DEF TranslateRaises
    <3>2. QED
      BY <2>7, <3>1 DEF TranslateRaises, TypeOK
  <2>8. CASE ValidateResult(p)
    <3> DEFINE hashed == [record EXCEPT !.artifacts = Hashed(@)]
    <3>1. hashed \in JobRecord
      BY <2>0, HashedType DEF JobRecord
    <3>2. "validated" \in Location
      BY DEF Location, Working
    <3>3. run' \in [Procs -> Run]
      BY <2>8, <3>1, <3>2, AtType, RaisingType, NoExceptionType, BecomesType DEF ValidateResult
    <3>4. QED
      BY <2>8, <3>3 DEF ValidateResult, TypeOK
  <2>9. CASE CompleteJob(p)
    <3> DEFINE completed == [record EXCEPT !.status = "completed", !.stage = "completed",
                                           !.qa_status = "passed", !.runner_pid = NoProc]
    <3>1. completed \in JobRecord
      BY <2>0 DEF JobRecord, JobStatus, JobStage
    <3>2. Save(p, completed, Idle, Raising(p, completed, NoException))
      BY <2>9 DEF CompleteJob
    <3>3. disk' \in JobRecord \cup {NoRecord} /\ run' \in [Procs -> Run]
      BY <3>1, <3>2, IdleType, RaisingType, NoExceptionType, SaveType
    <3>4. QED
      BY <2>9, <3>3 DEF CompleteJob, TypeOK
  <2>10. CASE CancelJob(p)
    <3> DEFINE cancelled == [record EXCEPT !.status = "cancelled", !.error_category = NoCategory,
                                           !.runner_pid = NoProc]
    <3>1. cancelled \in JobRecord
      BY <2>0 DEF JobRecord, JobStatus
    <3>2. Save(p, cancelled, Idle, Idle)
      BY <2>10 DEF CancelJob
    <3>3. disk' \in JobRecord \cup {NoRecord} /\ run' \in [Procs -> Run]
      BY <3>1, <3>2, IdleType, SaveType
    <3>4. QED
      BY <2>10, <3>3 DEF CancelJob, TypeOK
  <2>11. CASE FailAttempt(p)
    <3> DEFINE failed == [record EXCEPT !.status = "failed",
                            !.error_category = classify_exception(run[p].exc).category]
    <3>1. failed \in JobRecord
      BY <2>0, ClassifyType DEF JobRecord, JobStatus
    <3>2. Save(p, failed, At(p, "failed", failed), Idle)
      BY <2>11 DEF FailAttempt
    <3>3. "failed" \in Location
      BY DEF Location, Working
    <3>4. disk' \in JobRecord \cup {NoRecord} /\ run' \in [Procs -> Run]
      BY <3>1, <3>2, <3>3, AtType, IdleType, SaveType
    <3>5. QED
      BY <2>11, <3>4 DEF FailAttempt, TypeOK
  <2>12. CASE ScheduleRetry(p)
    <3> DEFINE pending == [record EXCEPT !.status = "retry_pending"]
    <3>1. pending \in JobRecord
      BY <2>0 DEF JobRecord, JobStatus
    <3>2. Save(p, pending, At(p, "backoff", pending), Idle)
      BY <2>12 DEF ScheduleRetry
    <3>3. "backoff" \in Location
      BY DEF Location, Working
    <3>4. disk' \in JobRecord \cup {NoRecord} /\ run' \in [Procs -> Run]
      BY <3>1, <3>2, <3>3, AtType, IdleType, SaveType
    <3>5. QED
      BY <2>12, <3>4 DEF ScheduleRetry, TypeOK
  <2>13. CASE GiveUp(p)
    <3> DEFINE ended == [record EXCEPT !.runner_pid = NoProc]
    <3>1. ended \in JobRecord
      BY <2>0 DEF JobRecord
    <3>2. Save(p, ended, Idle, Idle)
      BY <2>13 DEF GiveUp
    <3>3. disk' \in JobRecord \cup {NoRecord} /\ run' \in [Procs -> Run]
      BY <3>1, <3>2, IdleType, SaveType
    <3>4. QED
      BY <2>13, <3>3 DEF GiveUp, TypeOK
  <2>14. CASE BackoffOver(p)
    <3>1. [At(p, "loop", record) EXCEPT !.exc = NoException] \in Run
      BY <2>0, AtType, NoExceptionType DEF Run
    <3>2. run' \in [Procs -> Run]
      BY <2>14, <3>1, BecomesType DEF BackoffOver
    <3>3. QED
      BY <2>14, <3>2 DEF BackoffOver, TypeOK
  <2>15. CASE SaveCancelled(p)
    <3>1. CancelledUnrun(record) \in JobRecord
      BY <2>0 DEF CancelledUnrun, JobRecord, JobStatus
    <3>2. Save(p, CancelledUnrun(record), Idle, Idle)
      BY <2>15 DEF SaveCancelled
    <3>3. disk' \in JobRecord \cup {NoRecord} /\ run' \in [Procs -> Run]
      BY <3>1, <3>2, IdleType, SaveType
    <3>4. QED
      BY <2>15, <3>3 DEF SaveCancelled, TypeOK
  <2>16. QED
    BY <1>5, <2>1, <2>2, <2>3, <2>4, <2>5, <2>6, <2>7, <2>8, <2>9, <2>10, <2>11,
       <2>12, <2>13, <2>14, <2>15
    DEF RunStep, OwnStep, BackendStep
<1>6. ASSUME NEW p \in Procs, NEW kind \in Requests, LoadForRequest(p, kind) PROVE TypeOK'
  BY <1>6, ModeAssumption DEF LoadForRequest, TypeOK
<1>7. ASSUME NEW p \in Procs, ValidateOutput(p) PROVE TypeOK'
  <2>1. PICK qa \in {"passed", "failed"} :
          SaveForRequest(p, [held[p] EXCEPT !.artifacts = Hashed(@), !.qa_status = qa])
    BY <1>7 DEF ValidateOutput
  <2>2. [held[p] EXCEPT !.artifacts = Hashed(@), !.qa_status = qa] \in JobRecord
    <3>1. held[p] \in JobRecord
      BY DEF TypeOK
    <3>2. Hashed(held[p].artifacts) \in Artifacts
      BY <3>1, HashedType DEF JobRecord
    <3>3. QED
      BY <3>1, <3>2 DEF JobRecord
  <2>3. QED
    BY <2>1, <2>2, SaveForRequestType
<1>8. ASSUME NEW p \in Procs, RunQa(p) PROVE TypeOK'
  <2>1. PICK qa \in {"passed", "failed"} : SaveForRequest(p, [held[p] EXCEPT !.qa_status = qa])
    BY <1>8 DEF RunQa
  <2>2. [held[p] EXCEPT !.qa_status = qa] \in JobRecord
    BY DEF TypeOK, JobRecord
  <2>3. QED
    BY <2>1, <2>2, SaveForRequestType
<1>9. ASSUME Tamper PROVE TypeOK'
  BY <1>9 DEF Tamper, TypeOK, Content
<1>10. ASSUME UNCHANGED vars PROVE TypeOK'
  BY <1>10 DEF vars, TypeOK
<1>11. ASSUME NEW p \in Procs, RetryJob(p) PROVE TypeOK'
  BY <1>4, <1>11 DEF RetryJob
<1>12. ASSUME NEW p \in Procs, LoadForStart(p) PROVE TypeOK'
  BY <1>12, LoadedType DEF LoadForStart, TypeOK
<1>13. ASSUME NEW p \in Procs, SaveForStart(p) PROVE TypeOK'
  BY <1>13, SaveForRequestType DEF SaveForStart, TypeOK
<1>14. ASSUME NEW p \in Procs, RefuseStart(p) PROVE TypeOK'
  <2>1. /\ request' \in [Procs -> {"none", "recover", "validate", "qa", "start"}]
        /\ held' \in [Procs -> JobRecord]
    BY <1>14, DoneType DEF RefuseStart
  <2>2. QED
    BY <1>14, <2>1 DEF RefuseStart, TypeOK
<1>15. QED
  BY <1>1, <1>2, <1>3, <1>4, <1>4a, <1>5, <1>6, <1>7, <1>8, <1>9, <1>10, <1>11,
     <1>12, <1>13, <1>14
  DEF Next

\* Every reachable state of the model has the types its fields have in
\* core/state.py, attempts within max(max_retries, 1) included.
THEOREM TypeCorrect == Spec => []TypeOK
  BY InitType, TypeStep, PTL DEF Spec
-----------------------------------------------------------------------------
(***************************************************************************)
(* RecordConsistent.  ConsistencyInv is inductive; what is left of it once *)
(* the types are known is Agreed.                                          *)
(***************************************************************************)

Agreed ==
    /\ RecordConsistent
    /\ \A p \in Procs : Consistent(held[p]) /\ RunConsistent(run[p])

\* A record whose fields agree is consistent ...
LEMMA AgreeingConsistent ==
    ASSUME NEW record \in JobRecord, FieldsAgree(record)
    PROVE  Consistent(record)
<1>1. record.status \in JobStatus /\ [record EXCEPT !.status = record.status] = record
  BY DEF JobRecord
<1>2. QED
  BY <1>1 DEF Consistent

\* ... and so are those of a consistent one that no dropped run has marked.
LEMMA UnmarkedAgrees ==
    ASSUME NEW record \in JobRecord, Consistent(record), record.status # "cancelled"
    PROVE  FieldsAgree(record)
<1>1. PICK status \in JobStatus :
        /\ record.status \in {status, "cancelled"}
        /\ FieldsAgree([record EXCEPT !.status = status])
  BY DEF Consistent
<1>2. status = record.status
  BY <1>1
<1>3. [record EXCEPT !.status = status] = record
  BY <1>2 DEF JobRecord
<1>4. QED
  BY <1>1, <1>3

\* Marking a record as cancelled leaves it consistent.
LEMMA MarkedConsistent ==
    ASSUME NEW record \in JobRecord, Consistent(record)
    PROVE  Consistent(CancelledUnrun(record))
<1> DEFINE marked == CancelledUnrun(record)
<1>1. PICK status \in JobStatus :
        /\ record.status \in {status, "cancelled"}
        /\ FieldsAgree([record EXCEPT !.status = status])
  BY DEF Consistent
<1>2. /\ marked.status = "cancelled"
      /\ [marked EXCEPT !.status = status] = [record EXCEPT !.status = status]
  BY DEF CancelledUnrun, JobRecord
<1> HIDE DEF marked
<1>3. Consistent(marked)
  BY <1>1, <1>2 DEF Consistent
<1>4. QED
  BY <1>3 DEF marked

\* Looking at the output changes only the verdict, and hashes not yet recorded.
LEMMA LookedAtConsistent ==
    ASSUME NEW record \in JobRecord, Consistent(record),
           NEW artifacts, record.artifacts \in Content => artifacts = record.artifacts,
           NEW qa \in {"passed", "failed"}
    PROVE  Consistent([record EXCEPT !.artifacts = artifacts, !.qa_status = qa])
<1> DEFINE looked == [record EXCEPT !.artifacts = artifacts, !.qa_status = qa]
<1>1. PICK status \in JobStatus :
        /\ record.status \in {status, "cancelled"}
        /\ FieldsAgree([record EXCEPT !.status = status])
  BY DEF Consistent
<1> DEFINE before == [record EXCEPT !.status = status]
           after  == [looked EXCEPT !.status = status]
<1>2. /\ looked.status = record.status
      /\ after.status = before.status /\ after.attempts = before.attempts
      /\ after.runner_pid = before.runner_pid /\ after.stage = before.stage
      /\ after.error_category = before.error_category
      /\ after.artifacts = artifacts /\ after.qa_status = qa
      /\ before.artifacts = record.artifacts
  BY DEF JobRecord
<1> HIDE DEF looked, after, before
<1>3. FieldsAgree(after)
  BY <1>1, <1>2 DEF FieldsAgree, before
<1>4. Consistent(looked)
  BY <1>1, <1>2, <1>3 DEF Consistent, after
<1>5. QED
  BY <1>4 DEF looked

\* A new job is consistent.
LEMMA FreshJobConsistent == Consistent(FreshJob)
<1>1. FieldsAgree(FreshJob)
  BY DEF FieldsAgree, FreshJob, Active
<1>2. QED
  BY <1>1, FreshJobType, AgreeingConsistent

\* A process that runs nothing holds nothing inconsistent.
LEMMA IdleConsistent == RunConsistent(Idle)
  BY DEF RunConsistent, Idle

\* A counted attempt may stand anywhere up to the validated output.
LEMMA RunningConsistent ==
    ASSUME TypeOK, NEW p \in Procs, NEW record \in JobRecord,
           NEW location \in {"begun", "translating", "produced", "validated"},
           record.status = "running", record.attempts > 0,
           record.error_category = NoCategory, record.runner_pid # NoProc,
           location = "validated" => record.artifacts \in Content
    PROVE  At(p, location, record) \in Run /\ RunConsistent(At(p, location, record))
<1>1. location \in Location
  BY DEF Location, Working
<1>2. /\ At(p, location, record) \in Run
      /\ At(p, location, record).pc = location
      /\ At(p, location, record).job = record
  BY <1>1, AtType
<1>3. RunConsistent(At(p, location, record))
  BY <1>2 DEF RunConsistent
<1>4. QED
  BY <1>2, <1>3

\* An exception leaves the copy as consistent as its place requires.
LEMMA RaisingConsistent ==
    ASSUME TypeOK, NEW p \in Procs, NEW record \in JobRecord, NEW x \in Exception,
           record.attempts > 0, record.runner_pid = NoProc => x = NoException
    PROVE  Raising(p, record, x) \in Run /\ RunConsistent(Raising(p, record, x))
<1>1. RunConsistent(Raising(p, record, x))
  BY RaisingType DEF RunConsistent
<1>2. QED
  BY <1>1, RaisingType

\* What the handler writes is consistent.
LEMMA FailedConsistent ==
    ASSUME TypeOK, NEW p \in Procs, NEW record \in JobRecord,
           record.status = "failed", record.attempts > 0,
           record.error_category = classify_exception(run[p].exc).category,
           record.runner_pid = NoProc => run[p].exc = NoException
    PROVE  At(p, "failed", record) \in Run /\ RunConsistent(At(p, "failed", record))
<1>1. "failed" \in Location
  BY DEF Location, Working
<1>2. /\ At(p, "failed", record) \in Run
      /\ At(p, "failed", record).pc = "failed"
      /\ At(p, "failed", record).job = record
      /\ At(p, "failed", record).exc = run[p].exc
  BY <1>1, AtType
<1>3. RunConsistent(At(p, "failed", record))
  BY <1>2 DEF RunConsistent
<1>4. QED
  BY <1>2, <1>3

\* A run that moves without saving.
LEMMA MoveConsistent ==
    ASSUME TypeOK, Agreed, NEW p \in Procs, NEW state \in Run,
           Becomes(p, state), RunConsistent(state), disk' = disk, held' = held
    PROVE  Agreed'
<1>1. \A q \in Procs : run'[q] = state \/ run'[q] = run[q]
  BY BecomesType
<1>2. \A q \in Procs : RunConsistent(run'[q])
  BY <1>1 DEF Agreed
<1>3. QED
  BY <1>2 DEF Agreed, RecordConsistent

\* A run that saves: the record it writes agrees, and so do the two states
\* the save can leave it in.
LEMMA SaveConsistent ==
    ASSUME TypeOK, Agreed, NEW p \in Procs, NEW record \in JobRecord,
           NEW saved \in Run, NEW raised \in Run, Save(p, record, saved, raised),
           Consistent(record), RunConsistent(saved), RunConsistent(raised), held' = held
    PROVE  Agreed'
<1>1. \A q \in Procs : run'[q] = saved \/ run'[q] = raised \/ run'[q] = run[q]
  BY SaveType
<1>2. \A q \in Procs : RunConsistent(run'[q])
  BY <1>1 DEF Agreed
<1>3. RecordConsistent'
  BY SaveType DEF Agreed, RecordConsistent
<1>4. QED
  BY <1>2, <1>3 DEF Agreed

\* A request or a scan that ends, having written a record that agrees or none.
LEMMA DoneConsistent ==
    ASSUME TypeOK, Agreed, NEW p \in Procs, Done(p), run' = run,
           NEW record, Consistent(record), disk' = record \/ disk' = disk
    PROVE  Agreed'
<1>1. \A q \in Procs : held'[q] = FreshJob \/ held'[q] = held[q]
  BY DoneType
<1>2. \A q \in Procs : Consistent(held'[q])
  BY <1>1, FreshJobConsistent DEF Agreed
<1>3. RecordConsistent'
  BY DEF Agreed, RecordConsistent
<1>4. QED
  BY <1>2, <1>3 DEF Agreed

\* What a load returns is consistent.
LEMMA LoadedConsistent == Agreed => Consistent(Loaded)
  BY FreshJobConsistent DEF Agreed, RecordConsistent, Loaded

\* Every step of a run keeps its copy consistent.
LEMMA RunStepConsistent ==
    ASSUME TypeOK, Agreed, NEW p \in Procs, RunStep(p)
    PROVE  Agreed'
<1> DEFINE record == run[p].job
<1>0. /\ record \in JobRecord
      /\ run[p].exc \in Exception
      /\ record.attempts \in Nat
      /\ RunConsistent(run[p])
      /\ Idle \in Run
  BY RunFields, IdleType, MaxAttemptsPositive DEF JobRecord, Agreed
<1>1. CASE LoadJob(p)
  <2> DEFINE state == At(p, IF Settled(p, Loaded) THEN "check" ELSE "loop",
                         CountedJob(p, Loaded))
  <2>1. Consistent(Loaded)
    BY LoadedConsistent
  <2>2. Loaded \in JobRecord
    BY LoadedType
  <2>3. CountedJob(p, Loaded) \in JobRecord
    BY <2>2, MaxAttemptsPositive DEF CountedJob, JobRecord
  <2>4. /\ state \in Run
        /\ state.pc = IF Settled(p, Loaded) THEN "check" ELSE "loop"
        /\ state.job = CountedJob(p, Loaded)
    BY <2>3, AtType DEF Location
  <2>5. Settled(p, Loaded) => state.job = Loaded /\ Loaded.status = "completed"
    BY <2>4 DEF Settled, CountedJob
  <2>6. RunConsistent(state)
    BY <2>1, <2>4, <2>5 DEF RunConsistent
  <2>7. Becomes(p, state) /\ disk' = disk /\ held' = held
    BY <1>1 DEF LoadJob
  <2>8. QED
    BY <2>4, <2>6, <2>7, MoveConsistent
<1>2. CASE CannotRead(p) \/ SkipCompleted(p) \/ OutOfAttempts(p)
  BY <1>0, <1>2, IdleConsistent, MoveConsistent DEF CannotRead, SkipCompleted, OutOfAttempts
<1>3. CASE RejectCompleted(p)
  <2> DEFINE reset == [record EXCEPT !.status = "discovered", !.stage = "discovered",
                                     !.attempts = 0, !.qa_status = "failed"]
  <2>1. 0 \in 0..MaxAttempts /\ {"discovered"} \subseteq JobStatus \cap JobStage
    BY MaxAttemptsPositive DEF JobStatus, JobStage
  <2>2. reset \in JobRecord
    BY <1>0, <2>1 DEF JobRecord
  <2>3. record.status = "completed" /\ Consistent(record)
    BY <1>0, <1>3 DEF RejectCompleted, RunConsistent
  <2>4. Consistent(reset)
    <3>1. FieldsAgree(record)
      BY <1>0, <2>3, UnmarkedAgrees
    <3>2. FieldsAgree(reset)
      BY <1>0, <2>3, <3>1 DEF FieldsAgree, Active, JobRecord
    <3>3. QED
      BY <2>2, <3>2, AgreeingConsistent
  <2>5. At(p, "loop", reset) \in Run /\ RunConsistent(At(p, "loop", reset))
    BY <2>2, AtType DEF RunConsistent, Location
  <2>6. Save(p, reset, At(p, "loop", reset), Idle) /\ held' = held
    BY <1>3 DEF RejectCompleted
  <2>7. QED
    BY <1>0, <2>2, <2>4, <2>5, <2>6, IdleConsistent, SaveConsistent
<1>4. CASE BeginAttempt(p)
  <2> DEFINE begun == Attempt(p, record)
  <2>1. /\ record.attempts + 1 \in 0..MaxAttempts
        /\ "running" \in JobStatus /\ "preparing_runtime" \in JobStage
    BY <1>0, <1>4, MaxAttemptsPositive DEF BeginAttempt, AttemptLeft, JobRecord, JobStatus, JobStage
  <2>2. begun \in JobRecord
    BY <1>0, <2>1 DEF Attempt, JobRecord
  <2>3. /\ begun.status = "running" /\ begun.attempts = record.attempts + 1
        /\ begun.error_category = NoCategory /\ begun.runner_pid = p
    BY <1>0 DEF Attempt, JobRecord
  <2>4. begun.attempts > 0 /\ begun.runner_pid # NoProc
    BY <1>0, <2>3, ProcsAssumption
  <2>5. Consistent(begun)
    <3>1. FieldsAgree(begun)
      BY <2>3, <2>4 DEF FieldsAgree, Active
    <3>2. QED
      BY <2>2, <3>1, AgreeingConsistent
  <2>6. At(p, "begun", begun) \in Run /\ RunConsistent(At(p, "begun", begun))
    BY <2>2, <2>3, <2>4, RunningConsistent
  <2>7. Save(p, begun, At(p, "begun", begun), Idle) /\ held' = held
    BY <1>4 DEF BeginAttempt
  <2>8. QED
    BY <1>0, <2>2, <2>5, <2>6, <2>7, IdleConsistent, SaveConsistent
<1>5. CASE StartTranslating(p)
  <2> DEFINE started == [record EXCEPT !.stage = "translating"]
  <2>1. started \in JobRecord
    BY <1>0 DEF JobRecord, JobStage
  <2>2. /\ started.status = "running" /\ started.attempts > 0
        /\ started.error_category = NoCategory /\ started.runner_pid # NoProc
    BY <1>0, <1>5 DEF StartTranslating, RunConsistent, JobRecord
  <2>3. Consistent(started)
    <3>1. FieldsAgree(started)
      BY <2>2 DEF FieldsAgree, Active
    <3>2. QED
      BY <2>1, <3>1, AgreeingConsistent
  <2>4. At(p, "translating", started) \in Run /\ RunConsistent(At(p, "translating", started))
    BY <2>1, <2>2, RunningConsistent
  <2>5. /\ Raising(p, started, NoException) \in Run
        /\ RunConsistent(Raising(p, started, NoException))
    BY <2>1, <2>2, RaisingConsistent, NoExceptionType
  <2>6. /\ Save(p, started, At(p, "translating", started), Raising(p, started, NoException))
        /\ held' = held
    BY <1>5 DEF StartTranslating
  <2>7. QED
    BY <2>1, <2>3, <2>4, <2>5, <2>6, SaveConsistent
<1>6. CASE Translated(p)
  <2>1. PICK listed \in {"empty", "unhashed"} :
          Becomes(p, At(p, "produced", [record EXCEPT !.artifacts = listed]))
    BY <1>6 DEF Translated
  <2> DEFINE produced == [record EXCEPT !.artifacts = listed]
  <2>2. produced \in JobRecord
    BY <1>0 DEF JobRecord, Artifacts
  <2>3. /\ produced.status = "running" /\ produced.attempts > 0
        /\ produced.error_category = NoCategory /\ produced.runner_pid # NoProc
    BY <1>0, <1>6 DEF Translated, RunConsistent, JobRecord
  <2>4. At(p, "produced", produced) \in Run /\ RunConsistent(At(p, "produced", produced))
    BY <2>2, <2>3, RunningConsistent
  <2>5. QED
    BY <1>6, <2>1, <2>4, MoveConsistent DEF Translated
<1>7. ASSUME NEW x \in Raised, TranslateRaises(p, x) PROVE Agreed'
  <2>1. record.attempts > 0 /\ record.runner_pid # NoProc
    BY <1>0, <1>7 DEF TranslateRaises, RunConsistent
  <2>2. Raising(p, record, x) \in Run /\ RunConsistent(Raising(p, record, x))
    BY <1>0, <2>1, RaisedType, RaisingType DEF RunConsistent
  <2>3. QED
    BY <1>7, <2>2, MoveConsistent DEF TranslateRaises
<1>8. CASE ValidateResult(p)
  <2> DEFINE hashed == [record EXCEPT !.artifacts = Hashed(@)]
             valid == ValidArtifacts(record.artifacts)
  <2>1. record.artifacts \in Artifacts
    BY <1>0 DEF JobRecord
  <2>2. hashed \in JobRecord /\ (valid => hashed.artifacts \in Content)
    BY <1>0, <2>1, HashedType DEF JobRecord
  <2>3. /\ hashed.status = "running" /\ hashed.attempts > 0
        /\ hashed.error_category = NoCategory /\ hashed.runner_pid # NoProc
    BY <1>0, <1>8 DEF ValidateResult, RunConsistent, JobRecord
  <2>4. CASE valid
    <3>1. At(p, "validated", hashed) \in Run /\ RunConsistent(At(p, "validated", hashed))
      BY <2>2, <2>3, <2>4, RunningConsistent
    <3>2. Becomes(p, At(p, "validated", hashed)) /\ disk' = disk /\ held' = held
      BY <1>8, <2>4 DEF ValidateResult
    <3>3. QED
      BY <3>1, <3>2, MoveConsistent
  <2>5. CASE ~valid
    <3>1. /\ Raising(p, hashed, NoException) \in Run
          /\ RunConsistent(Raising(p, hashed, NoException))
      BY <2>2, <2>3, RaisingConsistent, NoExceptionType
    <3>2. Becomes(p, Raising(p, hashed, NoException)) /\ disk' = disk /\ held' = held
      BY <1>8, <2>5 DEF ValidateResult
    <3>3. QED
      BY <3>1, <3>2, MoveConsistent
  <2>6. QED
    BY <2>4, <2>5
<1>9. CASE CompleteJob(p)
  <2> DEFINE completed == [record EXCEPT !.status = "completed", !.stage = "completed",
                                         !.qa_status = "passed", !.runner_pid = NoProc]
  <2>1. completed \in JobRecord
    BY <1>0 DEF JobRecord, JobStatus, JobStage
  <2>2. /\ record.attempts > 0 /\ record.error_category = NoCategory
        /\ record.artifacts \in Content
    BY <1>0, <1>9 DEF CompleteJob, RunConsistent
  <2>3. Consistent(completed)
    <3>1. FieldsAgree(completed)
      BY <1>0, <2>2 DEF FieldsAgree, Active, JobRecord
    <3>2. QED
      BY <2>1, <3>1, AgreeingConsistent
  <2>4. /\ Raising(p, completed, NoException) \in Run
        /\ RunConsistent(Raising(p, completed, NoException))
    <3>1. completed.attempts > 0
      BY <1>0, <2>2 DEF JobRecord
    <3>2. QED
      BY <2>1, <3>1, RaisingConsistent, NoExceptionType
  <2>5. Save(p, completed, Idle, Raising(p, completed, NoException)) /\ held' = held
    BY <1>9 DEF CompleteJob
  <2>6. QED
    BY <1>0, <2>1, <2>3, <2>4, <2>5, IdleConsistent, SaveConsistent
<1>10. CASE CancelJob(p)
  <2> DEFINE cancelled == [record EXCEPT !.status = "cancelled", !.error_category = NoCategory,
                                         !.runner_pid = NoProc]
  <2>1. cancelled \in JobRecord
    BY <1>0 DEF JobRecord, JobStatus
  <2>2. Consistent(cancelled)
    <3>1. FieldsAgree(cancelled)
      BY <1>0 DEF FieldsAgree, Active, JobRecord
    <3>2. QED
      BY <2>1, <3>1, AgreeingConsistent
  <2>3. Save(p, cancelled, Idle, Idle) /\ held' = held
    BY <1>10 DEF CancelJob
  <2>4. QED
    BY <1>0, <2>1, <2>2, <2>3, IdleConsistent, SaveConsistent
<1>11. CASE FailAttempt(p)
  <2> DEFINE category == classify_exception(run[p].exc).category
             failed == [record EXCEPT !.status = "failed", !.error_category = category]
  <2>1. category \in ErrorCategory
    BY <1>0, ClassifyType
  <2> HIDE DEF category
  <2>2. failed \in JobRecord
    BY <1>0, <2>1 DEF JobRecord, JobStatus
  <2>3. /\ record.attempts > 0
        /\ record.runner_pid = NoProc => run[p].exc = NoException
    BY <1>0, <1>11 DEF FailAttempt, RunConsistent
  <2>4. /\ failed.status = "failed" /\ failed.attempts > 0
        /\ failed.error_category = category /\ failed.runner_pid = record.runner_pid
    BY <1>0, <2>3 DEF JobRecord
  <2>5. Consistent(failed)
    <3>1. FieldsAgree(failed)
      BY <2>1, <2>4 DEF FieldsAgree, Active
    <3>2. QED
      BY <2>2, <3>1, AgreeingConsistent
  <2>6. At(p, "failed", failed) \in Run /\ RunConsistent(At(p, "failed", failed))
    BY <2>2, <2>3, <2>4, FailedConsistent DEF category
  <2>7. Save(p, failed, At(p, "failed", failed), Idle) /\ held' = held
    BY <1>11 DEF FailAttempt, category
  <2>8. QED
    BY <1>0, <2>2, <2>5, <2>6, <2>7, IdleConsistent, SaveConsistent
<1>12. CASE ScheduleRetry(p)
  <2> DEFINE pending == [record EXCEPT !.status = "retry_pending"]
             error == classify_exception(run[p].exc)
  <2>1. pending \in JobRecord
    BY <1>0 DEF JobRecord, JobStatus
  <2>2. /\ record.attempts > 0 /\ record.error_category = error.category
        /\ record.runner_pid = NoProc => run[p].exc = NoException
    BY <1>0, <1>12 DEF ScheduleRetry, RunConsistent
  <2>3. /\ record.attempts < retry_limit_for(error.category, RetryLimits, MaxRetries)
        /\ error.retryable
    BY <1>12 DEF ScheduleRetry, MayRetry
  <2>4. record.runner_pid # NoProc
    BY <2>2, <2>3 DEF NoException, classify_exception
  <2>5. error.category \in ErrorCategory
    BY <1>0, ClassifyType
  <2> HIDE DEF error
  <2>6. Consistent(pending)
    <3>1. FieldsAgree(pending)
      BY <1>0, <2>2, <2>3, <2>4, <2>5 DEF FieldsAgree, Active, JobRecord
    <3>2. QED
      BY <2>1, <3>1, AgreeingConsistent
  <2>7. At(p, "backoff", pending) \in Run /\ RunConsistent(At(p, "backoff", pending))
    BY <2>1, AtType DEF RunConsistent, Location, Working
  <2>8. Save(p, pending, At(p, "backoff", pending), Idle) /\ held' = held
    BY <1>12 DEF ScheduleRetry
  <2>9. QED
    BY <1>0, <2>1, <2>6, <2>7, <2>8, IdleConsistent, SaveConsistent
<1>13. CASE GiveUp(p)
  <2> DEFINE ended == [record EXCEPT !.runner_pid = NoProc]
  <2>1. ended \in JobRecord
    BY <1>0 DEF JobRecord
  <2>2. /\ record.status = "failed" /\ record.attempts > 0
        /\ record.error_category \in ErrorCategory
    BY <1>0, <1>13, ClassifyType DEF GiveUp, RunConsistent
  <2>3. Consistent(ended)
    <3>1. FieldsAgree(ended)
      BY <1>0, <2>2 DEF FieldsAgree, Active, JobRecord
    <3>2. QED
      BY <2>1, <3>1, AgreeingConsistent
  <2>4. Save(p, ended, Idle, Idle) /\ held' = held
    BY <1>13 DEF GiveUp
  <2>5. QED
    BY <1>0, <2>1, <2>3, <2>4, IdleConsistent, SaveConsistent
<1>14. CASE BackoffOver(p)
  <2> DEFINE state == [At(p, "loop", record) EXCEPT !.exc = NoException]
  <2>1. "loop" \in Location
    BY DEF Location
  <2>2. state \in Run /\ state.pc = "loop"
    BY <1>0, <2>1, AtType, NoExceptionType DEF Run
  <2>3. RunConsistent(state)
    BY <2>2 DEF RunConsistent
  <2>4. Becomes(p, state) /\ disk' = disk /\ held' = held
    BY <1>14 DEF BackoffOver
  <2>5. QED
    BY <2>2, <2>3, <2>4, MoveConsistent
<1>15. CASE SaveCancelled(p)
  <2>1. CancelledUnrun(record) \in JobRecord
    BY <1>0 DEF CancelledUnrun, JobRecord, JobStatus
  <2>2. Consistent(CancelledUnrun(record))
    BY <1>0, <1>15, MarkedConsistent DEF SaveCancelled, RunConsistent
  <2>3. Save(p, CancelledUnrun(record), Idle, Idle) /\ held' = held
    BY <1>15 DEF SaveCancelled
  <2>4. QED
    BY <1>0, <2>1, <2>2, <2>3, IdleConsistent, SaveConsistent
<1>16. QED
  BY <1>1, <1>2, <1>3, <1>4, <1>5, <1>6, <1>7, <1>8, <1>9, <1>10, <1>11, <1>12,
     <1>13, <1>14, <1>15
  DEF RunStep, OwnStep, BackendStep

\* Every step keeps file and copies consistent.
LEMMA AgreedStep == TypeOK /\ Agreed /\ [Next]_vars => Agreed'
<1> SUFFICES ASSUME TypeOK, Agreed, [Next]_vars PROVE Agreed'
  OBVIOUS
<1>1. ASSUME NEW p \in Procs, Boot(p) PROVE Agreed'
  <2>1. \A q \in Procs : held'[q] = held[q] \/ (disk # NoRecord /\ held'[q] = disk)
    BY <1>1 DEF Boot, TypeOK
  <2>2. QED
    BY <1>1, <2>1 DEF Boot, Agreed, RecordConsistent
<1>2. ASSUME NEW p \in Procs, Recover(p) PROVE Agreed'
  <2>1. CASE Interrupted(held[p])
    <3>1. held[p] \in JobRecord /\ Consistent(held[p])
      BY DEF TypeOK, Agreed
    <3>2. FieldsAgree(held[p])
      BY <2>1, <3>1, UnmarkedAgrees DEF Interrupted, Active
    <3>3. Terminalized(held[p]) \in JobRecord
      BY <3>1 DEF Terminalized, JobRecord, JobStatus, ErrorCategory
    <3>4. FieldsAgree(Terminalized(held[p]))
      BY <2>1, <3>1, <3>2
      DEF Terminalized, FieldsAgree, Interrupted, Active, JobRecord, ErrorCategory
    <3>5. Consistent(Terminalized(held[p]))
      BY <3>3, <3>4, AgreeingConsistent
    <3>6. QED
      BY <1>2, <3>5, DoneConsistent DEF Recover
  <2>2. CASE ~Interrupted(held[p])
    BY <1>2, <2>2, FreshJobConsistent, DoneConsistent DEF Recover
  <2>3. QED
    BY <2>1, <2>2
<1>3. ASSUME NEW p \in Procs, Crash(p) PROVE Agreed'
  <2>1. \A q \in Procs : held'[q] = FreshJob \/ held'[q] = held[q]
    BY <1>3, DoneType DEF Crash
  <2>2. \A q \in Procs : run'[q] = Idle \/ run'[q] = run[q]
    BY <1>3, IdleType, BecomesType DEF Crash
  <2>3. QED
    BY <1>3, <2>1, <2>2, FreshJobConsistent, IdleConsistent DEF Crash, Agreed, RecordConsistent
<1>4. ASSUME NEW p \in Procs, NEW forced \in BOOLEAN, StartRun(p, forced) PROVE Agreed'
  <2> DEFINE state == [Idle EXCEPT !.pc = "load", !.force = forced]
  <2>1. state \in Run /\ state.pc = "load"
    BY IdleType DEF Run, Location
  <2>2. RunConsistent(state)
    BY <2>1 DEF RunConsistent
  <2>3. QED
    BY <1>4, <2>1, <2>2, MoveConsistent DEF StartRun
<1>4a. ASSUME NEW p \in Procs, LoadCancelled(p) PROVE Agreed'
  <2>1. /\ At(p, "dropping", Loaded) \in Run
        /\ At(p, "dropping", Loaded).pc = "dropping"
        /\ At(p, "dropping", Loaded).job = Loaded
    BY LoadedType, AtType DEF Location
  <2>2. RunConsistent(At(p, "dropping", Loaded))
    BY <2>1, LoadedConsistent DEF RunConsistent
  <2>3. QED
    BY <1>4a, <2>1, <2>2, MoveConsistent DEF LoadCancelled
<1>5. ASSUME NEW p \in Procs, RunStep(p) PROVE Agreed'
  BY <1>5, RunStepConsistent
<1>6. ASSUME NEW p \in Procs, NEW kind \in Requests, LoadForRequest(p, kind) PROVE Agreed'
  <2>1. \A q \in Procs : held'[q] = held[q] \/ (disk # NoRecord /\ held'[q] = disk)
    BY <1>6 DEF LoadForRequest, TypeOK
  <2>2. QED
    BY <1>6, <2>1 DEF LoadForRequest, Agreed, RecordConsistent
<1>7. ASSUME NEW p \in Procs, ValidateOutput(p) PROVE Agreed'
  <2>1. PICK qa \in {"passed", "failed"} :
          SaveForRequest(p, [held[p] EXCEPT !.artifacts = Hashed(@), !.qa_status = qa])
    BY <1>7 DEF ValidateOutput
  <2> DEFINE record == [held[p] EXCEPT !.artifacts = Hashed(@), !.qa_status = qa]
  <2>2. held[p] \in JobRecord /\ Consistent(held[p])
    BY DEF TypeOK, Agreed
  <2>3. held[p].artifacts \in Content => Hashed(held[p].artifacts) = held[p].artifacts
    BY HashedType DEF Artifacts
  <2>4. Consistent(record)
    BY <2>2, <2>3, LookedAtConsistent
  <2>5. QED
    BY <2>1, <2>4, DoneConsistent DEF SaveForRequest
<1>8. ASSUME NEW p \in Procs, RunQa(p) PROVE Agreed'
  <2>1. PICK qa \in {"passed", "failed"} : SaveForRequest(p, [held[p] EXCEPT !.qa_status = qa])
    BY <1>8 DEF RunQa
  <2> DEFINE record == [held[p] EXCEPT !.qa_status = qa]
  <2>2. held[p] \in JobRecord /\ Consistent(held[p])
    BY DEF TypeOK, Agreed
  <2>3. record = [held[p] EXCEPT !.artifacts = held[p].artifacts, !.qa_status = qa]
    BY <2>2 DEF JobRecord
  <2>4. Consistent(record)
    BY <2>2, <2>3, LookedAtConsistent
  <2>5. QED
    BY <2>1, <2>4, DoneConsistent DEF SaveForRequest
<1>9. ASSUME Tamper \/ UNCHANGED vars PROVE Agreed'
  BY <1>9 DEF Tamper, vars, Agreed, RecordConsistent
<1>10. ASSUME NEW p \in Procs, RetryJob(p) PROVE Agreed'
  BY <1>4, <1>10 DEF RetryJob
<1>11. ASSUME NEW p \in Procs, LoadForStart(p) PROVE Agreed'
  <2>1. \A q \in Procs : held'[q] = held[q] \/ held'[q] = Loaded
    BY <1>11 DEF LoadForStart, TypeOK
  <2>2. QED
    BY <1>11, <2>1, LoadedConsistent DEF LoadForStart, Agreed, RecordConsistent
<1>12. ASSUME NEW p \in Procs, SaveForStart(p) PROVE Agreed'
  <2>1. Consistent(held[p])
    BY DEF Agreed
  <2>2. QED
    BY <1>12, <2>1, DoneConsistent DEF SaveForStart, SaveForRequest
<1>13. ASSUME NEW p \in Procs, RefuseStart(p) PROVE Agreed'
  BY <1>13, FreshJobConsistent, DoneConsistent DEF RefuseStart
<1>14. QED
  BY <1>1, <1>2, <1>3, <1>4, <1>4a, <1>5, <1>6, <1>7, <1>8, <1>9, <1>10, <1>11,
     <1>12, <1>13
  DEF Next

\* They are consistent at the start.
LEMMA InitAgreed == Init => Agreed
  BY FreshJobConsistent, IdleConsistent DEF Init, Agreed, RecordConsistent

(***************************************************************************)
(* A persisted record is consistent in every reachable state, however many *)
(* processes write it, whatever they read before they write, wherever they *)
(* crash and whichever of their saves fail.                                *)
(***************************************************************************)
THEOREM RecordAlwaysConsistent == Spec => []RecordConsistent
<1>1. TypeOK /\ Agreed /\ [Next]_vars => TypeOK' /\ Agreed'
  BY TypeStep, AgreedStep
<1>2. Init => TypeOK /\ Agreed
  BY InitType, InitAgreed
<1>3. Agreed => RecordConsistent
  BY DEF Agreed
<1>4. QED
  BY <1>1, <1>2, <1>3, PTL DEF Spec
=============================================================================
